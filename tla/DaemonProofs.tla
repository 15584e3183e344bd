----------------------------- MODULE DaemonProofs -----------------------------
(***************************************************************************)
(* Machine-checked proofs about the daemon. Daemon: for any connections,   *)
(* names, peers and capacities, no fetch runs unattended, a connection that *)
(* is gone leaves nothing running, and the drain writes the durable record *)
(* first. Launch: for any apps and daemon processes on a host, a process   *)
(* that serves does so alone, and no two apps share a data service.        *)
(***************************************************************************)
EXTENDS Daemon, Launch, FiniteSetTheorems, SequenceTheorems, TLAPS

Late == {"disconnect", "cancel-queries", "finished"}
Server == [phase : Phases, draining : BOOLEAN, next : 0 .. MaxIds, left : SUBSET Names,
           flushed : BOOLEAN, accept : BOOLEAN]
Clients == [Names -> [id : Ids \cup {-1}, by : Conns \cup {None}]]

(* What each command carries.                                               *)
LEMMA CommandIs ==
  ASSUME NEW r \in Command
  PROVE  /\ r.op \in Ops \cup Late
         /\ r.op \in Ops => r.conn \in Conns /\ r.op \notin Late
         /\ r.op \in {"open-client", "close-client", "disconnect"} => r.arg \in Names
         /\ r.op \in {"cancel-query", "finished"} => r.arg \in Ids
         /\ r.op = "cancel-queries" => r.arg \in SUBSET Ids
  BY DEF Command, Ops, Late

(* What taking a command and sending one does to the channel.               *)
LEMMA ChannelIs ==
  ASSUME NEW q \in Seq(Command)
  PROVE  /\ Len(q) \in Nat /\ DOMAIN q = 1 .. Len(q)
         /\ \A i \in 1 .. Len(q) : q[i] \in Command
         /\ q # <<>> => /\ Head(q) \in Command /\ q[1] = Head(q) /\ 1 \in 1 .. Len(q)
                        /\ Tail(q) \in Seq(Command) /\ Len(Tail(q)) = Len(q) - 1
                        /\ \A i \in 1 .. Len(Tail(q)) :
                             i + 1 \in 1 .. Len(q) /\ i + 1 # 1 /\ Tail(q)[i] = q[i + 1]
                        /\ \A i \in 1 .. Len(q) : i # 1 => i - 1 \in 1 .. Len(Tail(q)) /\ Tail(q)[i - 1] = q[i]
         /\ \A c \in Command :
              /\ Append(q, c) \in Seq(Command) /\ Len(Append(q, c)) = Len(q) + 1
              /\ \A i \in 1 .. Len(q) : Append(q, c)[i] = q[i]
              /\ Append(q, c)[Len(q) + 1] = c
  OBVIOUS

-----------------------------------------------------------------------------
(* The opens in the channel.                                                *)

LEMMA OpensFinite ==
  ASSUME NEW q \in Seq(Command)
  PROVE  IsFiniteSet(OpensIn(q)) /\ Cardinality(OpensIn(q)) \in Nat
  <1>1. Len(q) \in Nat /\ OpensIn(q) \subseteq 1 .. Len(q)
    BY ChannelIs DEF OpensIn
  <1>2. IsFiniteSet(1 .. Len(q))
    BY <1>1, FS_Interval
  <1> QED
    BY <1>1, <1>2, FS_Subset, FS_CardinalityType

LEMMA OpensAppend ==
  ASSUME NEW q \in Seq(Command), NEW c \in Command
  PROVE  /\ c.op \in Opens => Cardinality(OpensIn(Append(q, c))) = Cardinality(OpensIn(q)) + 1
         /\ c.op \notin Opens => OpensIn(Append(q, c)) = OpensIn(q)
  <1> DEFINE a == Append(q, c)
  <1>1. /\ Len(q) \in Nat /\ Len(a) = Len(q) + 1 /\ a[Len(q) + 1] = c
        /\ \A i \in 1 .. Len(q) : a[i] = q[i]
        /\ DOMAIN q = 1 .. Len(q) /\ DOMAIN a = 1 .. Len(a)
    BY ChannelIs
  <1> HIDE DEF a
  <1>2. 1 .. Len(a) = (1 .. Len(q)) \cup {Len(q) + 1} /\ Len(q) + 1 \notin 1 .. Len(q)
    BY <1>1
  <1>3. CASE c.op \in Opens
    <2>1. OpensIn(a) = OpensIn(q) \cup {Len(q) + 1} /\ Len(q) + 1 \notin OpensIn(q)
      BY <1>1, <1>2, <1>3 DEF OpensIn
    <2> QED
      BY <1>3, <2>1, OpensFinite, FS_AddElement DEF a
  <1>4. CASE c.op \notin Opens
    <2>1. OpensIn(a) = OpensIn(q)
      BY <1>1, <1>2, <1>4 DEF OpensIn
    <2> QED
      BY <1>4, <2>1 DEF a
  <1> QED
    BY <1>3, <1>4

LEMMA OpensTail ==
  ASSUME NEW q \in Seq(Command), q # <<>>
  PROVE  /\ Cardinality(OpensIn(Tail(q))) <= Cardinality(OpensIn(q))
         /\ Head(q).op \in Opens => Cardinality(OpensIn(Tail(q))) + 1 <= Cardinality(OpensIn(q))
  <1> DEFINE r == Tail(q)
             S == OpensIn(r)
             T == OpensIn(q) \ {1}
             f == [k \in S |-> k + 1]
  <1>1. /\ Len(q) \in Nat /\ DOMAIN q = 1 .. Len(q) /\ q[1] = Head(q) /\ 1 \in 1 .. Len(q)
        /\ r \in Seq(Command) /\ DOMAIN r = 1 .. Len(r) /\ Len(r) \in Nat
        /\ \A i \in 1 .. Len(r) : i + 1 \in 1 .. Len(q) /\ i + 1 # 1 /\ r[i] = q[i + 1]
    BY ChannelIs
  <1> HIDE DEF r
  <1>2. f \in [S -> T]
    BY <1>1 DEF OpensIn
  <1>3. \A a, b \in S : f[a] = f[b] => a = b
    BY <1>1 DEF OpensIn
  <1>4. f \in Injection(S, T)
    BY <1>2, <1>3 DEF Injection, IsInjective
  <1>5. IsFiniteSet(OpensIn(q)) /\ Cardinality(OpensIn(q)) \in Nat
    BY OpensFinite
  <1>6. /\ IsFiniteSet(T)
        /\ Cardinality(T) = IF 1 \in OpensIn(q) THEN Cardinality(OpensIn(q)) - 1 ELSE Cardinality(OpensIn(q))
    BY <1>5, FS_RemoveElement
  <1>7. Cardinality(S) <= Cardinality(T) /\ Cardinality(S) \in Nat
    BY <1>1, <1>4, <1>6, FS_Injection, OpensFinite
  <1>8. Head(q).op \in Opens => 1 \in OpensIn(q)
    BY <1>1 DEF OpensIn
  <1> HIDE DEF S, T
  <1>9. Cardinality(S) <= Cardinality(OpensIn(q))
        /\ (Head(q).op \in Opens => Cardinality(S) + 1 <= Cardinality(OpensIn(q)))
    BY <1>5, <1>6, <1>7, <1>8
  <1> QED
    BY <1>9 DEF S, r

-----------------------------------------------------------------------------
(* What taking the next command leaves of the invariant.                    *)

LEMMA HeadIs ==
  ASSUME TypeOK, cmds # <<>>
  PROVE  /\ Head(cmds) \in Command /\ cmds \in Seq(Command) /\ Tail(cmds) \in Seq(Command)
         /\ cmds[1] = Head(cmds) /\ 1 \in 1 .. Len(cmds)
  BY ChannelIs DEF TypeOK

LEMMA EnoughPop ==
  ASSUME TypeOK, Enough, cmds # <<>>, cmds' = Tail(cmds),
         \/ srv'.next = srv.next
         \/ Head(cmds).op \in Opens /\ srv'.next = srv.next + 1
  PROVE  Enough'
  <1>1. srv.next \in Nat /\ MaxIds \in Nat
    BY DaemonAssumption DEF TypeOK
  <1>2. /\ Cardinality(OpensIn(cmds)) \in Nat /\ Cardinality(OpensIn(Tail(cmds))) \in Nat
    BY HeadIs, OpensFinite
  <1>3. /\ Cardinality(OpensIn(Tail(cmds))) <= Cardinality(OpensIn(cmds))
        /\ Head(cmds).op \in Opens => Cardinality(OpensIn(Tail(cmds))) + 1 <= Cardinality(OpensIn(cmds))
    BY HeadIs, OpensTail
  <1>4. OpensIn(cmds)' = OpensIn(Tail(cmds))
    BY DEF OpensIn
  <1> QED
    BY <1>1, <1>2, <1>3, <1>4 DEF Enough

LEMMA OpenFinds ==
  ASSUME TypeOK, Enough, cmds # <<>>, Head(cmds).op \in Opens
  PROVE  srv.next \in Ids /\ srv.next + 1 \in 0 .. MaxIds
  <1>1. srv.next \in Nat /\ MaxIds \in Nat
    BY DaemonAssumption DEF TypeOK
  <1>2. Cardinality(OpensIn(cmds)) \in Nat /\ Cardinality(OpensIn(Tail(cmds))) \in Nat
        /\ Cardinality(OpensIn(Tail(cmds))) + 1 <= Cardinality(OpensIn(cmds))
    BY HeadIs, OpensFinite, OpensTail
  <1> QED
    BY <1>1, <1>2 DEF Enough, Ids

LEMMA WaitingPop ==
  ASSUME TypeOK, Waiting, cmds # <<>>, cmds' = Tail(cmds),
         \A c \in Conns : conn'[c] = conn[c] \/ (Head(cmds).op \in Ops /\ c = Head(cmds).conn)
  PROVE  Waiting'
  <1> DEFINE q == Tail(cmds)
  <1>1. /\ cmds[1] = Head(cmds) /\ 1 \in 1 .. Len(cmds)
        /\ \A k \in 1 .. Len(q) : k + 1 \in 1 .. Len(cmds) /\ k + 1 # 1 /\ q[k] = cmds[k + 1]
                                  /\ q[k] \in Command
    BY HeadIs, ChannelIs
  <1> HIDE DEF q
  <1>2. ASSUME NEW k \in 1 .. Len(q), q[k].op \in Ops
        PROVE  /\ conn'[q[k].conn].pc = "wait"
               /\ Tidy /\ q[k].op = "open-client" => conn'[q[k].conn].client = None
               /\ \A j \in 1 .. Len(q) : q[j].op \in Ops /\ q[j].conn = q[k].conn => j = k
    <2>1. q[k].conn \in Conns /\ ~(Head(cmds).op \in Ops /\ q[k].conn = Head(cmds).conn)
      BY <1>1, <1>2, CommandIs DEF Waiting
    <2>2. conn'[q[k].conn] = conn[q[k].conn]
      BY <2>1
    <2>3. /\ conn[q[k].conn].pc = "wait"
          /\ Tidy /\ q[k].op = "open-client" => conn[q[k].conn].client = None
      BY <1>1, <1>2 DEF Waiting
    <2>4. ASSUME NEW j \in 1 .. Len(q), q[j].op \in Ops, q[j].conn = q[k].conn
          PROVE  j = k
      <3>1. j + 1 = k + 1
        BY <1>1, <1>2, <2>4 DEF Waiting
      <3> QED
        BY <3>1
    <2> QED
      BY <2>2, <2>3, <2>4
  <1> QED
    BY <1>2 DEF Waiting, q

LEMMA QueuedPop ==
  ASSUME TypeOK, cmds # <<>>, cmds' = Tail(cmds), NEW o, NEW x, Queued(o, x),
         \/ Head(cmds).op # o
         \/ o = "disconnect" /\ Head(cmds).arg # x
         \/ o = "cancel-queries" /\ x \notin Head(cmds).arg
  PROVE  Queued(o, x)'
  <1>1. PICK k \in 1 .. Len(cmds) :
          cmds[k].op = o /\ (IF o = "cancel-queries" THEN x \in cmds[k].arg ELSE cmds[k].arg = x)
    BY DEF Queued
  <1>2. k # 1
    BY <1>1, HeadIs
  <1>3. k - 1 \in 1 .. Len(Tail(cmds)) /\ Tail(cmds)[k - 1] = cmds[k]
    BY <1>2, HeadIs, ChannelIs
  <1> QED
    BY <1>1, <1>3 DEF Queued

LEMMA QueuedGrow ==
  ASSUME \A k \in 1 .. Len(cmds) : k \in 1 .. Len(cmds') /\ cmds'[k] = cmds[k],
         NEW o, NEW x, Queued(o, x)
  PROVE  Queued(o, x)'
  BY DEF Queued

(* The reply: its connection goes on, with its teardown armed.              *)
LEMMA ReplyIs ==
  ASSUME TypeOK, Waiting, cmds # <<>>, Head(cmds).op \in Ops,
         NEW ok \in BOOLEAN, NEW unknown \in BOOLEAN, NEW id,
         Head(cmds).op = "open-query" /\ ok => id \in Ids,
         Reply(Head(cmds), ok, unknown, id)
  PROVE  LET r == Head(cmds)
             c == Head(cmds).conn
         IN  /\ c \in Conns /\ conn[c].pc = "wait" /\ conn'[c].pc = "idle"
             /\ \A d \in Conns : d # c => conn'[d] = conn[d]
             /\ conn' \in [Conns -> Connection]
             /\ conn'[c].client = IF r.op = "open-client" /\ ok THEN r.arg ELSE conn[c].client
             /\ conn'[c].queries =
                  IF r.op = "open-query" /\ ok THEN conn[c].queries \cup {id}
                  ELSE IF r.op = "cancel-query" /\ (ok \/ unknown)
                       THEN conn[c].queries \ {r.arg} ELSE conn[c].queries
  <1> DEFINE r == Head(cmds)
             c == r.conn
             t == IF r.op = "open-client" /\ ok THEN r.arg ELSE conn[c].client
             u == IF r.op = "open-query" /\ ok THEN conn[c].queries \cup {id}
                  ELSE IF r.op = "cancel-query" /\ (ok \/ unknown)
                       THEN conn[c].queries \ {r.arg} ELSE conn[c].queries
  <1>1. r \in Command /\ c \in Conns /\ conn[c].pc = "wait"
        /\ (r.op = "open-client" => r.arg \in Names)
    BY HeadIs, CommandIs DEF Waiting
  <1>2. conn \in [Conns -> Connection] /\ conn[c] \in Connection
    BY <1>1 DEF TypeOK
  <1> HIDE DEF r, c
  <1>3. /\ conn[c].client \in Names \cup {None} /\ conn[c].queries \in SUBSET Ids
    BY <1>1, <1>2 DEF Connection
  <1>4. t \in Names \cup {None} /\ u \in SUBSET Ids
    BY <1>1, <1>3 DEF r
  <1> DEFINE reply == [op |-> r.op, arg |-> r.arg, ok |-> ok, unknown |-> unknown, id |-> id]
             y == [TeardownArm(conn[c], reply) EXCEPT !.pc = "idle"]
  <1>5. conn' = [conn EXCEPT ![c] = y]
    BY Zenon DEF Reply, r, c
  <1>6. y \in Connection /\ y.pc = "idle" /\ y.client = t /\ y.queries = u
    <2>1. /\ reply.op = r.op /\ reply.arg = r.arg /\ reply.ok = ok /\ reply.unknown = unknown
          /\ reply.id = id
      OBVIOUS
    <2> HIDE DEF reply
    <2>2. y = [[conn[c] EXCEPT !.client = t, !.queries = u] EXCEPT !.pc = "idle"]
      BY <2>1, Zenon DEF TeardownArm
    <2> HIDE DEF t, u, y
    <2> QED
      BY <1>2, <1>4, <2>2 DEF Connection
  <1> HIDE DEF t, u, y
  <1>7. /\ conn' \in [Conns -> Connection] /\ conn'[c] = y
        /\ \A d \in Conns : d # c => conn'[d] = conn[d]
    BY <1>1, <1>2, <1>5, <1>6
  <1>8. conn'[c].pc = "idle" /\ conn'[c].client = t /\ conn'[c].queries = u
    BY <1>6, <1>7
  <1> QED
    BY <1>1, <1>7, <1>8 DEF r, c, t, u

-----------------------------------------------------------------------------
(* Parts of the invariant that a step does not touch.                       *)

LEMMA EnoughQuiet ==
  ASSUME Enough, cmds' = cmds, srv'.next = srv.next
  PROVE  Enough'
  BY DEF Enough, OpensIn

LEMMA ArmedKept ==
  ASSUME Armed, srv'.phase = "run" => srv.phase = "run",
         \A n \in Live' : \/ n \in Live /\ clients'[n] = clients[n]
                            /\ (Queued("disconnect", n) => Queued("disconnect", n)')
                         \/ ClientArmed(n)',
         \A i \in queries' : \/ i \in queries /\ work'[i].by = work[i].by
                               /\ (Queued("cancel-queries", i) => Queued("cancel-queries", i)')
                            \/ QueryArmed(i)',
         \A c \in Conns : /\ conn'[c].pc = "gone" <=> conn[c].pc = "gone"
                          /\ Tidy /\ conn[c].client \in Names => conn'[c].client = conn[c].client
                          /\ \A i \in queries' : i \in conn[c].queries => i \in conn'[c].queries
  PROVE  Armed'
  <1> SUFFICES ASSUME srv'.phase = "run"
               PROVE  (\A n \in Live' : ClientArmed(n)') /\ (\A i \in queries' : QueryArmed(i)')
    BY DEF Armed
  <1>1. srv.phase = "run" /\ Live \subseteq Names
    BY DEF Live
  <1>2. ASSUME NEW n \in Live'
        PROVE  ClientArmed(n)'
    <2>1. CASE n \in Live /\ clients'[n] = clients[n]
               /\ (Queued("disconnect", n) => Queued("disconnect", n)')
      <3>1. ClientArmed(n) /\ n \in Names
        BY <1>1, <2>1 DEF Armed
      <3>2. clients[n].by \in Conns /\ clients'[n].by = clients[n].by
        BY <2>1, <3>1 DEF ClientArmed
      <3> QED
        BY <2>1, <3>1, <3>2 DEF ClientArmed
    <2> QED
      BY <2>1
  <1>3. ASSUME NEW i \in queries'
        PROVE  QueryArmed(i)'
    <2>1. CASE i \in queries /\ work'[i].by = work[i].by
               /\ (Queued("cancel-queries", i) => Queued("cancel-queries", i)')
      <3>1. QueryArmed(i)
        BY <1>1, <2>1 DEF Armed
      <3>2. work[i].by \in Conns
        BY <3>1 DEF QueryArmed
      <3> QED
        BY <2>1, <3>1, <3>2 DEF QueryArmed
    <2> QED
      BY <2>1
  <1> QED
    BY <1>2, <1>3

LEMMA PhasedQuiet ==
  ASSUME Phased, DurableFirst, UNCHANGED <<anchors, tap>>,
         srv'.phase = srv.phase, srv'.left = srv.left, srv'.flushed = srv.flushed,
         actor' \in {actor, "free"} \/ srv.phase = "run",
         clients' = clients \/ (Live' \subseteq Live) \/ (srv.phase = "run" /\ ~tap)
  PROVE  Phased' /\ DurableFirst'
  <1>1. Live' \subseteq Live \/ (srv.phase = "run" /\ ~tap)
    BY DEF Live
  <1> QED
    BY <1>1 DEF Phased, DurableFirst

LEMMA FetchQuiet ==
  ASSUME FetchAttended, UNCHANGED <<queries, work, stray>>
  PROVE  FetchAttended'
  BY DEF FetchAttended

-----------------------------------------------------------------------------
(* Connections.                                                             *)

(* A connection is accepted, or its peer goes.                              *)
LEMMA ConnStep ==
  ASSUME DaemonInv, NEW c \in Conns, Accept(c) \/ HangUp(c)
  PROVE  DaemonInv'
  <1> USE DEF DaemonInv
  <1>1. /\ UNCHANGED <<cmds, srv, clients, queries, work, anchors, tap, actor, stuck, stray>>
        /\ conn[c].pc \in {"new", "idle"}
        /\ \E pc \in {"idle", "eof"} : conn' = [conn EXCEPT ![c].pc = pc]
    BY DEF Accept, HangUp
  <1>2. PICK pc \in {"idle", "eof"} : conn' = [conn EXCEPT ![c].pc = pc]
    BY <1>1
  <1>3. /\ conn' \in [Conns -> Connection] /\ \A d \in Conns : d # c => conn'[d] = conn[d]
        /\ conn'[c].pc = pc /\ conn'[c].client = conn[c].client /\ conn'[c].queries = conn[c].queries
    <2>1. conn \in [Conns -> Connection] /\ conn[c] \in Connection
      BY DEF TypeOK
    <2>2. /\ [conn[c] EXCEPT !.pc = pc] \in Connection /\ [conn[c] EXCEPT !.pc = pc].pc = pc
          /\ [conn[c] EXCEPT !.pc = pc].client = conn[c].client
          /\ [conn[c] EXCEPT !.pc = pc].queries = conn[c].queries
      BY <2>1 DEF Connection
    <2>3. conn' = [conn EXCEPT ![c] = [conn[c] EXCEPT !.pc = pc]]
      BY <1>2
    <2> QED
      BY <2>1, <2>2, <2>3
  <1>4. TypeOK'
    BY <1>1, <1>3 DEF TypeOK
  <1>5. Waiting'
    <2>1. ASSUME NEW k \in 1 .. Len(cmds), cmds[k].op \in Ops
          PROVE  conn'[cmds[k].conn] = conn[cmds[k].conn]
      <3>1. cmds[k].conn \in Conns
        BY <2>1, ChannelIs, CommandIs DEF TypeOK
      <3> QED
        BY <1>1, <1>3, <2>1, <3>1 DEF Waiting
    <2> QED
      BY <1>1, <2>1 DEF Waiting
  <1>6. Armed'
    <2>1. \A o, x : Queued(o, x) => Queued(o, x)'
      BY <1>1 DEF Queued
    <2> QED
      BY <1>1, <1>3, <2>1, ArmedKept DEF Live
  <1> QED
    BY <1>1, <1>4, <1>5, <1>6, EnoughQuiet, PhasedQuiet, FetchQuiet

(* A request is forwarded and its connection waits.                         *)
LEMMA ForwardStep ==
  ASSUME DaemonInv, NEW c \in Conns, NEW op \in Speaks[c], NEW x \in Args(c, op),
         Forward(c, Cmd(op, c, x))
  PROVE  DaemonInv'
  <1> USE DEF DaemonInv
  <1> DEFINE r == Cmd(op, c, x)
             q == Append(cmds, r)
  <1>1. /\ UNCHANGED <<srv, clients, queries, work, anchors, tap, actor, stuck, stray>>
        /\ conn[c].pc = "idle" /\ cmds' = q /\ conn' = [conn EXCEPT ![c].pc = "wait"]
        /\ r.op \in Opens => srv.next + Cardinality(OpensIn(cmds)) < MaxIds
    BY DEF Forward, OpensIn
  <1>2. op \in Ops /\ r.op = op /\ r.conn = c /\ r.arg = x
    BY DaemonAssumption DEF Cmd
  <1>3. r \in Command
    <2>1. /\ op \in {"open-client", "close-client"} => x \in Names
          /\ op = "cancel-query" => x \in Ids
          /\ op = "ask" => x \in Names \cup {None}
          /\ op \in {"open-query", "shutdown"} => x \in {None}
      BY DEF Args, TypeOK, Connection
    <2> QED
      BY <1>2, <2>1 DEF Cmd, Command, Ops
  <1>4. Tidy /\ op = "open-client" => conn[c].client = None
    BY DEF Args
  <1>5. /\ conn' \in [Conns -> Connection] /\ \A d \in Conns : d # c => conn'[d] = conn[d]
        /\ conn'[c].pc = "wait" /\ conn'[c].client = conn[c].client /\ conn'[c].queries = conn[c].queries
    <2>1. conn \in [Conns -> Connection] /\ conn[c] \in Connection
      BY DEF TypeOK
    <2>2. /\ [conn[c] EXCEPT !.pc = "wait"] \in Connection /\ [conn[c] EXCEPT !.pc = "wait"].pc = "wait"
          /\ [conn[c] EXCEPT !.pc = "wait"].client = conn[c].client
          /\ [conn[c] EXCEPT !.pc = "wait"].queries = conn[c].queries
      BY <2>1 DEF Connection
    <2>3. conn' = [conn EXCEPT ![c] = [conn[c] EXCEPT !.pc = "wait"]]
      BY <1>1
    <2> QED
      BY <2>1, <2>2, <2>3
  <1> HIDE DEF r
  <1>6. /\ q \in Seq(Command) /\ Len(cmds) \in Nat /\ Len(q) = Len(cmds) + 1 /\ q[Len(cmds) + 1] = r
        /\ \A k \in 1 .. Len(cmds) : q[k] = cmds[k]
    BY <1>3, ChannelIs DEF TypeOK
  <1>7. TypeOK'
    BY <1>1, <1>5, <1>6 DEF TypeOK
  <1>8. Enough'
    <2>1. srv.next \in Nat /\ MaxIds \in Nat /\ Cardinality(OpensIn(cmds)) \in Nat
      BY DaemonAssumption, OpensFinite DEF TypeOK
    <2>2. /\ r.op \in Opens => Cardinality(OpensIn(q)) = Cardinality(OpensIn(cmds)) + 1
          /\ r.op \notin Opens => OpensIn(q) = OpensIn(cmds)
      BY <1>3, OpensAppend DEF TypeOK
    <2>3. OpensIn(cmds)' = OpensIn(q)
      BY <1>1 DEF OpensIn
    <2> HIDE DEF q
    <2> QED
      BY <1>1, <2>1, <2>2, <2>3 DEF Enough
  <1> HIDE DEF q
  <1>9. \A k \in 1 .. Len(q) : k \in 1 .. Len(cmds) \/ k = Len(cmds) + 1
    BY <1>6
  <1>10. \A k \in 1 .. Len(cmds) : cmds[k].op \in Ops => cmds[k].conn \in Conns /\ cmds[k].conn # c
    <2>1. \A k \in 1 .. Len(cmds) : cmds[k].op \in Ops => cmds[k].conn \in Conns
      BY ChannelIs, CommandIs DEF TypeOK
    <2> QED
      BY <1>1, <2>1 DEF Waiting
  <1>11. Waiting'
    <2>1. ASSUME NEW k \in 1 .. Len(q), q[k].op \in Ops
          PROVE  /\ conn'[q[k].conn].pc = "wait"
                 /\ Tidy /\ q[k].op = "open-client" => conn'[q[k].conn].client = None
      <3>1. CASE k \in 1 .. Len(cmds)
        <4>1. q[k] = cmds[k] /\ conn'[q[k].conn] = conn[q[k].conn]
          BY <1>5, <1>6, <1>10, <2>1, <3>1
        <4> QED
          BY <2>1, <3>1, <4>1 DEF Waiting
      <3>2. CASE k = Len(cmds) + 1
        BY <1>2, <1>4, <1>5, <1>6, <3>2
      <3> QED
        BY <1>9, <3>1, <3>2
    <2>2. ASSUME NEW k \in 1 .. Len(q), NEW j \in 1 .. Len(q), q[k].op \in Ops, q[j].op \in Ops,
                 q[j].conn = q[k].conn
          PROVE  j = k
      <3>1. CASE k \in 1 .. Len(cmds) /\ j \in 1 .. Len(cmds)
        BY <1>6, <2>2, <3>1 DEF Waiting
      <3>2. CASE k \notin 1 .. Len(cmds) \/ j \notin 1 .. Len(cmds)
        BY <1>2, <1>6, <1>9, <1>10, <2>2, <3>2
      <3> QED
        BY <3>1, <3>2
    <2> QED
      BY <1>1, <2>1, <2>2 DEF Waiting
  <1>12. Armed'
    <2>1. \A o, y : Queued(o, y) => Queued(o, y)'
      BY <1>1, <1>6, QueuedGrow
    <2> QED
      BY <1>1, <1>5, <2>1, ArmedKept DEF Live
  <1> QED
    BY <1>1, <1>7, <1>8, <1>11, <1>12, PhasedQuiet, FetchQuiet

(* Words of the connections and pumps that ended join the channel.          *)
LEMMA LateSent ==
  ASSUME NEW q \in Seq(Command), NEW e \in Command, e.op \in Late
  PROVE  /\ Append(q, e) \in Seq(Command) /\ OpensIn(Append(q, e)) = OpensIn(q)
         /\ Len(Append(q, e)) \in Nat /\ Len(q) \in Nat
         /\ \A k \in 1 .. Len(q) : k \in 1 .. Len(Append(q, e)) /\ Append(q, e)[k] = q[k]
         /\ Len(Append(q, e)) \in 1 .. Len(Append(q, e)) /\ Append(q, e)[Len(Append(q, e))] = e
         /\ \A k \in 1 .. Len(Append(q, e)) : k \in 1 .. Len(q) \/ Append(q, e)[k].op \in Late
  <1>1. e.op \notin Opens
    BY DEF Late, Opens
  <1>2. /\ Len(q) \in Nat /\ Append(q, e) \in Seq(Command) /\ Len(Append(q, e)) = Len(q) + 1
        /\ \A k \in 1 .. Len(q) : Append(q, e)[k] = q[k]
        /\ Append(q, e)[Len(q) + 1] = e
    BY ChannelIs
  <1> QED
    BY <1>1, <1>2, OpensAppend

LEMMA LateGrown ==
  ASSUME TypeOK, Waiting, Enough, srv'.next = srv.next, cmds' \in Seq(Command),
         OpensIn(cmds') = OpensIn(cmds),
         \A k \in 1 .. Len(cmds) : k \in 1 .. Len(cmds') /\ cmds'[k] = cmds[k],
         \A k \in 1 .. Len(cmds') : k \in 1 .. Len(cmds) \/ cmds'[k].op \in Late,
         \A c \in Conns : conn[c].pc = "wait" => conn'[c] = conn[c]
  PROVE  Waiting' /\ Enough'
  <1>1. \A k \in 1 .. Len(cmds') : cmds'[k].op \in Ops =>
          /\ k \in 1 .. Len(cmds) /\ cmds'[k] = cmds[k] /\ cmds[k].conn \in Conns
    BY ChannelIs, CommandIs
  <1>2. ASSUME NEW k \in 1 .. Len(cmds'), cmds'[k].op \in Ops
        PROVE  conn'[cmds'[k].conn] = conn[cmds[k].conn] /\ cmds'[k] = cmds[k] /\ k \in 1 .. Len(cmds)
    BY <1>1, <1>2 DEF Waiting
  <1>3. Waiting'
    BY <1>1, <1>2 DEF Waiting
  <1>4. OpensIn(cmds)' = OpensIn(cmds')
    BY DEF OpensIn
  <1> QED
    BY <1>3, <1>4 DEF Enough

(* A connection ends and sends its teardown.                                *)
LEMMA TeardownStep ==
  ASSUME DaemonInv, NEW c \in Conns, emergency_teardown(c)
  PROVE  DaemonInv'
  <1> USE DEF DaemonInv
  <1> DEFINE d == Cmd("disconnect", c, conn[c].client)
             e == Cmd("cancel-queries", c, conn[c].queries)
             x == IF conn[c].client = None THEN cmds ELSE Append(cmds, d)
             z == IF conn[c].queries = {} THEN x ELSE Append(x, e)
             gone == [NewConn EXCEPT !.pc = "gone"]
  <1>1. /\ UNCHANGED <<srv, clients, queries, work, anchors, tap, actor, stuck, stray>>
        /\ conn[c].pc = "eof" /\ conn' = [conn EXCEPT ![c] = gone]
        /\ cmds' = cmds \o (IF conn[c].client = None THEN <<>> ELSE <<d>>)
                        \o (IF conn[c].queries = {} THEN <<>> ELSE <<e>>)
    BY DEF emergency_teardown
  <1>2. conn \in [Conns -> Connection] /\ conn[c] \in Connection /\ cmds \in Seq(Command)
    BY DEF TypeOK
  <1>3. conn[c].client \in Names \cup {None} /\ conn[c].queries \in SUBSET Ids
    BY <1>2 DEF Connection
  <1>4. /\ e \in Command /\ e.op = "cancel-queries" /\ e.arg = conn[c].queries
        /\ conn[c].client # None => d \in Command /\ d.op = "disconnect" /\ d.arg = conn[c].client
    BY <1>3 DEF Cmd, Command
  <1> HIDE DEF d, e
  <1>5. /\ x \in Seq(Command) /\ OpensIn(x) = OpensIn(cmds)
        /\ \A k \in 1 .. Len(cmds) : k \in 1 .. Len(x) /\ x[k] = cmds[k]
        /\ \A k \in 1 .. Len(x) : k \in 1 .. Len(cmds) \/ x[k].op \in Late
        /\ conn[c].client # None => Len(x) \in 1 .. Len(x) /\ x[Len(x)] = d
    BY <1>2, <1>4, LateSent DEF Late
  <1>6. cmds' = z
    <2>1. \A q \in Seq(Command) : q \o <<>> = q
      OBVIOUS
    <2>2. \A q \in Seq(Command), r \in Command : q \o <<r>> = Append(q, r)
      OBVIOUS
    <2>3. cmds \o (IF conn[c].client = None THEN <<>> ELSE <<d>>) = x
      BY <1>2, <1>4, <2>1, <2>2
    <2> HIDE DEF x
    <2> QED
      BY <1>1, <1>4, <1>5, <2>1, <2>2, <2>3
  <1> HIDE DEF x
  <1>7. /\ z \in Seq(Command) /\ OpensIn(z) = OpensIn(x)
        /\ \A k \in 1 .. Len(x) : k \in 1 .. Len(z) /\ z[k] = x[k]
        /\ \A k \in 1 .. Len(z) : k \in 1 .. Len(x) \/ z[k].op \in Late
        /\ conn[c].queries # {} => Len(z) \in 1 .. Len(z) /\ z[Len(z)] = e
    BY <1>4, <1>5, LateSent DEF Late
  <1> HIDE DEF z
  <1>8. gone \in Connection /\ gone.pc = "gone"
    BY DEF NewConn, Connection
  <1> HIDE DEF gone
  <1>9. /\ conn' \in [Conns -> Connection] /\ conn'[c].pc = "gone"
        /\ \A b \in Conns : b # c => conn'[b] = conn[b]
    BY <1>1, <1>2, <1>8
  <1>10. TypeOK'
    BY <1>1, <1>6, <1>7, <1>9 DEF TypeOK
  <1>11. /\ OpensIn(cmds') = OpensIn(cmds)
         /\ \A k \in 1 .. Len(cmds) : k \in 1 .. Len(cmds') /\ cmds'[k] = cmds[k]
         /\ \A k \in 1 .. Len(cmds') : k \in 1 .. Len(cmds) \/ cmds'[k].op \in Late
    BY <1>5, <1>6, <1>7
  <1>12. \A b \in Conns : conn[b].pc = "wait" => conn'[b] = conn[b]
    BY <1>1, <1>9
  <1>13. Waiting' /\ Enough'
    BY <1>1, <1>6, <1>7, <1>11, <1>12, LateGrown
  <1>14. \A o, y : Queued(o, y) => Queued(o, y)'
    BY <1>11, QueuedGrow
  <1>15. /\ \A n \in Names : n = conn[c].client => Queued("disconnect", n)'
         /\ \A i \in conn[c].queries : Queued("cancel-queries", i)'
    <2>1. ASSUME NEW n \in Names, n = conn[c].client PROVE Queued("disconnect", n)'
      <3>1. conn[c].client # None
        BY <2>1, DaemonAssumption
      <3>2. Len(x) \in 1 .. Len(cmds') /\ cmds'[Len(x)] = d /\ d.op = "disconnect" /\ d.arg = n
        BY <1>4, <1>5, <1>6, <1>7, <2>1, <3>1
      <3> QED
        BY <3>2 DEF Queued
    <2>2. ASSUME NEW i \in conn[c].queries PROVE Queued("cancel-queries", i)'
      <3>1. Len(z) \in 1 .. Len(cmds') /\ cmds'[Len(z)] = e
        BY <1>6, <1>7
      <3> QED
        BY <1>4, <3>1 DEF Queued
    <2> QED
      BY <2>1, <2>2
  <1>16. Armed'
    <2> SUFFICES ASSUME srv.phase = "run"
                 PROVE  (\A n \in Live : ClientArmed(n)') /\ (\A i \in queries : QueryArmed(i)')
      BY <1>1 DEF Armed, Live
    <2>1. ASSUME NEW n \in Live PROVE ClientArmed(n)'
      <3>1. ClientArmed(n) /\ n \in Names /\ clients'[n].by = clients[n].by
        BY <1>1 DEF Armed, Live
      <3>2. CASE clients[n].by = c
        BY <1>1, <1>9, <1>15, <3>1, <3>2 DEF ClientArmed
      <3>3. CASE clients[n].by # c
        <4>1. clients[n].by \in Conns
          BY <3>1 DEF ClientArmed
        <4> QED
          BY <1>9, <1>14, <3>1, <3>3, <4>1 DEF ClientArmed
      <3> QED
        BY <3>2, <3>3
    <2>2. ASSUME NEW i \in queries PROVE QueryArmed(i)'
      <3>1. QueryArmed(i) /\ work'[i].by = work[i].by
        BY <1>1 DEF Armed
      <3>2. CASE work[i].by = c
        BY <1>1, <1>9, <1>15, <3>1, <3>2 DEF QueryArmed
      <3>3. CASE work[i].by # c
        <4>1. work[i].by \in Conns
          BY <3>1 DEF QueryArmed
        <4> QED
          BY <1>9, <1>14, <3>1, <3>3, <4>1 DEF QueryArmed
      <3> QED
        BY <3>2, <3>3
    <2> QED
      BY <2>1, <2>2
  <1> QED
    BY <1>1, <1>10, <1>13, <1>16, PhasedQuiet, FetchQuiet

-----------------------------------------------------------------------------
(* The actor.                                                               *)

(* What serving a request does to its connection and to the channel.        *)
LEMMA RequestServed ==
  ASSUME DaemonInv, cmds # <<>>, cmds' = Tail(cmds), Head(cmds).op \in Ops,
         NEW ok \in BOOLEAN, NEW unknown \in BOOLEAN, NEW id,
         Head(cmds).op = "open-query" /\ ok => id \in Ids,
         Reply(Head(cmds), ok, unknown, id)
  PROVE  /\ Head(cmds) \in Command /\ Head(cmds).conn \in Conns
         /\ conn' \in [Conns -> Connection] /\ cmds' \in Seq(Command) /\ Waiting'
         /\ \A n : Queued("disconnect", n) => Queued("disconnect", n)'
         /\ \A i : Queued("cancel-queries", i) => Queued("cancel-queries", i)'
         /\ \A c \in Conns : /\ conn'[c].pc = "gone" <=> conn[c].pc = "gone"
                             /\ Tidy /\ conn[c].client \in Names => conn'[c].client = conn[c].client
                             /\ \A i : i \in conn[c].queries /\ ~(Head(cmds).op = "cancel-query" /\ i = Head(cmds).arg)
                                        => i \in conn'[c].queries
         /\ conn'[Head(cmds).conn].pc = "idle"
         /\ Head(cmds).op = "open-client" /\ ok => conn'[Head(cmds).conn].client = Head(cmds).arg
         /\ Head(cmds).op = "open-query" /\ ok => id \in conn'[Head(cmds).conn].queries
  <1> USE DEF DaemonInv
  <1> DEFINE r == Head(cmds)
             b == Head(cmds).conn
  <1>1. /\ b \in Conns /\ conn[b].pc = "wait" /\ conn'[b].pc = "idle"
        /\ \A d \in Conns : d # b => conn'[d] = conn[d]
        /\ conn' \in [Conns -> Connection]
        /\ conn'[b].client = IF r.op = "open-client" /\ ok THEN r.arg ELSE conn[b].client
        /\ conn'[b].queries =
             IF r.op = "open-query" /\ ok THEN conn[b].queries \cup {id}
             ELSE IF r.op = "cancel-query" /\ (ok \/ unknown)
                  THEN conn[b].queries \ {r.arg} ELSE conn[b].queries
    BY ReplyIs
  <1>2. r \in Command /\ cmds' \in Seq(Command) /\ cmds[1] = r /\ 1 \in 1 .. Len(cmds)
    BY HeadIs
  <1>3. Waiting'
    BY <1>1, WaitingPop
  <1>4. /\ \A n : Queued("disconnect", n) => Queued("disconnect", n)'
        /\ \A i : Queued("cancel-queries", i) => Queued("cancel-queries", i)'
    <2>1. r.op # "disconnect" /\ r.op # "cancel-queries"
      BY DEF Ops
    <2> QED
      BY <2>1, QueuedPop
  <1>5. Tidy /\ r.op = "open-client" => conn[b].client \notin Names
    BY <1>2, DaemonAssumption DEF Waiting
  <1> HIDE DEF r, b
  <1>6. ASSUME NEW c \in Conns
        PROVE  /\ conn'[c].pc = "gone" <=> conn[c].pc = "gone"
               /\ Tidy /\ conn[c].client \in Names => conn'[c].client = conn[c].client
               /\ \A i : i \in conn[c].queries /\ ~(r.op = "cancel-query" /\ i = r.arg)
                          => i \in conn'[c].queries
    <2>1. CASE c # b
      BY <1>1, <2>1
    <2>2. CASE c = b
      BY <1>1, <1>5, <2>2
    <2> QED
      BY <2>1, <2>2
  <1> QED
    BY <1>1, <1>2, <1>3, <1>4, <1>6 DEF r, b

LEMMA AskStep ==
  ASSUME DaemonInv, HandleAsk \/ HandleShutdown
  PROVE  DaemonInv'
  <1> USE DEF DaemonInv
  <1>1. /\ cmds # <<>> /\ cmds' = Tail(cmds) /\ actor' = "free" /\ Head(cmds).op \in {"ask", "shutdown"}
        /\ \E ok \in BOOLEAN : Reply(Head(cmds), ok, FALSE, 0)
        /\ srv.phase = "run"
        /\ UNCHANGED <<clients, queries, work, anchors, tap, stuck, stray>>
        /\ srv' = srv \/ srv' = [srv EXCEPT !.phase = "surfaces", !.draining = TRUE]
    <2>1. CASE HandleAsk
      <3>1. (Head(cmds).arg \in Live \cup {None}) \in BOOLEAN
        OBVIOUS
      <3>2. \E ok \in BOOLEAN : Reply(Head(cmds), ok, FALSE, 0)
        BY <2>1, <3>1, Zenon DEF HandleAsk
      <3> QED
        BY <2>1, <3>2 DEF HandleAsk, Served
    <2>2. CASE HandleShutdown
      BY <2>2 DEF HandleShutdown, Served
    <2> QED
      BY <2>1, <2>2
  <1>2. Head(cmds).op \in Ops /\ Head(cmds).op # "open-query" /\ Head(cmds).op # "cancel-query"
    BY <1>1 DEF Ops
  <1>3. /\ conn' \in [Conns -> Connection] /\ cmds' \in Seq(Command) /\ Waiting'
        /\ \A n : Queued("disconnect", n) => Queued("disconnect", n)'
        /\ \A i : Queued("cancel-queries", i) => Queued("cancel-queries", i)'
        /\ \A c \in Conns : /\ conn'[c].pc = "gone" <=> conn[c].pc = "gone"
                            /\ Tidy /\ conn[c].client \in Names => conn'[c].client = conn[c].client
                            /\ \A i : i \in conn[c].queries => i \in conn'[c].queries
    BY <1>1, <1>2, RequestServed
  <1>4. /\ srv' \in Server /\ srv'.next = srv.next /\ srv'.flushed = srv.flushed
        /\ srv'.left = srv.left /\ srv'.phase \in {"run", "surfaces"}
    <2>1. srv \in Server
      BY DEF TypeOK, Server
    <2> QED
      BY <1>1, <2>1 DEF Server, Phases
  <1>5. TypeOK'
    BY <1>1, <1>3, <1>4 DEF TypeOK, Server
  <1>6. Enough'
    BY <1>1, <1>4, EnoughPop
  <1>7. Armed'
    BY <1>1, <1>3, <1>4, ArmedKept DEF Live
  <1>8. Phased' /\ DurableFirst'
    BY <1>1, <1>4 DEF Phased, DurableFirst, Live
  <1> QED
    BY <1>1, <1>3, <1>5, <1>6, <1>7, <1>8, FetchQuiet

(* Nothing but the reader, the actor's waiting or a stray session changes.  *)
LEMMA AsideStep ==
  ASSUME DaemonInv, UNCHANGED <<conn, cmds, srv, clients, queries, work, anchors, tap>>,
         actor' \in {"free", "waits"}, actor' = actor \/ srv.phase = "run",
         stuck' \subseteq Ids, stray' \in [open : Nat, closing : Nat], stray'.open <= stray'.closing
  PROVE  DaemonInv'
  BY DEF DaemonInv, TypeOK, Enough, OpensIn, Waiting, Armed, ClientArmed, QueryArmed, Queued,
         Phased, FetchAttended, DurableFirst, Live

LEMMA WaitStep ==
  ASSUME DaemonInv, HandlerWaits
  PROVE  DaemonInv'
  BY AsideStep DEF DaemonInv, TypeOK, FetchAttended, HandlerWaits

LEMMA ReaderStep ==
  ASSUME DaemonInv, NEW i \in Ids, ReaderStalls(i) \/ ReaderReads(i)
  PROVE  DaemonInv'
  BY AsideStep DEF DaemonInv, TypeOK, FetchAttended, ReaderStalls, ReaderReads

LEMMA StrayStep ==
  ASSUME DaemonInv, StrayCloses
  PROVE  DaemonInv'
  <1>1. /\ stray.open \in Nat /\ stray.closing \in Nat /\ stray.open <= stray.closing
        /\ stray.open > 0 /\ stray' = [open |-> stray.open - 1, closing |-> stray.closing - 1]
    BY DEF DaemonInv, TypeOK, FetchAttended, StrayCloses
  <1> QED
    BY <1>1, AsideStep DEF DaemonInv, TypeOK, StrayCloses

LEMMA OpenClientStep ==
  ASSUME DaemonInv, NEW fits \in BOOLEAN, open_client(fits)
  PROVE  DaemonInv'
  <1> USE DEF DaemonInv
  <1> DEFINE r == Head(cmds)
             ok == fits /\ r.arg \notin Live /\ Cardinality(Live) < MaxClients
             new == [id |-> srv.next, by |-> r.conn]
  <1>1. /\ cmds # <<>> /\ cmds' = Tail(cmds) /\ actor' = "free" /\ r.op = "open-client" /\ srv.phase = "run"
        /\ Reply(r, ok, FALSE, 0)
        /\ clients' = IF ok THEN [clients EXCEPT ![r.arg] = new] ELSE clients
        /\ srv' = IF ok THEN [srv EXCEPT !.next = @ + 1] ELSE srv
        /\ UNCHANGED <<queries, work, anchors, tap, stuck, stray>>
    BY Zenon DEF open_client, Served
  <1>2. ok \in BOOLEAN
    OBVIOUS
  <1> HIDE DEF ok
  <1>3. r.op \in Ops /\ r.op # "open-query" /\ r.op # "cancel-query" /\ r.op \in Opens
    BY <1>1 DEF Ops, Opens
  <1>4. /\ r \in Command /\ r.conn \in Conns
        /\ conn' \in [Conns -> Connection] /\ cmds' \in Seq(Command) /\ Waiting'
        /\ \A n : Queued("disconnect", n) => Queued("disconnect", n)'
        /\ \A i : Queued("cancel-queries", i) => Queued("cancel-queries", i)'
        /\ \A c \in Conns : /\ conn'[c].pc = "gone" <=> conn[c].pc = "gone"
                            /\ Tidy /\ conn[c].client \in Names => conn'[c].client = conn[c].client
                            /\ \A i : i \in conn[c].queries => i \in conn'[c].queries
        /\ conn'[r.conn].pc = "idle" /\ (ok => conn'[r.conn].client = r.arg)
    BY <1>1, <1>2, <1>3, RequestServed
  <1>5. r.arg \in Names /\ srv.next \in Ids /\ srv.next + 1 \in 0 .. MaxIds
    BY <1>1, <1>3, <1>4, CommandIs, OpenFinds
  <1>6. srv \in Server /\ clients \in Clients
    BY DEF TypeOK, Server, Clients
  <1>7. /\ srv' \in Server /\ srv'.flushed = srv.flushed /\ srv'.left = srv.left /\ srv'.phase = srv.phase
        /\ srv'.next = srv.next \/ srv'.next = srv.next + 1
    BY <1>1, <1>5, <1>6 DEF Server
  <1>8. /\ clients' \in Clients
        /\ \A n \in Names : clients'[n] = clients[n] \/ (ok /\ n = r.arg /\ clients'[n].by = r.conn)
    <2>1. new \in [id : Ids \cup {-1}, by : Conns \cup {None}] /\ new.by = r.conn
      BY <1>4, <1>5
    <2> HIDE DEF new, r
    <2> QED
      BY <1>1, <1>5, <1>6, <2>1 DEF Clients
  <1>9. TypeOK'
    BY <1>1, <1>4, <1>7, <1>8 DEF TypeOK, Server, Clients
  <1>10. Enough'
    BY <1>1, <1>3, <1>7, EnoughPop
  <1>11. Armed'
    <2>1. ASSUME NEW n \in Live'
          PROVE  \/ n \in Live /\ clients'[n] = clients[n]
                    /\ (Queued("disconnect", n) => Queued("disconnect", n)')
                 \/ ClientArmed(n)'
      <3>1. n \in Names /\ clients'[n].id # -1
        BY DEF Live
      <3>2. CASE clients'[n] = clients[n]
        BY <1>4, <3>1, <3>2 DEF Live
      <3>3. CASE ok /\ n = r.arg /\ clients'[n].by = r.conn
        <4>1. ClientArmed(n)'
          BY <1>4, <3>3 DEF ClientArmed
        <4> QED
          BY <4>1
      <3> QED
        BY <1>8, <3>1, <3>2, <3>3
    <2> QED
      BY <1>1, <1>4, <1>7, <2>1, ArmedKept
  <1>12. Phased' /\ DurableFirst'
    BY <1>1, <1>7, PhasedQuiet DEF Phased
  <1> QED
    BY <1>1, <1>4, <1>9, <1>10, <1>11, <1>12, FetchQuiet

(* A client leaves the table.                                               *)
LEMMA TeardownIs ==
  ASSUME TypeOK, NEW n \in Names, teardown_client(n)
  PROVE  /\ clients' \in Clients /\ n \notin Live' /\ Live' = Live \ {n} /\ stuck' \subseteq Ids
         /\ \A m \in Live' : m \in Live /\ m # n /\ clients'[m] = clients[m]
  <1>1. /\ clients \in Clients /\ clients' = [clients EXCEPT ![n] = NoClient]
        /\ stuck' \subseteq Ids
    BY DEF TypeOK, Clients, teardown_client
  <1>2. NoClient \in [id : Ids \cup {-1}, by : Conns \cup {None}] /\ NoClient.id = -1
    BY DEF NoClient
  <1> QED
    BY <1>1, <1>2 DEF Clients, Live

LEMMA CloseClientStep ==
  ASSUME DaemonInv, HandleCloseClient
  PROVE  DaemonInv'
  <1> USE DEF DaemonInv
  <1> DEFINE r == Head(cmds)
             ok == r.arg \in Live
  <1>1. /\ cmds # <<>> /\ cmds' = Tail(cmds) /\ actor' = "free" /\ r.op = "close-client" /\ srv.phase = "run"
        /\ teardown_client(r.arg) /\ Reply(r, ok, FALSE, 0)
        /\ UNCHANGED <<srv, queries, work, anchors, tap, stray>>
    BY Zenon DEF HandleCloseClient, Served
  <1>2. ok \in BOOLEAN
    OBVIOUS
  <1> HIDE DEF ok
  <1>3. r.op \in Ops /\ r.op # "open-query" /\ r.op # "cancel-query" /\ r.op # "open-client"
    BY <1>1 DEF Ops
  <1>4. /\ r \in Command
        /\ conn' \in [Conns -> Connection] /\ cmds' \in Seq(Command) /\ Waiting'
        /\ \A n : Queued("disconnect", n) => Queued("disconnect", n)'
        /\ \A i : Queued("cancel-queries", i) => Queued("cancel-queries", i)'
        /\ \A c \in Conns : /\ conn'[c].pc = "gone" <=> conn[c].pc = "gone"
                            /\ Tidy /\ conn[c].client \in Names => conn'[c].client = conn[c].client
                            /\ \A i : i \in conn[c].queries => i \in conn'[c].queries
    BY <1>1, <1>2, <1>3, RequestServed
  <1>5. r.arg \in Names
    BY <1>1, <1>4, CommandIs
  <1>6. /\ clients' \in Clients /\ Live' \subseteq Live /\ stuck' \subseteq Ids
        /\ \A m \in Live' : m \in Live /\ clients'[m] = clients[m]
    BY <1>1, <1>5, TeardownIs
  <1>7. TypeOK'
    BY <1>1, <1>4, <1>6 DEF TypeOK, Clients
  <1>8. Enough'
    BY <1>1, EnoughPop
  <1>9. Armed'
    BY <1>1, <1>4, <1>6, ArmedKept
  <1>10. Phased' /\ DurableFirst'
    BY <1>1, <1>6, PhasedQuiet
  <1> QED
    BY <1>1, <1>4, <1>7, <1>8, <1>9, <1>10, FetchQuiet

(* A command that expects no reply is taken.                                *)
LEMMA LateServed ==
  ASSUME DaemonInv, cmds # <<>>, cmds' = Tail(cmds), srv'.next = srv.next, UNCHANGED conn
  PROVE  /\ Head(cmds) \in Command /\ cmds' \in Seq(Command) /\ Waiting' /\ Enough'
  BY HeadIs, WaitingPop, EnoughPop DEF DaemonInv

LEMMA DisconnectStep ==
  ASSUME DaemonInv, HandleDisconnect
  PROVE  DaemonInv'
  <1> USE DEF DaemonInv
  <1>1. /\ cmds # <<>> /\ cmds' = Tail(cmds) /\ actor' = "free" /\ Head(cmds).op = "disconnect" /\ srv.phase = "run"
        /\ teardown_client(Head(cmds).arg)
        /\ UNCHANGED <<conn, srv, queries, work, anchors, tap, stray>>
    BY DEF HandleDisconnect, Served
  <1>2. Head(cmds) \in Command /\ cmds' \in Seq(Command) /\ Waiting' /\ Enough'
    BY <1>1, LateServed
  <1>3. Head(cmds).arg \in Names
    BY <1>1, <1>2, CommandIs
  <1>4. /\ clients' \in Clients /\ Live' \subseteq Live /\ stuck' \subseteq Ids
        /\ \A m \in Live' : m \in Live /\ m # Head(cmds).arg /\ clients'[m] = clients[m]
    BY <1>1, <1>3, TeardownIs
  <1>5. TypeOK'
    BY <1>1, <1>2, <1>4 DEF TypeOK, Clients
  <1>6. Armed'
    <2>1. \A m \in Live' : Queued("disconnect", m) => Queued("disconnect", m)'
      BY <1>1, <1>4, QueuedPop
    <2>2. \A i : Queued("cancel-queries", i) => Queued("cancel-queries", i)'
      BY <1>1, QueuedPop
    <2> QED
      BY <1>1, <1>4, <2>1, <2>2, ArmedKept
  <1>7. Phased' /\ DurableFirst'
    BY <1>1, <1>4, PhasedQuiet
  <1> QED
    BY <1>1, <1>2, <1>5, <1>6, <1>7, FetchQuiet

(* The queries among ids leave the table: each is still attended, by its    *)
(* close.                                                                   *)
LEMMA CancelledIs ==
  ASSUME TypeOK, FetchAttended, NEW ids \in SUBSET Ids, work' = Cancelled(ids \cap queries),
         queries' = queries \ ids, stray' = stray
  PROVE  /\ work' \in [Ids -> Query] /\ queries' \subseteq Ids /\ FetchAttended'
         /\ \A i \in Ids : work'[i].by = work[i].by
  <1>1. work \in [Ids -> Query] /\ queries \subseteq Ids
    BY DEF TypeOK
  <1>2. /\ DOMAIN work' = Ids
        /\ \A i \in Ids : work'[i] = IF i \in ids \cap queries
                                       THEN [work[i] EXCEPT !.pump = "aborted", !.closing = TRUE] ELSE work[i]
        /\ work' = [i \in Ids |-> work'[i]]
    BY DEF Cancelled
  <1>3. ASSUME NEW i \in Ids
        PROVE  /\ work'[i] \in Query /\ work'[i].by = work[i].by /\ work'[i].session = work[i].session
               /\ work'[i].closing = (work[i].closing \/ i \in ids \cap queries)
    <2>1. work[i] \in Query
      BY <1>1
    <2> DEFINE y == [work[i] EXCEPT !.pump = "aborted", !.closing = TRUE]
    <2>2. y \in Query /\ y.by = work[i].by /\ y.session = work[i].session /\ y.closing = TRUE
      BY <2>1 DEF Query
    <2>3. work'[i] = IF i \in ids \cap queries THEN y ELSE work[i]
      BY <1>2
    <2> HIDE DEF y
    <2>4. work[i].closing \in BOOLEAN
      BY <2>1 DEF Query
    <2>5. CASE i \in ids \cap queries
      BY <2>2, <2>3, <2>5
    <2>6. CASE i \notin ids \cap queries
      BY <2>1, <2>3, <2>4, <2>6
    <2> QED
      BY <2>5, <2>6
  <1>4. FetchAttended'
    BY <1>1, <1>3 DEF FetchAttended
  <1> QED
    BY <1>1, <1>2, <1>3, <1>4

LEMMA OpenQueryStep ==
  ASSUME DaemonInv, NEW how \in {"ok", "refused", "late"}, open_query(how)
  PROVE  DaemonInv'
  <1> USE DEF DaemonInv
  <1> DEFINE r == Head(cmds)
             ok == how = "ok"
             new == [pump |-> "running", session |-> "fetching", closing |-> FALSE, by |-> r.conn]
  <1>1. /\ cmds # <<>> /\ cmds' = Tail(cmds) /\ actor' = "free" /\ r.op = "open-query" /\ srv.phase = "run"
        /\ Reply(r, ok, FALSE, srv.next)
        /\ queries' = IF ok THEN queries \cup {srv.next} ELSE queries
        /\ work' = IF ok THEN [work EXCEPT ![srv.next] = new] ELSE work
        /\ srv' = IF ok THEN [srv EXCEPT !.next = @ + 1] ELSE srv
        /\ stray' = stray \/ stray' = [open |-> stray.open + 1, closing |-> stray.closing + 1]
        /\ UNCHANGED <<clients, anchors, tap, stuck>>
    BY Zenon DEF open_query, Served
  <1>2. ok \in BOOLEAN
    OBVIOUS
  <1> HIDE DEF ok
  <1>3. r.op \in Ops /\ r.op # "open-client" /\ r.op # "cancel-query" /\ r.op \in Opens
    BY <1>1 DEF Ops, Opens
  <1>4. srv.next \in Ids /\ srv.next + 1 \in 0 .. MaxIds
    BY <1>1, <1>3, OpenFinds
  <1>5. /\ r \in Command /\ r.conn \in Conns
        /\ conn' \in [Conns -> Connection] /\ cmds' \in Seq(Command) /\ Waiting'
        /\ \A n : Queued("disconnect", n) => Queued("disconnect", n)'
        /\ \A i : Queued("cancel-queries", i) => Queued("cancel-queries", i)'
        /\ \A c \in Conns : /\ conn'[c].pc = "gone" <=> conn[c].pc = "gone"
                            /\ Tidy /\ conn[c].client \in Names => conn'[c].client = conn[c].client
                            /\ \A i : i \in conn[c].queries => i \in conn'[c].queries
        /\ conn'[r.conn].pc = "idle" /\ (ok => srv.next \in conn'[r.conn].queries)
    BY <1>1, <1>2, <1>3, <1>4, RequestServed
  <1>6. srv \in Server /\ work \in [Ids -> Query] /\ queries \subseteq Ids
    BY DEF TypeOK, Server
  <1>7. /\ srv' \in Server /\ srv'.flushed = srv.flushed /\ srv'.left = srv.left /\ srv'.phase = srv.phase
        /\ srv'.next = srv.next \/ srv'.next = srv.next + 1
    BY <1>1, <1>4, <1>6 DEF Server
  <1>8. new \in Query /\ new.by = r.conn
    BY <1>5 DEF Query
  <1> HIDE DEF new, r
  <1>9. /\ work' \in [Ids -> Query] /\ queries' \subseteq Ids
        /\ \A i \in Ids : \/ work'[i] = work[i] /\ (i \in queries' <=> i \in queries)
                          \/ ok /\ i = srv.next /\ work'[i] = new /\ i \in queries'
    BY <1>1, <1>4, <1>6, <1>8
  <1>10. /\ stray' \in [open : Nat, closing : Nat]
         /\ stray.open <= stray.closing => stray'.open <= stray'.closing
    BY <1>1 DEF TypeOK
  <1>11. TypeOK'
    BY <1>1, <1>5, <1>7, <1>9, <1>10 DEF TypeOK, Server
  <1>12. Enough'
    BY <1>1, <1>3, <1>7, EnoughPop DEF r
  <1>13. Armed'
    <2>1. ASSUME NEW i \in queries'
          PROVE  \/ i \in queries /\ work'[i].by = work[i].by
                    /\ (Queued("cancel-queries", i) => Queued("cancel-queries", i)')
                 \/ QueryArmed(i)'
      <3>1. CASE work'[i] = work[i] /\ (i \in queries' <=> i \in queries)
        BY <1>5, <3>1
      <3>2. CASE ok /\ i = srv.next /\ work'[i] = new
        <4>1. QueryArmed(i)'
          BY <1>5, <1>8, <3>2 DEF QueryArmed
        <4> QED
          BY <4>1
      <3> QED
        BY <1>9, <3>1, <3>2
    <2> QED
      BY <1>1, <1>5, <1>7, <1>9, <2>1, ArmedKept DEF Live
  <1>14. Phased' /\ DurableFirst'
    BY <1>1, <1>7, PhasedQuiet
  <1>15. FetchAttended'
    BY <1>9, <1>10 DEF FetchAttended
  <1> QED
    BY <1>5, <1>11, <1>12, <1>13, <1>14, <1>15

LEMMA CancelQueryStep ==
  ASSUME DaemonInv, cancel_query
  PROVE  DaemonInv'
  <1> USE DEF DaemonInv
  <1> DEFINE r == Head(cmds)
             known == r.arg \in queries
  <1>1. /\ cmds # <<>> /\ cmds' = Tail(cmds) /\ actor' = "free" /\ r.op = "cancel-query" /\ srv.phase = "run"
        /\ Reply(r, known, ~known, 0)
        /\ queries' = queries \ {r.arg} /\ work' = Cancelled({r.arg} \cap queries)
        /\ UNCHANGED <<srv, clients, anchors, tap, stuck, stray>>
    BY Zenon DEF cancel_query, Served
  <1>2. known \in BOOLEAN /\ (~known) \in BOOLEAN
    OBVIOUS
  <1> HIDE DEF known
  <1>3. r.op \in Ops /\ r.op # "open-client" /\ r.op # "open-query"
    BY <1>1 DEF Ops
  <1>4. /\ r \in Command
        /\ conn' \in [Conns -> Connection] /\ cmds' \in Seq(Command) /\ Waiting'
        /\ \A n : Queued("disconnect", n) => Queued("disconnect", n)'
        /\ \A i : Queued("cancel-queries", i) => Queued("cancel-queries", i)'
        /\ \A c \in Conns : /\ conn'[c].pc = "gone" <=> conn[c].pc = "gone"
                            /\ Tidy /\ conn[c].client \in Names => conn'[c].client = conn[c].client
                            /\ \A i : i \in conn[c].queries /\ i # r.arg => i \in conn'[c].queries
    BY <1>1, <1>2, <1>3, RequestServed
  <1>5. {r.arg} \in SUBSET Ids
    BY <1>1, <1>4, CommandIs
  <1>6. /\ work' \in [Ids -> Query] /\ queries' \subseteq Ids /\ FetchAttended'
        /\ \A i \in Ids : work'[i].by = work[i].by
    BY <1>1, <1>5, CancelledIs
  <1>7. TypeOK'
    BY <1>1, <1>4, <1>6 DEF TypeOK
  <1>8. Enough'
    BY <1>1, EnoughPop
  <1>9. Armed'
    BY <1>1, <1>4, <1>6, ArmedKept DEF Live
  <1>10. Phased' /\ DurableFirst'
    BY <1>1, PhasedQuiet
  <1> QED
    BY <1>4, <1>6, <1>7, <1>8, <1>9, <1>10

LEMMA CancelQueriesStep ==
  ASSUME DaemonInv, HandleCancelQueries
  PROVE  DaemonInv'
  <1> USE DEF DaemonInv
  <1> DEFINE r == Head(cmds)
  <1>1. /\ cmds # <<>> /\ cmds' = Tail(cmds) /\ actor' = "free" /\ r.op = "cancel-queries" /\ srv.phase = "run"
        /\ queries' = queries \ r.arg /\ work' = Cancelled(r.arg \cap queries)
        /\ UNCHANGED <<conn, srv, clients, anchors, tap, stuck, stray>>
    BY DEF HandleCancelQueries, Served
  <1>2. r \in Command /\ cmds' \in Seq(Command) /\ Waiting' /\ Enough'
    BY <1>1, LateServed
  <1>3. r.arg \in SUBSET Ids
    BY <1>1, <1>2, CommandIs
  <1>4. /\ work' \in [Ids -> Query] /\ queries' \subseteq Ids /\ FetchAttended'
        /\ \A i \in Ids : work'[i].by = work[i].by
    BY <1>1, <1>3, CancelledIs
  <1>5. TypeOK'
    BY <1>1, <1>2, <1>4 DEF TypeOK
  <1>6. Armed'
    <2>1. \A n : Queued("disconnect", n) => Queued("disconnect", n)'
      BY <1>1, QueuedPop
    <2>2. \A i \in queries' : i \in queries /\ (Queued("cancel-queries", i) => Queued("cancel-queries", i)')
      BY <1>1, QueuedPop
    <2> QED
      BY <1>1, <1>4, <2>1, <2>2, ArmedKept DEF Live
  <1>7. Phased' /\ DurableFirst'
    BY <1>1, PhasedQuiet
  <1> QED
    BY <1>2, <1>4, <1>5, <1>6, <1>7

LEMMA QueryFinishedStep ==
  ASSUME DaemonInv, HandleQueryFinished
  PROVE  DaemonInv'
  <1> USE DEF DaemonInv
  <1> DEFINE r == Head(cmds)
             x == r.arg
  <1>1. /\ cmds # <<>> /\ cmds' = Tail(cmds) /\ actor' = "free" /\ r.op = "finished" /\ srv.phase = "run"
        /\ queries' = queries \ {x}
        /\ work' = IF x \in queries THEN [work EXCEPT ![x].closing = TRUE] ELSE work
        /\ UNCHANGED <<conn, srv, clients, anchors, tap, stuck, stray>>
    BY DEF HandleQueryFinished, Served
  <1>2. r \in Command /\ cmds' \in Seq(Command) /\ Waiting' /\ Enough'
    BY <1>1, LateServed
  <1>3. x \in Ids
    BY <1>1, <1>2, CommandIs
  <1>4. work \in [Ids -> Query] /\ work[x] \in Query /\ queries \subseteq Ids
    BY <1>3 DEF TypeOK
  <1> DEFINE y == [work[x] EXCEPT !.closing = TRUE]
  <1>5. y \in Query /\ y.by = work[x].by /\ y.closing = TRUE
    BY <1>4 DEF Query
  <1>6. work' = IF x \in queries THEN [work EXCEPT ![x] = y] ELSE work
    BY <1>1
  <1> HIDE DEF x, y
  <1>7. /\ work' \in [Ids -> Query] /\ queries' \subseteq Ids
        /\ \A i \in Ids : work'[i].by = work[i].by
        /\ \A i \in Ids : work'[i] = work[i] \/ (i = x /\ work'[i].closing)
        /\ x \in queries => work'[x].closing
    BY <1>1, <1>3, <1>4, <1>5, <1>6
  <1>8. FetchAttended'
    BY <1>1, <1>3, <1>7 DEF FetchAttended
  <1>9. TypeOK'
    BY <1>1, <1>2, <1>7 DEF TypeOK
  <1>10. Armed'
    <2>1. \A n : Queued("disconnect", n) => Queued("disconnect", n)'
      BY <1>1, QueuedPop
    <2>2. \A i \in queries' : i \in queries /\ (Queued("cancel-queries", i) => Queued("cancel-queries", i)')
      BY <1>1, QueuedPop
    <2> QED
      BY <1>1, <1>7, <2>1, <2>2, ArmedKept DEF Live
  <1>11. Phased' /\ DurableFirst'
    BY <1>1, PhasedQuiet
  <1> QED
    BY <1>2, <1>8, <1>9, <1>10, <1>11

-----------------------------------------------------------------------------
(* Pumps and sessions.                                                      *)

LEMMA WorkKept ==
  ASSUME TypeOK, FetchAttended, NEW i \in Ids, NEW y \in Query, y.by = work[i].by,
         y.session = "fetching" => work[i].session = "fetching" /\ y.closing = work[i].closing,
         work' = [work EXCEPT ![i] = y], queries' = queries, stray' = stray
  PROVE  /\ work' \in [Ids -> Query] /\ FetchAttended'
         /\ \A j \in Ids : work'[j].by = work[j].by
  <1>1. work \in [Ids -> Query]
    BY DEF TypeOK
  <1>2. /\ work' \in [Ids -> Query] /\ work'[i] = y
        /\ \A j \in Ids : j # i => work'[j] = work[j]
    BY <1>1
  <1> QED
    BY <1>2 DEF FetchAttended

LEMMA SessionStep ==
  ASSUME DaemonInv, NEW i \in Ids, FetchEnds(i) \/ PumpStops(i) \/ SessionCloses(i)
  PROVE  DaemonInv'
  <1> USE DEF DaemonInv
  <1>1. work[i] \in Query
    BY DEF TypeOK
  <1>2. \E y \in Query : /\ y.by = work[i].by /\ work' = [work EXCEPT ![i] = y]
                         /\ y.session = "fetching" => work[i].session = "fetching" /\ y.closing = work[i].closing
    <2>1. CASE FetchEnds(i)
      <3> DEFINE y == [work[i] EXCEPT !.session = "parked"]
      <3>1. work' = [work EXCEPT ![i] = y]
        BY <2>1, Zenon DEF FetchEnds
      <3>2. y \in Query /\ y.by = work[i].by /\ y.session = "parked"
        BY <1>1 DEF Query
      <3> HIDE DEF y
      <3> QED
        BY <3>1, <3>2
    <2>2. CASE PumpStops(i)
      <3> DEFINE s == IF work[i].session = "parked" THEN "gone" ELSE work[i].session
                 y == [work[i] EXCEPT !.pump = "report", !.session = s]
      <3>1. work' = [work EXCEPT ![i] = y]
        BY <2>2, Zenon DEF PumpStops
      <3>2. /\ s \in {"none", "fetching", "parked", "gone"}
            /\ s = "fetching" => work[i].session = "fetching"
        BY <1>1 DEF Query
      <3> HIDE DEF s
      <3>3. y \in Query /\ y.by = work[i].by /\ y.session = s /\ y.closing = work[i].closing
        BY <1>1, <3>2 DEF Query
      <3> HIDE DEF y
      <3> QED
        BY <3>1, <3>2, <3>3
    <2>3. CASE SessionCloses(i)
      <3> DEFINE y == [work[i] EXCEPT !.closing = FALSE, !.session = "gone"]
      <3>1. work' = [work EXCEPT ![i] = y]
        BY <2>3, Zenon DEF SessionCloses
      <3>2. y \in Query /\ y.by = work[i].by /\ y.session = "gone"
        BY <1>1 DEF Query
      <3> HIDE DEF y
      <3> QED
        BY <3>1, <3>2
    <2> QED
      BY <2>1, <2>2, <2>3
  <1>3. /\ work' \in [Ids -> Query] /\ FetchAttended'
        /\ \A j \in Ids : work'[j].by = work[j].by
        /\ UNCHANGED <<conn, cmds, srv, clients, queries, anchors, tap, actor, stray>>
        /\ stuck' \subseteq stuck
    <2>1. /\ UNCHANGED <<conn, cmds, srv, clients, queries, anchors, tap, actor, stray>>
          /\ stuck' \subseteq stuck
      BY DEF FetchEnds, PumpStops, SessionCloses
    <2> QED
      BY <1>2, <2>1, WorkKept
  <1>4. TypeOK'
    BY <1>3 DEF TypeOK
  <1>5. Enough' /\ Waiting' /\ Phased' /\ DurableFirst'
    BY <1>3, EnoughQuiet, PhasedQuiet DEF Waiting
  <1>6. \A o, x : Queued(o, x) => Queued(o, x)'
    BY <1>3 DEF Queued
  <1>7. Armed'
    <2>1. queries \subseteq Ids
      BY DEF TypeOK
    <2> QED
      BY <1>3, <1>6, <2>1, ArmedKept DEF Live
  <1> QED
    BY <1>3, <1>4, <1>5, <1>7

LEMMA ReportStep ==
  ASSUME DaemonInv, NEW i \in Ids, PumpReports(i)
  PROVE  DaemonInv'
  <1> USE DEF DaemonInv
  <1> DEFINE y == [work[i] EXCEPT !.pump = "ended"]
             e == Cmd("finished", None, i)
  <1>1. /\ cmds' = Append(cmds, e) /\ work' = [work EXCEPT ![i] = y]
        /\ UNCHANGED <<conn, srv, clients, queries, anchors, tap, actor, stuck, stray>>
    BY Zenon DEF PumpReports
  <1>2. work[i] \in Query /\ cmds \in Seq(Command)
    BY DEF TypeOK
  <1>3. y \in Query /\ y.by = work[i].by /\ y.session = work[i].session /\ y.closing = work[i].closing
    BY <1>2 DEF Query
  <1>4. e \in Command /\ e.op \in Late
    BY DEF Cmd, Command, Late
  <1> HIDE DEF y, e
  <1>5. /\ work' \in [Ids -> Query] /\ FetchAttended'
        /\ \A j \in Ids : work'[j].by = work[j].by
    BY <1>1, <1>3, WorkKept
  <1>6. /\ cmds' \in Seq(Command) /\ OpensIn(cmds') = OpensIn(cmds)
        /\ \A k \in 1 .. Len(cmds) : k \in 1 .. Len(cmds') /\ cmds'[k] = cmds[k]
        /\ \A k \in 1 .. Len(cmds') : k \in 1 .. Len(cmds) \/ cmds'[k].op \in Late
    BY <1>1, <1>2, <1>4, LateSent
  <1>7. Waiting' /\ Enough'
    BY <1>1, <1>6, LateGrown
  <1>8. TypeOK'
    BY <1>1, <1>5, <1>6 DEF TypeOK
  <1>9. \A o, x : Queued(o, x) => Queued(o, x)'
    BY <1>6, QueuedGrow
  <1>10. Armed'
    <2>1. queries \subseteq Ids
      BY DEF TypeOK
    <2> QED
      BY <1>1, <1>5, <1>9, <2>1, ArmedKept DEF Live
  <1> QED
    BY <1>1, <1>5, <1>7, <1>8, <1>10, PhasedQuiet

-----------------------------------------------------------------------------
(* Shutdown.                                                                *)

LEMMA SignalStep ==
  ASSUME DaemonInv, Signal
  PROVE  DaemonInv'
  <1> USE DEF DaemonInv
  <1>1. /\ UNCHANGED <<conn, cmds, clients, queries, work, anchors, tap, actor, stuck, stray>> /\ srv.phase = "run"
        /\ srv' = [srv EXCEPT !.phase = "surfaces", !.draining = TRUE] /\ actor = "free"
    BY DEF Signal
  <1>2. /\ srv' \in Server /\ srv'.next = srv.next /\ srv'.flushed = srv.flushed
        /\ srv'.phase = "surfaces"
    <2>1. srv \in Server
      BY DEF TypeOK, Server
    <2> QED
      BY <1>1, <2>1 DEF Server, Phases
  <1>3. TypeOK'
    BY <1>1, <1>2 DEF TypeOK, Server
  <1> QED
    BY <1>1, <1>2, <1>3, EnoughQuiet, FetchQuiet DEF Waiting, Armed, Phased, DurableFirst, Live

LEMMA AbortStep ==
  ASSUME DaemonInv, abort_all_queries
  PROVE  DaemonInv'
  <1> USE DEF DaemonInv
  <1>1. /\ srv.phase = "surfaces" /\ srv' = [srv EXCEPT !.phase = "close", !.left = Live, !.accept = FALSE]
        /\ queries' = {} /\ work' = Cancelled(queries)
        /\ UNCHANGED <<conn, cmds, clients, anchors, tap, actor, stuck, stray>>
    BY DEF abort_all_queries
  <1>2. /\ srv' \in Server /\ srv'.next = srv.next /\ srv'.flushed = srv.flushed
        /\ srv'.phase = "close" /\ srv'.left = Live
    <2>1. srv \in Server /\ Live \in SUBSET Names
      BY DEF TypeOK, Server, Live
    <2> HIDE DEF Live
    <2> QED
      BY <1>1, <2>1 DEF Server, Phases
  <1>3. work' \in [Ids -> Query] /\ FetchAttended'
    <2>1. queries \in SUBSET Ids /\ queries \cap queries = queries /\ queries \ queries = {}
      BY DEF TypeOK
    <2> QED
      BY <1>1, <2>1, CancelledIs
  <1>4. TypeOK'
    BY <1>1, <1>2, <1>3 DEF TypeOK, Server
  <1>5. Phased' /\ DurableFirst'
    BY <1>1, <1>2 DEF Phased, DurableFirst, Live
  <1> QED
    BY <1>1, <1>2, <1>3, <1>4, <1>5, EnoughQuiet DEF Waiting, Armed

(* The process ends.                                                        *)
LEMMA ExitStep ==
  ASSUME DaemonInv, NEW flushed \in BOOLEAN, Exit(flushed),
         UNCHANGED <<queries, anchors, tap, actor>>, srv.phase # "run",
         flushed => tap, clients' = clients \/ clients' = [n \in Names |-> NoClient]
  PROVE  DaemonInv'
  <1> USE DEF DaemonInv
  <1>1. /\ srv' = [srv EXCEPT !.phase = "exited", !.accept = FALSE, !.flushed = flushed, !.left = {}]
        /\ conn' = [c \in Conns |-> [NewConn EXCEPT !.pc = "gone"]]
        /\ cmds' = <<>> /\ work' = [i \in Ids |-> NoWork]
        /\ stray' = [open |-> 0, closing |-> 0] /\ stuck' = {}
    BY DEF Exit
  <1>2. /\ srv' \in Server /\ srv'.next = srv.next /\ srv'.flushed = flushed /\ srv'.phase = "exited"
    <2>1. srv \in Server
      BY DEF TypeOK, Server
    <2> QED
      BY <1>1, <2>1 DEF Server, Phases
  <1>3. conn' \in [Conns -> Connection]
    <2>1. [NewConn EXCEPT !.pc = "gone"] \in Connection
      BY DEF NewConn, Connection
    <2> QED
      BY <1>1, <2>1
  <1>4. work' \in [Ids -> Query] /\ \A i \in Ids : work'[i].session = "none"
    BY <1>1 DEF NoWork, Query
  <1>5. clients' \in Clients /\ Live' \subseteq Live
    <2>1. NoClient \in [id : Ids \cup {-1}, by : Conns \cup {None}] /\ NoClient.id = -1
      BY DEF NoClient
    <2>2. clients \in Clients
      BY DEF TypeOK, Clients
    <2> QED
      BY <2>1, <2>2 DEF Clients, Live
  <1>6. TypeOK'
    <2>1. stray' \in [open : Nat, closing : Nat] /\ cmds' \in Seq(Command) /\ stuck' \subseteq Ids
      BY <1>1
    <2> QED
      BY <1>2, <1>3, <1>4, <1>5, <2>1 DEF TypeOK, Server, Clients
  <1>7. Enough' /\ Waiting'
    <2>1. Len(cmds') = 0 /\ OpensIn(cmds)' = {} /\ Cardinality({}) = 0
      BY <1>1, FS_EmptySet DEF OpensIn
    <2>2. srv.next \in 0 .. MaxIds /\ MaxIds \in Nat
      BY DaemonAssumption DEF TypeOK
    <2> QED
      BY <1>2, <2>1, <2>2 DEF Enough, Waiting
  <1>8. FetchAttended'
    BY <1>1, <1>4 DEF FetchAttended
  <1>9. Armed' /\ Phased' /\ DurableFirst'
    BY <1>2, <1>5 DEF Armed, Phased, DurableFirst
  <1> QED
    BY <1>6, <1>7, <1>8, <1>9

LEMMA DrainStep ==
  ASSUME DaemonInv, drain
  PROVE  DaemonInv'
  <1> USE DEF DaemonInv
  <1>1. srv \in Server
    BY DEF TypeOK, Server
  <1>2. ASSUME NEW n \in srv.left, srv.phase = "close",
               srv' = [srv EXCEPT !.left = @ \ {n}], teardown_client(n),
               UNCHANGED <<conn, cmds, queries, work, anchors, tap, actor, stray>>
        PROVE  DaemonInv'
    <2>1. /\ srv' \in Server /\ srv'.next = srv.next /\ srv'.flushed = srv.flushed
          /\ srv'.phase = "close" /\ srv'.left = srv.left \ {n} /\ n \in Names
      BY <1>1, <1>2 DEF Server
    <2>2. clients' \in Clients /\ Live' = Live \ {n} /\ stuck' \subseteq Ids
      BY <1>2, <2>1, TeardownIs
    <2>3. TypeOK'
      BY <1>2, <2>1, <2>2 DEF TypeOK, Server, Clients
    <2>4. Phased' /\ DurableFirst'
      BY <1>2, <2>1, <2>2 DEF Phased, DurableFirst
    <2> QED
      BY <1>2, <2>1, <2>3, <2>4, EnoughQuiet, FetchQuiet DEF Waiting, Armed
  <1>3. ASSUME srv.phase = "close", srv.left = {}, srv' = [srv EXCEPT !.phase = "tap"], anchors' = "dropped",
               UNCHANGED <<conn, cmds, clients, queries, work, tap, actor, stuck, stray>>
        PROVE  DaemonInv'
    <2>1. /\ srv' \in Server /\ srv'.next = srv.next /\ srv'.flushed = srv.flushed /\ srv'.phase = "tap"
      BY <1>1, <1>3 DEF Server, Phases
    <2>2. TypeOK'
      BY <1>3, <2>1 DEF TypeOK, Server
    <2>3. Live = {} /\ Live' = Live
      BY <1>3 DEF Phased, Live
    <2>4. Phased' /\ DurableFirst'
      BY <1>3, <2>1, <2>3 DEF Phased, DurableFirst
    <2> QED
      BY <1>3, <2>1, <2>2, <2>4, EnoughQuiet, FetchQuiet DEF Waiting, Armed
  <1>4. ASSUME srv.phase = "tap", srv' = [srv EXCEPT !.phase = "flush"], tap' = TRUE,
               UNCHANGED <<conn, cmds, clients, queries, work, anchors, actor, stuck, stray>>
        PROVE  DaemonInv'
    <2>1. /\ srv' \in Server /\ srv'.next = srv.next /\ srv'.flushed = srv.flushed /\ srv'.phase = "flush"
      BY <1>1, <1>4 DEF Server, Phases
    <2>2. TypeOK'
      BY <1>4, <2>1 DEF TypeOK, Server
    <2>3. Phased' /\ DurableFirst'
      BY <1>4, <2>1 DEF Phased, DurableFirst, Live
    <2> QED
      BY <1>4, <2>1, <2>2, <2>3, EnoughQuiet, FetchQuiet DEF Waiting, Armed
  <1>5. ASSUME srv.phase = "flush", Exit(TRUE), UNCHANGED <<clients, queries, anchors, tap, actor>>
        PROVE  DaemonInv'
    <2>1. tap
      BY <1>5 DEF Phased
    <2> QED
      BY <1>5, <2>1, ExitStep
  <1> QED
    BY <1>2, <1>3, <1>4, <1>5 DEF drain

LEMMA ServeLateStep ==
  ASSUME DaemonInv, ServeLate
  PROVE  DaemonInv'
  <1> USE DEF DaemonInv
  <1>1. /\ srv.phase \in {"close", "tap", "flush"} /\ cmds # <<>> /\ cmds' = Tail(cmds)
        /\ IF Head(cmds).op \in Late THEN UNCHANGED conn ELSE Reply(Head(cmds), FALSE, FALSE, 0)
        /\ UNCHANGED <<srv, clients, queries, work, anchors, tap, actor, stuck, stray>>
    BY DEF ServeLate, Draining, Late
  <1>2. Head(cmds).op \in Late \/ Head(cmds).op \in Ops
    BY <1>1, HeadIs, CommandIs
  <1>3. conn' \in [Conns -> Connection] /\ cmds' \in Seq(Command) /\ Waiting'
    <2>1. CASE Head(cmds).op \in Late
      BY <1>1, <2>1, LateServed DEF TypeOK
    <2>2. CASE Head(cmds).op \notin Late
      BY <1>1, <1>2, <2>2, RequestServed
    <2> QED
      BY <2>1, <2>2
  <1>4. TypeOK'
    BY <1>1, <1>3 DEF TypeOK
  <1> QED
    BY <1>1, <1>3, <1>4, EnoughPop, PhasedQuiet, FetchQuiet DEF Armed

LEMMA TimeOutStep ==
  ASSUME DaemonInv, DrainTimesOut
  PROVE  DaemonInv'
  BY ExitStep DEF DrainTimesOut, Draining

LEMMA AnchorStep ==
  ASSUME DaemonInv, AnchorGone
  PROVE  DaemonInv'
  <1> USE DEF DaemonInv
  <1>1. /\ anchors = "dropped" /\ anchors' = "gone"
        /\ UNCHANGED <<conn, cmds, srv, clients, queries, work, tap, actor, stuck, stray>>
    BY DEF AnchorGone
  <1>2. TypeOK'
    BY <1>1 DEF TypeOK
  <1>3. Phased' /\ DurableFirst'
    BY <1>1 DEF Phased, DurableFirst, Live
  <1>4. Armed'
    BY <1>1 DEF Armed, Live, ClientArmed, QueryArmed, Queued
  <1> QED
    BY <1>1, <1>2, <1>3, <1>4, EnoughQuiet, FetchQuiet DEF Waiting

-----------------------------------------------------------------------------

LEMMA DaemonStarts ==
  Init => DaemonInv
  <1> SUFFICES ASSUME Init PROVE DaemonInv
    OBVIOUS
  <1>1. MaxIds \in Nat /\ 0 \in 0 .. MaxIds
    BY DaemonAssumption
  <1>2. /\ NewConn \in Connection /\ NoWork \in Query /\ NoWork.session = "none"
        /\ NoClient \in [id : Ids \cup {-1}, by : Conns \cup {None}] /\ NoClient.id = -1
    BY DEF NewConn, NoWork, NoClient, Connection, Query
  <1>3. TypeOK
    <2>1. conn \in [Conns -> Connection] /\ work \in [Ids -> Query] /\ clients \in Clients
      BY <1>2 DEF Init, Clients
    <2>2. srv \in Server
      BY <1>1 DEF Init, Server, Phases
    <2>3. cmds \in Seq(Command)
      BY DEF Init
    <2> QED
      BY <2>1, <2>2, <2>3 DEF Init, TypeOK, Clients, Server
  <1>4. Live = {}
    BY <1>2 DEF Init, Live
  <1>5. Enough /\ Waiting
    <2>1. Len(cmds) = 0 /\ OpensIn(cmds) = {} /\ Cardinality({}) = 0 /\ srv.next = 0
      BY FS_EmptySet DEF Init, OpensIn
    <2> QED
      BY <1>1, <2>1 DEF Enough, Waiting
  <1>6. FetchAttended
    BY <1>2 DEF Init, FetchAttended
  <1>7. Armed /\ Phased /\ DurableFirst
    BY <1>4 DEF Init, Armed, Phased, DurableFirst
  <1> QED
    BY <1>3, <1>5, <1>6, <1>7 DEF DaemonInv

LEMMA DaemonInvStep ==
  DaemonInv /\ [Next]_vars => DaemonInv'
  <1> SUFFICES ASSUME DaemonInv, [Next]_vars PROVE DaemonInv'
    OBVIOUS
  <1>1. CASE UNCHANGED vars
    BY <1>1 DEF vars, DaemonInv, TypeOK, Enough, OpensIn, Waiting, Armed, ClientArmed, QueryArmed,
                Queued, Phased, FetchAttended, DurableFirst, Live
  <1>2. ASSUME NEW c \in Conns,
               \/ Accept(c) \/ emergency_teardown(c) \/ HangUp(c)
               \/ \E op \in Speaks[c] : \E x \in Args(c, op) : Forward(c, Cmd(op, c, x))
        PROVE  DaemonInv'
    BY <1>2, ConnStep, TeardownStep, ForwardStep
  <1>3. CASE Actor
    BY <1>3, AskStep, WaitStep, OpenClientStep, CloseClientStep, DisconnectStep, OpenQueryStep, CancelQueryStep,
       CancelQueriesStep, QueryFinishedStep, AbortStep, DrainStep, ServeLateStep DEF Actor, Handler
  <1>4. CASE Signal \/ DrainTimesOut \/ AnchorGone \/ StrayCloses
    BY <1>4, SignalStep, TimeOutStep, AnchorStep, StrayStep
  <1>5. ASSUME NEW i \in Ids, FetchEnds(i) \/ QueryStep(i) \/ ReaderStalls(i) \/ ReaderReads(i)
        PROVE  DaemonInv'
    BY <1>5, SessionStep, ReportStep, ReaderStep DEF QueryStep
  <1> QED
    BY <1>1, <1>2, <1>3, <1>4, <1>5 DEF Next

(* The daemon's invariant holds throughout: the channel holds each waiting  *)
(* connection's request once, what a connection opened is armed for its     *)
(* teardown, and the drain keeps its order.                                 *)
THEOREM DaemonCorrect == Spec => []DaemonInv
  BY DaemonStarts, DaemonInvStep, PTL DEF Spec

(* No provider fetch runs unattended, whatever races with its end: a        *)
(* cancel, the end of its pump, the end of its connection or the drain.     *)
THEOREM FetchAttendedCorrect == Spec => []FetchAttended
  <1>1. DaemonInv => FetchAttended
    BY DEF DaemonInv
  <1> QED
    BY <1>1, DaemonCorrect, PTL

(* The tap log is flushed after every client is closed and the anchors are  *)
(* dropped, and before the sinks are, wherever the drain is cut off.        *)
THEOREM DurableFirstCorrect == Spec => []DurableFirst
  <1>1. DaemonInv => DurableFirst
    BY DEF DaemonInv
  <1> QED
    BY <1>1, DaemonCorrect, PTL

(* When every connection opens one client and no other closes it, what a    *)
(* connection opened is torn down, or its teardown is queued, once it is    *)
(* gone.                                                                    *)
THEOREM NothingLeftBehindCorrect == Tidy => (Spec => []NothingLeftBehind)
  <1>1. Tidy /\ DaemonInv => NothingLeftBehind
    <2> SUFFICES ASSUME Tidy, DaemonInv, srv.phase = "run"
                 PROVE  /\ \A n \in Live : conn[clients[n].by].pc = "gone" => Queued("disconnect", n)
                        /\ \A i \in queries : conn[work[i].by].pc = "gone" => Queued("cancel-queries", i)
      BY DEF NothingLeftBehind
    <2>1. (\A n \in Live : ClientArmed(n)) /\ (\A i \in queries : QueryArmed(i))
      BY DEF DaemonInv, Armed
    <2> QED
      BY <2>1 DEF ClientArmed, QueryArmed
  <1> SUFFICES ASSUME Tidy PROVE Spec => []NothingLeftBehind
    OBVIOUS
  <1>2. DaemonInv => NothingLeftBehind
    BY <1>1
  <1> QED
    BY <1>2, DaemonCorrect, PTL

-----------------------------------------------------------------------------
(***************************************************************************)
(* Launch: apps find or start a daemon process.  The lock is held from     *)
(* before the path is touched until after it is unlinked, and a process    *)
(* numbers the services it opens.                                          *)
(***************************************************************************)

(* A process that goes on changes its program counter and nothing else.     *)
LEMMA GoesKeeps ==
  ASSUME LaunchTypeOK, NEW d \in Daemons, NEW pc \in ProcStates, Goes(d, pc)
  PROVE  /\ proc' \in [Daemons -> ProcState]
         /\ proc'[d].pc = pc
         /\ \A x \in Daemons \ {d} : proc'[x].pc = proc[x].pc
         /\ \A x \in Daemons : proc'[x].next = proc[x].next
  BY DEF LaunchTypeOK, Goes, ProcState

(* A unit of the bound is spent.                                            *)
LEMMA SpendType ==
  ASSUME LaunchTypeOK, NEW b \in {"faults", "ensures"}, Spend(b)
  PROVE  budget' \in [{"faults", "ensures"} -> Nat]
  BY DEF LaunchTypeOK, Spend

(* A disturbance is noted, and nothing else changes in any app.             *)
LEMMA DisturbedKeeps ==
  ASSUME LaunchTypeOK, app' = app \/ Disturbed
  PROVE  /\ app' \in [Apps -> AppState]
         /\ \A a \in Apps : /\ app'[a].pc = app[a].pc /\ app'[a].conn = app[a].conn
                            /\ app'[a].service = app[a].service
  <1>1. CASE app' = app
    BY <1>1 DEF LaunchTypeOK
  <1>2. CASE Disturbed
    <2>1. \A a \in Apps : app[a] \in AppState
      BY DEF LaunchTypeOK
    <2>2. ASSUME NEW s \in AppState
          PROVE  /\ [s EXCEPT !.calm = FALSE] \in AppState
                 /\ [s EXCEPT !.calm = FALSE].pc = s.pc
                 /\ [s EXCEPT !.calm = FALSE].conn = s.conn
                 /\ [s EXCEPT !.calm = FALSE].service = s.service
      BY DEF AppState
    <2> QED
      BY <1>2, <2>1, <2>2 DEF Disturbed
  <1> QED
    BY <1>1, <1>2

(* A name is below the number its process, in pr, gives out next.           *)
Below(n, pr) == n.id < pr[n.boot].next

LEMMA NamesInvBelow ==
  /\ NamesInv <=>
       /\ \A n \in services : Below(n, proc)
       /\ \A a \in Apps : app[a].service # Nothing => Below(app[a].service, proc)
       /\ \A a, b \in Apps : app[a].service = app[b].service
                                => a = b \/ app[a].service = Nothing
  /\ NamesInv' <=>
       /\ \A n \in services' : Below(n, proc')
       /\ \A a \in Apps : app'[a].service # Nothing => Below(app'[a].service, proc')
       /\ \A a, b \in Apps : app'[a].service = app'[b].service
                                => a = b \/ app'[a].service = Nothing
  BY DEF NamesInv, Numbered, Below

(* The initial states satisfy the invariant.                                *)
LEMMA InitLaunchInv == LaunchInit => LaunchInv
  <1> SUFFICES ASSUME LaunchInit PROVE LaunchInv
    OBVIOUS
  <1>1. proc \in [Daemons -> ProcState] /\ \A d \in Daemons : proc[d].pc = "unborn"
    BY DEF LaunchInit, ProcState, ProcStates, Versions
  <1>2. app \in [Apps -> AppState] /\ \A a \in Apps : app[a] = AtRest("idle")
    BY DEF LaunchInit, AtRest, AppState, AppStates, Versions
  <1>3. stale \in BOOLEAN
    BY Zenon DEF LaunchInit
  <1>4. budget \in [{"faults", "ensures"} -> Nat]
    BY LaunchAssumption DEF LaunchInit
  <1>5. LaunchTypeOK
    BY <1>1, <1>2, <1>3, <1>4 DEF LaunchInit, LaunchTypeOK
  <1>6. LockHeld /\ PathKept
    BY <1>1 DEF LockHeld, PathKept, Holding, OnPath
  <1>7. Connected /\ NamesInv
    BY <1>2 DEF LaunchInit, Connected, NamesInv, AtRest
  <1> QED
    BY <1>5, <1>6, <1>7 DEF LaunchInv

(***************************************************************************)
(* A daemon process goes on.  It keeps the invariant if it holds the lock   *)
(* wherever it must, has the path wherever it must, and disturbs neither    *)
(* for another process that holds the lock.                                 *)
(***************************************************************************)
LEMMA DaemonMoves ==
  ASSUME LaunchInv, NEW d \in Daemons, NEW pc \in ProcStates, Goes(d, pc),
         lock' \in Daemons \cup {Nothing}, path' \in Daemons \cup Paths \cup {"absent"},
         stale' \in BOOLEAN, services' \subseteq services,
         app' = app \/ Disturbed, budget' \in [{"faults", "ensures"} -> Nat],
         pc \in Holding => lock' = d,
         pc \in OnPath => path' = d,
         \A x \in Daemons \ {d} : lock = x => lock' = x /\ path' = path
  PROVE  LaunchInv'
  <1>1. LaunchTypeOK /\ LockHeld /\ PathKept /\ Connected /\ NamesInv
    BY DEF LaunchInv
  <1>2. /\ proc' \in [Daemons -> ProcState]
        /\ proc'[d].pc = pc
        /\ \A x \in Daemons \ {d} : proc'[x].pc = proc[x].pc
        /\ \A x \in Daemons : proc'[x].next = proc[x].next
    BY <1>1, GoesKeeps
  <1>3. /\ app' \in [Apps -> AppState]
        /\ \A a \in Apps : /\ app'[a].pc = app[a].pc /\ app'[a].conn = app[a].conn
                           /\ app'[a].service = app[a].service
    BY <1>1, DisturbedKeeps
  <1>4. LaunchTypeOK'
    BY <1>1, <1>2, <1>3 DEF LaunchTypeOK
  <1>5. LockHeld' /\ PathKept'
    <2>1. ASSUME NEW x \in Daemons, x # d, proc'[x].pc \in Holding
          PROVE  lock' = x /\ path' = path
      BY <1>1, <1>2, <2>1 DEF LockHeld
    <2>2. OnPath \subseteq Holding
      BY DEF OnPath, Holding
    <2> QED
      BY <1>1, <1>2, <2>1, <2>2 DEF LockHeld, PathKept
  <1>6. Connected'
    BY <1>1, <1>3 DEF Connected
  <1>7. NamesInv'
    <2>1. \A n \in ServiceNames : Below(n, proc) => Below(n, proc')
      BY <1>2 DEF Below, ServiceNames
    <2>2. services \subseteq ServiceNames /\ \A a \in Apps : app[a].service \in ServiceNames \cup {Nothing}
      BY <1>1 DEF LaunchTypeOK, AppState
    <2>3. \A n \in services' : Below(n, proc')
      BY <1>1, <2>1, <2>2, NamesInvBelow
    <2>4. \A a \in Apps : app'[a].service # Nothing => Below(app[a].service, proc')
      BY <1>1, <1>3, <2>1, <2>2, NamesInvBelow
    <2> QED
      BY <1>1, <1>3, <2>3, <2>4, NamesInvBelow
  <1> QED
    BY <1>4, <1>5, <1>6, <1>7 DEF LaunchInv

(* An app goes on without touching the daemons' side.                       *)
LEMMA AppMoves ==
  ASSUME LaunchInv, NEW a \in Apps, NEW rec \in AppState, Becomes(a, rec),
         UNCHANGED <<lock, path, proc, services>>, stale' = stale,
         budget' \in [{"faults", "ensures"} -> Nat],
         rec.service \in {app[a].service, Nothing},
         rec.pc \in {"await", "open", "attach", "ready"} => rec.conn \in Daemons
  PROVE  LaunchInv'
  <1>1. LaunchTypeOK /\ LockHeld /\ PathKept /\ Connected /\ NamesInv
    BY DEF LaunchInv
  <1>2. /\ app' \in [Apps -> AppState] /\ app'[a] = rec
        /\ \A b \in Apps \ {a} : app'[b] = app[b]
    BY <1>1 DEF LaunchTypeOK, Becomes
  <1>3. LaunchTypeOK'
    BY <1>1, <1>2 DEF LaunchTypeOK
  <1>4. LockHeld' /\ PathKept'
    BY <1>1 DEF LockHeld, PathKept
  <1>5. Connected'
    BY <1>1, <1>2 DEF Connected
  <1>6. NamesInv'
    <2>1. \A b \in Apps : app'[b].service # Nothing =>
             app'[b].service = app[b].service
      BY <1>2
    <2>2. \A b, c \in Apps : app'[b].service = app'[c].service
             => b = c \/ app'[b].service = Nothing
      BY <1>1, <2>1, NamesInvBelow
    <2>3. \A b \in Apps : app'[b].service # Nothing => Below(app'[b].service, proc)
      BY <1>1, <2>1, NamesInvBelow
    <2> QED
      BY <1>1, <2>2, <2>3, NamesInvBelow
  <1> QED
    BY <1>3, <1>4, <1>5, <1>6 DEF LaunchInv

(* Every step of a daemon process, and its death, keeps the invariant.      *)
LEMMA DaemonKeeps ==
  ASSUME LaunchInv, NEW d \in Daemons,
         DaemonStep(d) \/ BootFails(d) \/ WebFails(d) \/ Stop(d) \/ Crash(d)
  PROVE  LaunchInv'
  <1> USE DEF Holding, OnPath, ProcStates
  <1>1. LaunchTypeOK /\ LockHeld /\ PathKept
    BY DEF LaunchInv
  <1>2. /\ lock \in Daemons \cup {Nothing} /\ path \in Daemons \cup Paths \cup {"absent"}
        /\ stale \in BOOLEAN
        /\ budget \in [{"faults", "ensures"} -> Nat]
    BY <1>1 DEF LaunchTypeOK
  <1>3. Nothing \notin Daemons
    BY LaunchAssumption
  <1>4. proc[d].pc \in Holding => lock = d
    BY <1>1 DEF LockHeld
  <1>5. proc[d].pc \in OnPath => path = d
    BY <1>1 DEF PathKept
  <1>6. /\ Released(d) \in Daemons \cup {Nothing}
        /\ \A x \in Daemons \ {d} : lock = x => Released(d) = x
    BY <1>2 DEF Released
  <1>7. CASE AcquireLock(d)
    <2>1. CASE lock = Nothing
      <3>1. /\ Goes(d, "locked") /\ lock' = d
            /\ UNCHANGED <<path, services, app, budget>> /\ stale' = stale
        BY <1>7, <2>1 DEF AcquireLock
      <3> QED
        BY <1>2, <1>3, <2>1, <3>1, DaemonMoves
    <2>2. CASE lock # Nothing
      <3>1. /\ Goes(d, "gone") /\ lock' = lock
            /\ UNCHANGED <<path, services, app, budget>> /\ stale' = stale
        BY <1>7, <2>2 DEF AcquireLock
      <3> QED
        BY <1>2, <3>1, DaemonMoves
    <2> QED
      BY <2>1, <2>2
  <1>8. CASE Bootstrap(d)
    <2>1. /\ Goes(d, "booted") /\ lock = d /\ lock' = lock
          /\ UNCHANGED <<path, services, app, budget>> /\ stale' = stale
      BY <1>4, <1>8 DEF Bootstrap
    <2> QED
      BY <1>2, <2>1, DaemonMoves
  <1>9. CASE BootFails(d)
    <2>1. /\ Goes(d, "gone") /\ lock' = Released(d) /\ Disturbed
          /\ UNCHANGED <<path, services>> /\ stale' = stale
          /\ budget' \in [{"faults", "ensures"} -> Nat]
      BY <1>1, <1>9, SpendType DEF BootFails
    <2> QED
      BY <1>2, <1>6, <2>1, DaemonMoves
  <1>10. CASE ProbeStale(d)
    <2>1. /\ \/ Goes(d, "gone") /\ lock' = Released(d)
             \/ Goes(d, "cleared") /\ lock' = d
             \/ Goes(d, "probed") /\ lock' = d
          /\ lock = d
          /\ UNCHANGED <<path, services, app, budget>> /\ stale' = stale
      BY <1>4, <1>10 DEF ProbeStale
    <2> QED
      BY <1>2, <1>6, <2>1, DaemonMoves
  <1>11. CASE RemoveStale(d)
    <2>1. /\ Goes(d, "cleared") /\ lock = d /\ lock' = lock /\ path' = "absent"
          /\ UNCHANGED <<services, app, budget>> /\ stale' = stale
      BY <1>4, <1>11 DEF RemoveStale
    <2> QED
      BY <1>2, <2>1, DaemonMoves
  <1>12. CASE Bind(d)
    <2>1. /\ \/ Goes(d, "bound") /\ lock' = d /\ path' = d
             \/ Goes(d, "gone") /\ lock' = Released(d) /\ path' = path
          /\ lock = d
          /\ UNCHANGED <<services, app, budget>> /\ stale' = stale
      BY <1>4, <1>12 DEF Bind
    <2> QED
      BY <1>2, <1>6, <2>1, DaemonMoves
  <1>13. CASE Serve(d)
    <2>1. /\ Goes(d, "serving") /\ lock = d /\ lock' = lock /\ path = d /\ path' = path
          /\ UNCHANGED <<services, app, budget>> /\ stale' = stale
      BY <1>4, <1>5, <1>13 DEF Serve
    <2> QED
      BY <1>2, <2>1, DaemonMoves
  <1>14. CASE PlanesFail(d)
    <2>1. /\ Goes(d, "gone") /\ lock' = Released(d)
          /\ UNCHANGED <<path, services, app, budget>> /\ stale' = stale
      BY <1>14 DEF PlanesFail
    <2> QED
      BY <1>2, <1>6, <2>1, DaemonMoves
  <1>15. CASE WebFails(d)
    <2>1. /\ Goes(d, "gone") /\ lock' = Released(d) /\ Disturbed
          /\ UNCHANGED <<path, services>> /\ stale' = stale
          /\ budget' \in [{"faults", "ensures"} -> Nat]
      BY <1>1, <1>15, SpendType DEF WebFails
    <2> QED
      BY <1>2, <1>6, <2>1, DaemonMoves
  <1>16. CASE Stop(d)
    <2>1. /\ Goes(d, "stopping") /\ Disturbed
          /\ lock = d /\ lock' = lock /\ path = d /\ path' = path
          /\ services' = services /\ stale' = stale
          /\ budget' \in [{"faults", "ensures"} -> Nat]
      BY <1>1, <1>4, <1>5, <1>16, SpendType DEF Stop
    <2> QED
      BY <1>2, <2>1, DaemonMoves
  <1>17. CASE CloseListener(d)
    <2>1. /\ Goes(d, "draining") /\ lock = d /\ lock' = lock /\ path = d /\ path' = path
          /\ UNCHANGED <<services, app, budget>> /\ stale' = stale
      BY <1>4, <1>5, <1>17 DEF CloseListener
    <2> QED
      BY <1>2, <2>1, DaemonMoves
  <1>18. CASE Unlink(d)
    <2>1. /\ Goes(d, "ending") /\ lock = d /\ lock' = lock /\ path' = "absent"
          /\ services' \subseteq services /\ UNCHANGED <<app, budget>> /\ stale' = stale
      BY <1>4, <1>18 DEF Unlink
    <2> QED
      BY <1>2, <2>1, DaemonMoves
  <1>19. CASE ProcessExit(d)
    <2>1. /\ Goes(d, "gone") /\ lock' = Released(d)
          /\ UNCHANGED <<path, services, app, budget>> /\ stale' = stale
      BY <1>19 DEF ProcessExit
    <2> QED
      BY <1>2, <1>6, <2>1, DaemonMoves
  <1>20. CASE Crash(d)
    <2>1. /\ Goes(d, "gone") /\ lock' = Released(d) /\ Disturbed
          /\ UNCHANGED <<path, services>>
          /\ budget' \in [{"faults", "ensures"} -> Nat]
      BY <1>1, <1>20, SpendType DEF Crash
    <2>2. stale' \in BOOLEAN
      BY <1>2, <1>20, Zenon DEF Crash
    <2> QED
      BY <1>2, <1>6, <2>1, <2>2, DaemonMoves
  <1> QED
    BY <1>7, <1>8, <1>9, <1>10, <1>11, <1>12, <1>13, <1>14, <1>15, <1>16, <1>17, <1>18,
       <1>19, <1>20 DEF DaemonStep

(* A probe that fails leaves a well-typed app that talks to nobody.          *)
LEMMA PingFailedType ==
  ASSUME LaunchTypeOK, NEW a \in Apps
  PROVE  /\ PingFailed(a) \in AppState
         /\ [PingFailed(a) EXCEPT !.calm = FALSE] \in AppState
         /\ PingFailed(a).service = app[a].service
         /\ [PingFailed(a) EXCEPT !.calm = FALSE].service = app[a].service
         /\ PingFailed(a).pc \in {"spawn", "poll"}
         /\ [PingFailed(a) EXCEPT !.calm = FALSE].pc \in {"spawn", "poll"}
  <1>1. app[a] \in AppState
    BY DEF LaunchTypeOK
  <1> QED
    BY <1>1 DEF PingFailed, AppState, AppStates

(* The end of a call of ensure, and where it starts from.                    *)
LEMMA AtRestType ==
  ASSUME NEW pc \in AppStates, NEW c \in BOOLEAN
  PROVE  /\ AtRest(pc) \in AppState /\ AtRest(pc).service = Nothing /\ AtRest(pc).pc = pc
         /\ [AtRest(pc) EXCEPT !.calm = c] \in AppState
         /\ [AtRest(pc) EXCEPT !.calm = c].service = Nothing
         /\ [AtRest(pc) EXCEPT !.calm = c].pc = pc
         /\ [AtRest(pc) EXCEPT !.exited = c] \in AppState
         /\ [AtRest(pc) EXCEPT !.exited = c].service = Nothing
         /\ [AtRest(pc) EXCEPT !.exited = c].pc = pc
  BY DEF AtRest, AppState, Versions

(* An app that lets go keeps nothing but what the daemon holds for it.       *)
LEMMA LetsGoType ==
  ASSUME LaunchTypeOK, NEW a \in Apps, NEW pc \in AppStates, NEW c \in BOOLEAN
  PROVE  /\ LetsGo(a, pc) \in AppState
         /\ LetsGo(a, pc).service = app[a].service /\ LetsGo(a, pc).pc = pc
         /\ [LetsGo(a, pc) EXCEPT !.calm = c] \in AppState
         /\ [LetsGo(a, pc) EXCEPT !.calm = c].service = app[a].service
         /\ [LetsGo(a, pc) EXCEPT !.calm = c].pc = pc
         /\ [LetsGo(a, pc) EXCEPT !.exited = c] \in AppState
         /\ [LetsGo(a, pc) EXCEPT !.exited = c].service = app[a].service
         /\ [LetsGo(a, pc) EXCEPT !.exited = c].pc = pc
  <1> DEFINE name == app[a].service
  <1>1. name \in ServiceNames \cup {Nothing}
    BY DEF LaunchTypeOK, AppState
  <1>2. LetsGo(a, pc) = [AtRest(pc) EXCEPT !.service = name]
    BY DEF LetsGo
  <1> HIDE DEF name
  <1>3. /\ LetsGo(a, pc) \in AppState
        /\ LetsGo(a, pc).service = name /\ LetsGo(a, pc).pc = pc
    BY <1>1, <1>2 DEF AtRest, AppState, Versions
  <1>4. ASSUME NEW s \in AppState, NEW k \in BOOLEAN
        PROVE  /\ [s EXCEPT !.calm = k] \in AppState /\ [s EXCEPT !.exited = k] \in AppState
               /\ [s EXCEPT !.calm = k].service = s.service /\ [s EXCEPT !.calm = k].pc = s.pc
               /\ [s EXCEPT !.exited = k].service = s.service
               /\ [s EXCEPT !.exited = k].pc = s.pc
    BY DEF AppState
  <1> DEFINE s0 == LetsGo(a, pc)
  <1> HIDE DEF s0
  <1> QED
    BY <1>3, <1>4, Zenon DEF name, s0

(* A call of ensure ends: the app lets go of its connection.                 *)
LEMMA EndsKeeps ==
  ASSUME LaunchInv, NEW a \in Apps, NEW pc \in {"failed", "skewed"}, Ends(a, pc),
         UNCHANGED daemonSide, budget' \in [{"faults", "ensures"} -> Nat]
  PROVE  LaunchInv'
  <1> DEFINE c == app[a].calm
             rec == [LetsGo(a, pc) EXCEPT !.calm = c]
  <1>1. LaunchTypeOK /\ c \in BOOLEAN /\ pc \in AppStates
    BY DEF LaunchInv, LaunchTypeOK, AppState, AppStates
  <1>2. Becomes(a, rec)
    BY DEF Ends
  <1> HIDE DEF c
  <1>3. rec \in AppState /\ rec.service = app[a].service /\ rec.pc = pc
    <2>1. FALSE \in BOOLEAN
      OBVIOUS
    <2>2. /\ LetsGo(a, pc) \in AppState /\ LetsGo(a, pc).service = app[a].service
          /\ LetsGo(a, pc).pc = pc
      BY <1>1, <2>1, LetsGoType, Zenon
    <2>3. ASSUME NEW s \in AppState
          PROVE  /\ [s EXCEPT !.calm = c] \in AppState
                 /\ [s EXCEPT !.calm = c].service = s.service /\ [s EXCEPT !.calm = c].pc = s.pc
      BY <1>1 DEF AppState
    <2> DEFINE s0 == LetsGo(a, pc)
    <2> HIDE DEF s0
    <2> QED
      BY <2>2, <2>3, Zenon DEF s0
  <1> HIDE DEF rec
  <1> QED
    BY <1>2, <1>3, AppMoves DEF daemonSide

(* Something failed, and the app gives the call up.                          *)
LEMMA FailsKeeps ==
  ASSUME LaunchInv, NEW a \in Apps, Becomes(a, LetsGo(a, "failed")),
         UNCHANGED daemonSide, budget' \in [{"faults", "ensures"} -> Nat]
  PROVE  LaunchInv'
  <1>1. LaunchTypeOK /\ "failed" \in AppStates /\ FALSE \in BOOLEAN
    BY DEF LaunchInv, AppStates
  <1>2. /\ LetsGo(a, "failed") \in AppState /\ LetsGo(a, "failed").service = app[a].service
        /\ LetsGo(a, "failed").pc = "failed"
    BY <1>1, LetsGoType
  <1> QED
    BY <1>2, AppMoves DEF daemonSide

(* The steps of an app that touch nothing but the app.                       *)
LEMMA AppKeeps ==
  ASSUME LaunchInv, NEW a \in Apps,
         \/ PingConnect(a) \/ Pong(a) \/ PingFails(a) \/ Poll(a) \/ CheckVersion(a)
         \/ Connect(a) \/ OpenRefused(a) \/ Attach(a) \/ Ensure(a) \/ GiveUp(a)
  PROVE  LaunchInv'
  <1>1. LaunchTypeOK /\ Connected
    BY DEF LaunchInv
  <1>2. /\ app[a] \in AppState /\ budget \in [{"faults", "ensures"} -> Nat]
        /\ proc \in [Daemons -> ProcState]
    BY <1>1 DEF LaunchTypeOK
  <1>3. app[a].pc \in {"await", "open", "attach", "ready"} => app[a].conn \in Daemons
    BY <1>1 DEF Connected
  <1>4. Listening \subseteq Daemons
    BY DEF Listening
  <1>5. CASE PingConnect(a)
    <2>1. CASE path \in Listening
      <3> DEFINE rec == [app[a] EXCEPT !.conn = path, !.pc = "await"]
      <3>1. Becomes(a, rec) /\ UNCHANGED <<lock, path, proc, services, budget>> /\ stale' = stale
        BY <1>5, <2>1 DEF PingConnect, daemonSide
      <3>2. rec \in AppState /\ rec.service = app[a].service /\ rec.conn \in Daemons
        BY <1>2, <1>4, <2>1 DEF AppState, AppStates
      <3> HIDE DEF rec
      <3> QED
        BY <1>2, <3>1, <3>2, AppMoves
    <2>2. CASE path \notin Listening
      <3>1. Becomes(a, PingFailed(a)) /\ UNCHANGED <<lock, path, proc, services, budget>>
            /\ stale' = stale
        BY <1>5, <2>2 DEF PingConnect, daemonSide
      <3> QED
        BY <1>1, <1>2, <3>1, PingFailedType, AppMoves
    <2> QED
      BY <2>1, <2>2
  <1>6. CASE Pong(a)
    <2> DEFINE rec == [app[a] EXCEPT !.pc = "check", !.conn = Nothing,
                                     !.hello = proc[app[a].conn].version]
    <2>1. Becomes(a, rec) /\ UNCHANGED <<lock, path, proc, services, budget>> /\ stale' = stale
      BY <1>6 DEF Pong, daemonSide
    <2>2. proc[app[a].conn].version \in Versions
      BY <1>2, <1>3, <1>6 DEF Pong, ProcState
    <2>3. rec \in AppState /\ rec.service = app[a].service /\ rec.pc = "check"
      BY <1>2, <2>2 DEF AppState, AppStates
    <2> HIDE DEF rec
    <2> QED
      BY <1>2, <2>1, <2>3, AppMoves
  <1>7. CASE PingFails(a)
    <2>1. /\ UNCHANGED <<lock, path, proc, services>> /\ stale' = stale
          /\ \/ Becomes(a, PingFailed(a)) /\ budget' = budget
             \/ Becomes(a, [PingFailed(a) EXCEPT !.calm = FALSE]) /\ Spend("faults")
      BY <1>7 DEF PingFails, daemonSide
    <2>2. budget' \in [{"faults", "ensures"} -> Nat]
      BY <1>1, <1>2, <2>1, SpendType
    <2> QED
      BY <1>1, <2>1, <2>2, PingFailedType, AppMoves
  <1>8. CASE Poll(a)
    <2> DEFINE x == Observed(a)
               rec == [app[a] EXCEPT !.pc = "probe", !.exited = x]
    <2>1. Becomes(a, rec) /\ UNCHANGED <<lock, path, proc, services, budget>> /\ stale' = stale
      BY <1>8 DEF Poll, daemonSide
    <2>2. x \in BOOLEAN
      <3>1. app[a].exited \in BOOLEAN
        BY <1>2 DEF AppState
      <3> QED
        BY <3>1, Zenon DEF Observed
    <2> HIDE DEF x
    <2>3. rec \in AppState /\ rec.service = app[a].service /\ rec.pc = "probe"
      BY <1>2, <2>2 DEF AppState, AppStates
    <2> HIDE DEF rec
    <2> QED
      BY <1>2, <2>1, <2>3, AppMoves
  <1>9. CASE CheckVersion(a)
    <2>1. CASE version_compatible(Version[a], app[a].hello)
      <3> DEFINE rec == [app[a] EXCEPT !.pc = "connect"]
      <3>1. Becomes(a, rec) /\ UNCHANGED <<lock, path, proc, services, budget>> /\ stale' = stale
        BY <1>9, <2>1 DEF CheckVersion, daemonSide
      <3>2. rec \in AppState /\ rec.service = app[a].service /\ rec.pc = "connect"
        BY <1>2 DEF AppState, AppStates
      <3> HIDE DEF rec
      <3> QED
        BY <1>2, <3>1, <3>2, AppMoves
    <2>2. CASE ~version_compatible(Version[a], app[a].hello)
      <3>1. Ends(a, "skewed") /\ UNCHANGED daemonSide /\ budget' = budget
        BY <1>9, <2>2 DEF CheckVersion
      <3> QED
        BY <1>2, <3>1, EndsKeeps
    <2> QED
      BY <2>1, <2>2
  <1>10. CASE Connect(a)
    <2>1. CASE path \in Listening
      <3> DEFINE rec == [app[a] EXCEPT !.conn = path, !.pc = "open"]
      <3>1. Becomes(a, rec) /\ UNCHANGED <<lock, path, proc, services, budget>> /\ stale' = stale
        BY <1>10, <2>1 DEF Connect, daemonSide
      <3>2. rec \in AppState /\ rec.service = app[a].service /\ rec.conn \in Daemons
        BY <1>2, <1>4, <2>1 DEF AppState, AppStates
      <3> HIDE DEF rec
      <3> QED
        BY <1>2, <3>1, <3>2, AppMoves
    <2>2. CASE path \notin Listening
      <3>1. Ends(a, "failed") /\ UNCHANGED daemonSide /\ budget' = budget
        BY <1>10, <2>2 DEF Connect
      <3> QED
        BY <1>2, <3>1, EndsKeeps
    <2> QED
      BY <2>1, <2>2
  <1>11. CASE OpenRefused(a)
    <2>1. Ends(a, "failed") /\ UNCHANGED daemonSide /\ budget' = budget
      BY <1>11 DEF OpenRefused
    <2> QED
      BY <1>2, <2>1, EndsKeeps
  <1>12. CASE Attach(a)
    <2>1. CASE Becomes(a, [app[a] EXCEPT !.pc = "ready"]) /\ budget' = budget
      <3> DEFINE rec == [app[a] EXCEPT !.pc = "ready"]
      <3>1. Becomes(a, rec) /\ UNCHANGED <<lock, path, proc, services, budget>> /\ stale' = stale
        BY <1>12, <2>1 DEF Attach, daemonSide
      <3>2. rec \in AppState /\ rec.service = app[a].service /\ rec.conn \in Daemons
        BY <1>2, <1>3, <1>12 DEF Attach, AppState, AppStates
      <3> HIDE DEF rec
      <3> QED
        BY <1>2, <3>1, <3>2, AppMoves
    <2>2. CASE Ends(a, "failed") /\ budget' = budget
      <3>1. UNCHANGED daemonSide
        BY <1>12 DEF Attach
      <3> QED
        BY <1>2, <2>2, <3>1, EndsKeeps
    <2>3. CASE Spend("faults") /\ Becomes(a, LetsGo(a, "failed"))
      <3>1. UNCHANGED daemonSide /\ budget' \in [{"faults", "ensures"} -> Nat]
        BY <1>1, <1>12, <2>3, SpendType DEF Attach
      <3> QED
        BY <2>3, <3>1, FailsKeeps
    <2> QED
      BY <1>12, <2>1, <2>2, <2>3 DEF Attach
  <1>13. CASE Ensure(a)
    <2> DEFINE c == /\ \A d \in Running : proc[d].pc = "serving"
                    /\ path \notin {"file", "foreign"} /\ ~stale /\ app[a].service = Nothing
               rec == [LetsGo(a, "probe") EXCEPT !.calm = c]
    <2>1. /\ Becomes(a, rec)
          /\ Spend("ensures") /\ UNCHANGED <<lock, path, proc, services>> /\ stale' = stale
      BY <1>13, Zenon DEF Ensure, daemonSide
    <2>2. c \in BOOLEAN
      BY Zenon
    <2> HIDE DEF c
    <2>3. rec \in AppState /\ rec.service = app[a].service /\ rec.pc = "probe"
      <3>1. "probe" \in AppStates
        BY DEF AppStates
      <3> QED
        BY <1>1, <2>2, <3>1, LetsGoType
    <2>4. budget' \in [{"faults", "ensures"} -> Nat]
      BY <1>1, <2>1, SpendType
    <2> HIDE DEF rec
    <2> QED
      BY <2>1, <2>3, <2>4, AppMoves
  <1>14. CASE GiveUp(a)
    <2> DEFINE x == Observed(a)
               rec == [LetsGo(a, "failed") EXCEPT !.exited = x]
    <2>1. Becomes(a, rec) /\ UNCHANGED <<lock, path, proc, services, budget>> /\ stale' = stale
      BY <1>14 DEF GiveUp, daemonSide
    <2>2. x \in BOOLEAN
      <3>1. app[a].exited \in BOOLEAN
        BY <1>2 DEF AppState
      <3> QED
        BY <3>1, Zenon DEF Observed
    <2> HIDE DEF x
    <2>3. rec \in AppState /\ rec.service = app[a].service /\ rec.pc = "failed"
      <3>1. "failed" \in AppStates
        BY DEF AppStates
      <3> QED
        BY <1>1, <2>2, <3>1, LetsGoType
    <2> HIDE DEF rec
    <2> QED
      BY <1>2, <2>1, <2>3, AppMoves
  <1> QED
    BY <1>5, <1>6, <1>7, <1>8, <1>9, <1>10, <1>11, <1>12, <1>13, <1>14

(* Steps of app and daemon together keep the invariant if the lock and the   *)
(* path stay, no process advances past where it may be and no name is added. *)
LEMMA BothMove ==
  ASSUME LaunchInv, LaunchTypeOK', UNCHANGED <<lock, path>>,
         \A x \in Daemons : /\ proc[x].next <= proc'[x].next
                            /\ proc'[x].pc \in Holding => proc[x].pc \in Holding
                            /\ proc'[x].pc \in OnPath => proc[x].pc \in OnPath,
         Connected', services' \subseteq services,
         \A b \in Apps : app'[b].service \in {app[b].service, Nothing}
  PROVE  LaunchInv'
  <1>1. LaunchTypeOK /\ LockHeld /\ PathKept /\ Connected /\ NamesInv
    BY DEF LaunchInv
  <1>2. LockHeld' /\ PathKept'
    BY <1>1 DEF LockHeld, PathKept
  <1>3. ASSUME NEW n \in ServiceNames, Below(n, proc) PROVE Below(n, proc')
    <2>1. n.boot \in Daemons /\ n.id \in Nat
      BY DEF ServiceNames
    <2>2. proc[n.boot].next \in Nat /\ proc'[n.boot].next \in Nat
      BY <1>1, <2>1 DEF LaunchTypeOK, ProcState
    <2> QED
      BY <1>3, <2>1, <2>2 DEF Below
  <1>4. services \subseteq ServiceNames /\ \A b \in Apps : app[b].service \in ServiceNames \cup {Nothing}
    BY <1>1 DEF LaunchTypeOK, AppState
  <1>5. \A n \in services' : Below(n, proc')
    BY <1>1, <1>3, <1>4, NamesInvBelow
  <1>6. \A b \in Apps : app'[b].service # Nothing =>
           app'[b].service = app[b].service /\ Below(app[b].service, proc')
    BY <1>1, <1>3, <1>4, NamesInvBelow
  <1>7. NamesInv'
    <2>1. \A b, c \in Apps : app'[b].service = app'[c].service
             => b = c \/ app'[b].service = Nothing
      BY <1>1, <1>6, NamesInvBelow
    <2>2. \A b \in Apps : app'[b].service # Nothing => Below(app'[b].service, proc')
      BY <1>6
    <2> QED
      BY <1>5, <2>1, <2>2, NamesInvBelow
  <1> QED
    BY <1>2, <1>7 DEF LaunchInv

(* Spawning: the process is new and holds nothing.                           *)
LEMMA SpawnKeeps ==
  ASSUME LaunchInv, NEW a \in Apps, Spawn(a)
  PROVE  LaunchInv'
  <1>1. LaunchTypeOK /\ Connected
    BY DEF LaunchInv
  <1>2. /\ app[a] \in AppState /\ budget \in [{"faults", "ensures"} -> Nat]
        /\ proc \in [Daemons -> ProcState]
    BY <1>1 DEF LaunchTypeOK
  <1>3. UNCHANGED <<lock, path, services>> /\ stale' = stale
    BY DEF Spawn
  <1>4. CASE Spend("faults") /\ Becomes(a, LetsGo(a, "failed")) /\ proc' = proc
    <2>1. UNCHANGED daemonSide /\ budget' \in [{"faults", "ensures"} -> Nat]
      BY <1>1, <1>3, <1>4, SpendType DEF daemonSide
    <2> QED
      BY <1>4, <2>1, FailsKeeps
  <1>5. ASSUME NEW d \in Daemons, proc[d].pc = "unborn",
               proc' = [proc EXCEPT ![d].pc = "starting", ![d].version = Version[a]],
               Becomes(a, [app[a] EXCEPT !.child = d, !.pc = "probe"]),
               budget' = budget
        PROVE  LaunchInv'
    <2>1. /\ proc' \in [Daemons -> ProcState]
          /\ proc'[d].pc = "starting" /\ proc'[d].next = proc[d].next
          /\ \A x \in Daemons \ {d} : proc'[x] = proc[x]
      <3>1. Version[a] \in Versions /\ "starting" \in ProcStates
        BY DEF Versions, ProcStates
      <3> QED
        BY <1>2, <1>5, <3>1 DEF ProcState
    <2> DEFINE rec == [app[a] EXCEPT !.child = d, !.pc = "probe"]
    <2>2. rec \in AppState /\ rec.service = app[a].service /\ rec.pc = "probe"
      BY <1>2 DEF AppState, AppStates
    <2>3. Becomes(a, rec)
      BY <1>5
    <2> HIDE DEF rec
    <2>4. /\ app' \in [Apps -> AppState] /\ app'[a] = rec
          /\ \A b \in Apps \ {a} : app'[b] = app[b]
      BY <1>1, <2>2, <2>3 DEF LaunchTypeOK, Becomes
    <2>5. LaunchTypeOK'
      BY <1>1, <1>3, <1>5, <2>1, <2>4 DEF LaunchTypeOK
    <2>6. Connected'
      BY <1>1, <2>2, <2>4 DEF Connected
    <2>7. \A x \in Daemons : /\ proc[x].next <= proc'[x].next
                             /\ proc'[x].pc \in Holding => proc[x].pc \in Holding
                             /\ proc'[x].pc \in OnPath => proc[x].pc \in OnPath
      BY <1>2, <2>1 DEF ProcState, Holding, OnPath
    <2> QED
      BY <1>3, <2>2, <2>4, <2>5, <2>6, <2>7, BothMove
  <1> QED
    BY <1>4, <1>5 DEF Spawn

(* Opening a client: the name is fresh, whoever served the path before.      *)
LEMMA OpenClientKeeps ==
  ASSUME LaunchInv, NEW a \in Apps, OpenClient(a)
  PROVE  LaunchInv'
  <1> DEFINE d == app[a].conn
             name == DataServiceName(d)
  <1>1. LaunchTypeOK /\ LockHeld /\ PathKept /\ Connected /\ NamesInv
    BY DEF LaunchInv
  <1>2. /\ app \in [Apps -> AppState] /\ proc \in [Daemons -> ProcState]
        /\ services \subseteq ServiceNames /\ app[a] \in AppState
    BY <1>1 DEF LaunchTypeOK
  <1>3. d \in Daemons
    BY <1>1 DEF OpenClient, Connected
  <1>4. /\ UNCHANGED <<lock, path>> /\ stale' = stale
        /\ \/ Ends(a, "failed") /\ UNCHANGED <<proc, services, budget>>
           \/ /\ Spend("faults") /\ Becomes(a, LetsGo(a, "failed"))
              /\ UNCHANGED <<proc, services>>
           \/ /\ proc' = [proc EXCEPT ![d].next = @ + 1] /\ budget' = budget
              /\ services' = services \cup {name}
              /\ Becomes(a, [app[a] EXCEPT !.pc = "attach", !.service = name])
    BY DEF OpenClient
  <1>5. name \in ServiceNames /\ name.boot = d /\ name.id = proc[d].next
    BY <1>2, <1>3 DEF DataServiceName, effective_service_prefix, ServiceNames, ProcState
  <1>6. CASE Ends(a, "failed") /\ UNCHANGED <<proc, services, budget>>
    <2>1. UNCHANGED daemonSide /\ budget' \in [{"faults", "ensures"} -> Nat]
      BY <1>1, <1>4, <1>6 DEF daemonSide, LaunchTypeOK
    <2> QED
      BY <1>6, <2>1, EndsKeeps
  <1>7. CASE /\ Spend("faults") /\ Becomes(a, LetsGo(a, "failed"))
             /\ UNCHANGED <<proc, services>>
    <2>1. UNCHANGED daemonSide /\ budget' \in [{"faults", "ensures"} -> Nat]
      BY <1>1, <1>4, <1>7, SpendType DEF daemonSide
    <2> QED
      BY <1>7, <2>1, FailsKeeps
  <1> HIDE DEF name
  <1>8. CASE /\ proc' = [proc EXCEPT ![d].next = @ + 1] /\ budget' = budget
             /\ services' = services \cup {name}
             /\ Becomes(a, [app[a] EXCEPT !.pc = "attach", !.service = name])
    <2>1. /\ proc' \in [Daemons -> ProcState]
          /\ proc'[d].next = proc[d].next + 1 /\ proc[d].next \in Nat
          /\ \A x \in Daemons : proc'[x].pc = proc[x].pc /\ proc[x].next <= proc'[x].next
      BY <1>2, <1>3, <1>8 DEF ProcState
    <2> DEFINE rec == [app[a] EXCEPT !.pc = "attach", !.service = name]
    <2>2. rec \in AppState /\ rec.service = name /\ rec.conn = d
      BY <1>2, <1>5 DEF AppState, AppStates
    <2>3. Becomes(a, rec)
      BY <1>8
    <2> HIDE DEF rec
    <2>4. /\ app' \in [Apps -> AppState] /\ app'[a] = rec
          /\ \A b \in Apps \ {a} : app'[b] = app[b]
      BY <1>2, <2>2, <2>3 DEF Becomes
    <2>5. LaunchTypeOK'
      BY <1>1, <1>2, <1>4, <1>5, <2>1, <1>8, <2>4 DEF LaunchTypeOK
    <2>6. LockHeld' /\ PathKept'
      BY <1>1, <1>4, <2>1 DEF LockHeld, PathKept
    <2>7. Connected'
      BY <1>1, <1>3, <2>2, <2>4 DEF Connected
    <2>8. ASSUME NEW n \in ServiceNames, Below(n, proc) PROVE Below(n, proc') /\ n # name
      <3>1. n.boot \in Daemons /\ n.id \in Nat
        BY DEF ServiceNames
      <3>2. proc[n.boot].next \in Nat /\ proc'[n.boot].next \in Nat
        BY <1>2, <2>1, <3>1 DEF ProcState
      <3>3. Below(n, proc')
        BY <2>1, <2>8, <3>1, <3>2 DEF Below
      <3>4. n # name
        BY <1>5, <2>8, <3>1, <3>2 DEF Below
      <3> QED
        BY <3>3, <3>4
    <2>9. Below(name, proc')
      BY <1>3, <1>5, <2>1 DEF Below
    <2>10. \A b \in Apps : app[b].service \in ServiceNames \cup {Nothing}
      BY <1>2 DEF AppState
    <2>11. \A b \in Apps \ {a} : app'[b].service # Nothing =>
              Below(app'[b].service, proc') /\ app'[b].service # name
      BY <1>1, <2>4, <2>8, <2>10, NamesInvBelow
    <2>12. NamesInv'
      <3>1. \A n \in services' : Below(n, proc')
        BY <1>1, <1>2, <1>8, <2>8, <2>9, NamesInvBelow
      <3>2. \A b \in Apps : app'[b].service # Nothing => Below(app'[b].service, proc')
        BY <2>2, <2>4, <2>9, <2>11
      <3>3. \A b, c \in Apps : app'[b].service = app'[c].service
               => b = c \/ app'[b].service = Nothing
        BY <1>1, <2>2, <2>4, <2>11, NamesInvBelow
      <3> QED
        BY <3>1, <3>2, <3>3, NamesInvBelow
    <2> QED
      BY <2>5, <2>6, <2>7, <2>12 DEF LaunchInv
  <1> QED
    BY <1>4, <1>6, <1>7, <1>8

(* A handle is given up, with or without the daemon behind it.               *)
LEMMA CloseKeeps ==
  ASSUME LaunchInv, NEW a \in Apps, Close(a) \/ Disconnected(a) \/ ShutdownDaemon(a)
  PROVE  LaunchInv'
  <1>1. LaunchTypeOK /\ Connected
    BY DEF LaunchInv
  <1>2. /\ app \in [Apps -> AppState] /\ proc \in [Daemons -> ProcState]
        /\ \A b \in Apps : app[b] \in AppState
    BY <1>1 DEF LaunchTypeOK
  <1>3. AtRest("done") \in AppState /\ AtRest("done").service = Nothing
        /\ AtRest("done").pc = "done"
    BY DEF AtRest, AppState, AppStates, Versions
  <1>4. ASSUME NEW rec \in AppState, Becomes(a, rec),
               rec.service \in {app[a].service, Nothing},
               rec.pc \notin {"await", "open", "attach", "ready"} \/ rec.conn \in Daemons,
               UNCHANGED <<lock, path, proc, budget>>, stale' = stale,
               services' \subseteq services
        PROVE  LaunchInv'
    <2>1. /\ app' \in [Apps -> AppState] /\ app'[a] = rec
          /\ \A b \in Apps \ {a} : app'[b] = app[b]
      BY <1>2, <1>4 DEF Becomes
    <2>2. LaunchTypeOK'
      BY <1>1, <1>4, <2>1 DEF LaunchTypeOK
    <2>3. Connected'
      BY <1>1, <1>4, <2>1 DEF Connected
    <2>4. \A b \in Apps : app'[b].service \in {app[b].service, Nothing}
      BY <1>4, <2>1
    <2>5. \A x \in Daemons : proc[x].next \in Nat
      BY <1>2 DEF ProcState
    <2> QED
      BY <1>4, <2>1, <2>2, <2>3, <2>4, <2>5, BothMove
  <1>5. CASE Close(a)
    <2>1. UNCHANGED <<lock, path, proc, budget>> /\ stale' = stale /\ services' \subseteq services
      BY <1>5 DEF Close, WithoutOwn
    <2>2. CASE Becomes(a, AtRest("done"))
      BY <1>3, <1>4, <2>1, <2>2
    <2>3. CASE Becomes(a, LetsGo(a, "done"))
      <3>1. "done" \in AppStates /\ FALSE \in BOOLEAN
        BY DEF AppStates
      <3>2. /\ LetsGo(a, "done") \in AppState /\ LetsGo(a, "done").service = app[a].service
            /\ LetsGo(a, "done").pc = "done"
        BY <1>1, <3>1, LetsGoType
      <3> QED
        BY <1>4, <2>1, <2>3, <3>2
    <2> QED
      BY <1>5, <2>2, <2>3 DEF Close
  <1>6. CASE Disconnected(a)
    <2> DEFINE rec == [app[a] EXCEPT !.service = Nothing]
    <2>1. /\ UNCHANGED <<lock, path, proc, budget>> /\ stale' = stale
          /\ services' \subseteq services /\ Becomes(a, rec)
      BY <1>6 DEF Disconnected, WithoutOwn
    <2>2. rec \in AppState /\ rec.service = Nothing /\ rec.pc = app[a].pc /\ rec.conn = app[a].conn
      BY <1>2 DEF AppState
    <2>3. rec.pc \notin {"await", "open", "attach", "ready"} \/ rec.conn \in Daemons
      BY <1>1, <2>2 DEF Connected
    <2> HIDE DEF rec
    <2> QED
      BY <1>4, <2>1, <2>2, <2>3
  <1>7. CASE ShutdownDaemon(a)
    <2> DEFINE d == app[a].conn
    <2>1. d \in Daemons /\ proc[d].pc = "serving"
      BY <1>1, <1>7 DEF ShutdownDaemon, Connected
    <2>2. /\ UNCHANGED <<lock, path, services>> /\ stale' = stale
          /\ Goes(d, "stopping")
          /\ app' = [b \in Apps |-> IF b = a THEN AtRest("done")
                                    ELSE [app[b] EXCEPT !.calm = FALSE]]
          /\ Spend("faults")
      BY <1>7 DEF ShutdownDaemon
    <2> HIDE DEF d
    <2>3. budget' \in [{"faults", "ensures"} -> Nat]
      BY <1>1, <2>2, SpendType
    <2>4. /\ proc' \in [Daemons -> ProcState] /\ proc'[d].pc = "stopping"
          /\ \A x \in Daemons \ {d} : proc'[x].pc = proc[x].pc
          /\ \A x \in Daemons : proc'[x].next = proc[x].next
      <3>1. "stopping" \in ProcStates
        BY DEF ProcStates, Holding
      <3> QED
        BY <1>1, <2>1, <2>2, <3>1, GoesKeeps
    <2>5. ASSUME NEW s \in AppState
          PROVE  /\ [s EXCEPT !.calm = FALSE] \in AppState
                 /\ [s EXCEPT !.calm = FALSE].pc = s.pc
                 /\ [s EXCEPT !.calm = FALSE].conn = s.conn
                 /\ [s EXCEPT !.calm = FALSE].service = s.service
      BY DEF AppState
    <2>6. /\ app' \in [Apps -> AppState] /\ app'[a] = AtRest("done")
          /\ \A b \in Apps \ {a} : /\ app'[b].pc = app[b].pc
                                   /\ app'[b].conn = app[b].conn
                                   /\ app'[b].service = app[b].service
      BY <1>2, <1>3, <2>2, <2>5
    <2>7. LaunchTypeOK'
      BY <1>1, <2>2, <2>3, <2>4, <2>6 DEF LaunchTypeOK
    <2>8. Connected'
      BY <1>1, <1>3, <2>6 DEF Connected
    <2>9. \A b \in Apps : app'[b].service \in {app[b].service, Nothing}
      BY <1>3, <2>6
    <2>10. \A x \in Daemons : /\ proc[x].next <= proc'[x].next
                              /\ proc'[x].pc \in Holding => proc[x].pc \in Holding
                              /\ proc'[x].pc \in OnPath => proc[x].pc \in OnPath
      <3>1. \A x \in Daemons : proc[x].next \in Nat
        BY <1>2 DEF ProcState
      <3> QED
        BY <2>1, <2>4, <3>1 DEF Holding, OnPath
    <2> QED
      BY <2>2, <2>7, <2>8, <2>9, <2>10, BothMove
  <1> QED
    BY <1>5, <1>6, <1>7

(***************************************************************************)
(* The invariant of launching holds throughout: whoever is past the lock    *)
(* holds it, its socket is at the path while it serves, and names are used  *)
(* once.                                                                    *)
(***************************************************************************)
THEOREM LaunchCorrect == LaunchSpec => []LaunchInv
  <1>1. LaunchInit => LaunchInv
    BY InitLaunchInv
  <1>2. LaunchInv /\ [LaunchNext]_launchVars => LaunchInv'
    <2> SUFFICES ASSUME LaunchInv, [LaunchNext]_launchVars PROVE LaunchInv'
      OBVIOUS
    <2>1. ASSUME NEW d \in Daemons,
                 DaemonStep(d) \/ BootFails(d) \/ WebFails(d) \/ Stop(d) \/ Crash(d)
          PROVE  LaunchInv'
      BY <2>1, DaemonKeeps
    <2>2. CASE OperatorRecovers
      <3>1. stale' \in BOOLEAN
        BY <2>2, Zenon DEF OperatorRecovers
      <3>2. UNCHANGED <<lock, path, proc, services, app, budget>>
        BY <2>2 DEF OperatorRecovers
      <3> QED
        BY <3>1, <3>2 DEF LaunchInv, LaunchTypeOK, LockHeld, PathKept, Connected, NamesInv, Numbered
    <2>3. ASSUME NEW a \in Apps,
                 \/ AppStep(a) \/ Ensure(a) \/ GiveUp(a)
                 \/ Close(a) \/ Disconnected(a) \/ ShutdownDaemon(a)
          PROVE  LaunchInv'
      BY <2>3, AppKeeps, SpawnKeeps, OpenClientKeeps, CloseKeeps DEF AppStep
    <2>4. CASE UNCHANGED launchVars
      <3>1. UNCHANGED <<lock, path, proc, services, app, budget>> /\ stale' = stale
        BY <2>4 DEF launchVars
      <3> QED
        BY <3>1 DEF LaunchInv, LaunchTypeOK, LockHeld, PathKept, Connected, NamesInv, Numbered
    <2> QED
      BY <2>1, <2>2, <2>3, <2>4 DEF LaunchNext
  <1> QED
    BY <1>1, <1>2, PTL DEF LaunchSpec

(* A serving daemon holds the instance lock and owns the control path.      *)
THEOREM ServesAloneCorrect == LaunchSpec => []ServesAlone
  <1>1. LaunchInv => ServesAlone
    BY DEF LaunchInv, LockHeld, PathKept, ServesAlone, Holding, OnPath
  <1> QED
    BY <1>1, LaunchCorrect, PTL

(* No two handles share a data service, and the next name a daemon uses is  *)
(* free, whatever a dead predecessor left on the host.                      *)
THEOREM OwnServiceCorrect == LaunchSpec => []OwnService
  <1>1. LaunchInv => OwnService
    <2> SUFFICES ASSUME LaunchInv PROVE OwnService
      OBVIOUS
    <2>1. ASSUME NEW d \in Daemons, DataServiceName(d) \in services PROVE FALSE
      <3>1. proc[d].next < proc[d].next /\ proc[d].next \in Nat
        BY <2>1 DEF LaunchInv, NamesInv, Numbered, DataServiceName,
                    effective_service_prefix, LaunchTypeOK, ProcState
      <3> QED
        BY <3>1
    <2> QED
      BY <2>1 DEF LaunchInv, NamesInv, OwnService
  <1> QED
    BY <1>1, LaunchCorrect, PTL

=============================================================================

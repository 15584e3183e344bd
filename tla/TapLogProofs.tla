---------------------------- MODULE TapLogProofs ----------------------------
(***************************************************************************)
(* Machine-checked proofs about TapLog: for any streams, any requests and  *)
(* any number of events, flushes, faults and crashes, what a flush()       *)
(* promised is on disk, no loss goes unreported, and a replay is faithful. *)
(***************************************************************************)
EXTENDS TapLog, TLAPS

(* What a sequence over T holds is in T.                                    *)
LEMMA SeqElements ==
  ASSUME NEW T, NEW q \in Seq(T)
  PROVE  \A i \in 1 .. Len(q) : q[i] \in T
  OBVIOUS

(* The writer before it is opened and after it is gone.                     *)
LEMMA NoWriterType ==
  /\ NoWriter \in Task({}) /\ DOMAIN NoWriter.shards = {}
  /\ NoWriter.pc = "closed" /\ NoWriter.current = 0 /\ NoWriter.tx = {}
  /\ NoWriter.tx_open = FALSE
  BY DEF NoWriter, Task

(* A batch is committed whole: its rows, and the counters with them.        *)
LEMMA CommitType ==
  ASSUME TypeOK
  PROVE  /\ Committed \in File(DOMAIN disk.streams)
         /\ Committed.streams = disk.streams /\ Committed.tables = disk.tables
         /\ Committed.rows = IF writer.tx_open THEN disk.rows \cup writer.tx ELSE disk.rows
         /\ Committed.meta.next_ord = IF writer.tx_open THEN writer.next_ord
                                      ELSE disk.meta.next_ord
  BY DEF TypeOK, File, Task, Committed

(* Ending the batch leaves the rest of the writer alone.                    *)
LEMMA ClosedType ==
  ASSUME TypeOK
  PROVE  /\ Closed \in Task(DOMAIN writer.shards) /\ Closed.shards = writer.shards
         /\ Closed.tx = {} /\ Closed.pc = writer.pc /\ Closed.current = writer.current
         /\ Closed.next_ord = writer.next_ord /\ Closed.next_shard = writer.next_shard
         /\ Closed.last_error = writer.last_error
  BY DEF TypeOK, Task, Closed

(* A statement that failed: the task goes on with the error remembered.     *)
LEMMA FailedType ==
  ASSUME NEW S, NEW w \in Task(S)
  PROVE  /\ Failed(w) \in Task(S) /\ Failed(w).shards = w.shards
         /\ Failed(w).tx = w.tx /\ Failed(w).tx_open = w.tx_open
         /\ Failed(w).pc = "drain" /\ Failed(w).current = 0
         /\ Failed(w).last_error = TRUE
         /\ Failed(w).next_ord = w.next_ord /\ Failed(w).next_shard = w.next_shard
  BY DEF Task, Failed

(* A queue that loses its head or gains a command stays one.                *)
LEMMA QueueType ==
  ASSUME TypeOK
  PROVE  /\ queue # <<>> => /\ Head(queue) \in Cmd /\ Tail(queue) \in Seq(Cmd)
                            /\ Len(Tail(queue)) = Len(queue) - 1
                            /\ \A i \in 1 .. Len(queue) - 1 : Tail(queue)[i] = queue[i + 1]
                            /\ Head(queue) = queue[1] /\ Len(queue) \in Nat /\ Len(queue) >= 1
         /\ \A c \in Cmd : /\ Append(queue, c) \in Seq(Cmd)
                           /\ Len(Append(queue, c)) = Len(queue) + 1
                           /\ \A i \in 1 .. Len(queue) : Append(queue, c)[i] = queue[i]
                           /\ Append(queue, c)[Len(queue) + 1] = c
         /\ \A i \in 1 .. Len(queue) : queue[i] \in Cmd /\ queue[i].n \in Nat
  <1>1. queue \in Seq(Cmd)
    BY DEF TypeOK
  <1>2. \A i \in 1 .. Len(queue) : queue[i] \in Cmd
    BY <1>1
  <1>3. \A i \in 1 .. Len(queue) : queue[i].n \in Nat
    BY <1>2 DEF Cmd
  <1> QED
    BY <1>1, <1>2, <1>3

(* Statements take effect or fail; the bound on failures stays a number.    *)
LEMMA FaultType ==
  ASSUME TypeOK, NEW ok \in BOOLEAN, execute_retry(ok)
  PROVE  faults' \in Nat
  BY DEF TypeOK, execute_retry

(* The outcome of a commit, and of what a step does with the file if it     *)
(* fails: nothing.                                                          *)
LEMMA CommitOutcome ==
  ASSUME TypeOK, NEW ok \in BOOLEAN, commit_if_open(ok)
  PROVE  /\ faults' \in Nat
         /\ disk' \in {disk, Committed}
         /\ ok => disk' = Committed
         /\ disk' \in File(DOMAIN disk.streams) /\ disk'.streams = disk.streams
         /\ disk'.tables = disk.tables
  <1>1. disk' \in {disk, Committed} /\ (ok => disk' = Committed) /\ execute_retry(ok)
    BY DEF commit_if_open
  <1>2. disk \in File(DOMAIN disk.streams)
    BY DEF TypeOK
  <1> QED
    BY <1>1, <1>2, CommitType, FaultType

(* The initial states are well typed.                                       *)
LEMMA InitTypeOK == Init => TypeOK
  <1> SUFFICES ASSUME Init PROVE TypeOK
    OBVIOUS
  <1>1. writer \in Task(DOMAIN writer.shards) /\ DOMAIN writer.shards \subseteq Streams
    BY NoWriterType DEF Init
  <1>2. DOMAIN disk.streams = {} /\ disk \in File({})
    <2>1. PICK v \in Files :
            disk = [version |-> v, schema |-> {}, meta |-> [next_shard |-> 0, next_ord |-> 0],
                    tables |-> {}, rows |-> {}, streams |-> <<>>]
      BY DEF Init
    <2>2. v \in Nat /\ <<>> \in [{} -> Nat] /\ DOMAIN <<>> = {}
      BY TapLogAssumption
    <2> QED
      BY <2>1, <2>2 DEF File
  <1>3. reader \in [pc : {"idle", "scan"}, request : Nat,
                    regs : SUBSET [stream : Streams, shard : Nat, from : Int, to : Int],
                    rows : SUBSET [ord : Nat, n : Nat, stream : Streams]]
    BY DEF Init, NoReader
  <1> QED
    BY <1>1, <1>2, <1>3 DEF Init, TypeOK

(* The number recomputed at open is past every table, and past what was     *)
(* persisted.                                                               *)
LEMMA RecomputeIs ==
  ASSUME TypeOK, Registered, NEW p \in Nat
  PROVE  /\ recompute_next_shard(p) \in Nat /\ p <= recompute_next_shard(p)
         /\ \A t \in disk.tables : t < recompute_next_shard(p)
  <1> DEFINE S == {p} \cup {t + 1 : t \in disk.tables}
  <1>1. disk.tables \subseteq Nat
    BY DEF TypeOK, File
  <1>2. S \subseteq Nat
    BY <1>1
  <1>3. \E x \in S : \A y \in S : x >= y
    <2>1. CASE disk.tables = {}
      BY <2>1
    <2>2. CASE disk.tables # {}
      <3>1. PICK m \in disk.tables : \A t \in disk.tables : t <= m
        BY <2>2 DEF Registered
      <3>2. CASE p >= m + 1
        <4>1. \A y \in S : p >= y
          BY <1>1, <3>1, <3>2
        <4> QED
          BY <4>1
      <3>3. CASE m + 1 >= p
        <4>1. m + 1 \in S /\ \A y \in S : m + 1 >= y
          BY <1>1, <3>1, <3>3
        <4> QED
          BY <4>1
      <3> QED
        BY <1>1, <3>2, <3>3
    <2> QED
      BY <2>1, <2>2
  <1>4. \A t \in disk.tables : t + 1 \in S
    OBVIOUS
  <1>5. p \in S
    OBVIOUS
  <1> HIDE DEF S
  <1>6. Max(S) \in S /\ \A y \in S : Max(S) >= y
    BY <1>3, Zenon DEF Max
  <1>7. recompute_next_shard(p) = Max(S)
    BY DEF recompute_next_shard, S
  <1>8. ASSUME NEW m \in S, \A y \in S : m >= y
        PROVE  m \in Nat /\ p <= m /\ \A t \in disk.tables : t < m
    <2>1. m \in Nat
      BY <1>2
    <2>2. \A t \in disk.tables : m >= t + 1
      BY <1>4, <1>8
    <2> QED
      BY <1>1, <1>5, <1>8, <2>1, <2>2
  <1> QED
    BY <1>6, <1>7, <1>8, Zenon

(* Opening the file keeps the types.                                        *)
LEMMA OpenType ==
  ASSUME TypeOK, Registered, NEW ok \in BOOLEAN,
         \/ preflight_user_version \/ CreateSchema(ok) \/ stamp_user_version(ok)
         \/ LoadAndSpawn \/ WriterExits \/ DropLog
  PROVE  TypeOK'
  <1>1. /\ DOMAIN disk.streams \subseteq Streams /\ disk \in File(DOMAIN disk.streams)
        /\ DOMAIN writer.shards \subseteq Streams /\ writer \in Task(DOMAIN writer.shards)
        /\ UNCHANGED <<queue, reader, sent, flushes, promised, crashes>>
        /\ faults \in Nat /\ since \in Nat /\ Len(sent) \in Nat
    BY DEF TypeOK, preflight_user_version, CreateSchema, stamp_user_version, LoadAndSpawn,
           WriterExits, DropLog, history
  <1>2. since' \in Nat /\ faults' \in Nat
    BY <1>1, FaultType
       DEF TypeOK, preflight_user_version, CreateSchema, stamp_user_version, LoadAndSpawn,
           WriterExits, DropLog, history
  <1>3. /\ disk' \in File(DOMAIN disk.streams) /\ disk'.streams = disk.streams
    <2>1. CASE CreateSchema(ok)
      <3> DEFINE missing == IF "meta" \in disk.schema THEN "streams" ELSE "meta"
      <3>1. disk' = disk \/ disk' = [disk EXCEPT !.schema = @ \cup {missing}]
        BY <2>1 DEF CreateSchema
      <3>2. missing \in Tables
        BY DEF Tables
      <3> HIDE DEF missing
      <3> QED
        BY <1>1, <3>1, <3>2 DEF File
    <2>2. CASE stamp_user_version(ok)
      <3>1. disk' = disk \/ disk' = [disk EXCEPT !.version = TAP_SCHEMA_VERSION]
        BY <2>2 DEF stamp_user_version
      <3> QED
        BY <1>1, <3>1 DEF File, TAP_SCHEMA_VERSION
    <2>3. CASE ~CreateSchema(ok) /\ ~stamp_user_version(ok)
      <3>1. disk' = disk
        BY <2>3 DEF preflight_user_version, LoadAndSpawn, WriterExits, DropLog
      <3> QED
        BY <1>1, <3>1
    <2> QED
      BY <2>1, <2>2, <2>3
  <1>4. /\ DOMAIN writer'.shards \subseteq Streams /\ writer' \in Task(DOMAIN writer'.shards)
    <2>1. CASE preflight_user_version
      <3> DEFINE f == (disk.version = 0)
      <3>1. f \in BOOLEAN
        BY Zenon
      <3>2. writer' = [NoWriter EXCEPT !.pc = "schema", !.fresh = f, !.held = TRUE]
        BY <2>1 DEF preflight_user_version
      <3> HIDE DEF f
      <3>3. writer' \in Task({}) /\ writer'.shards = NoWriter.shards
        BY <3>1, <3>2, NoWriterType DEF Task
      <3> QED
        BY <3>3, NoWriterType
    <2>2. CASE CreateSchema(ok) \/ stamp_user_version(ok)
      <3>1. \/ writer' = NoWriter
            \/ \E pc \in {"schema", "stamp", "load"} : writer' = [writer EXCEPT !.pc = pc]
        BY <2>2 DEF CreateSchema, stamp_user_version
      <3>2. \A pc \in {"schema", "stamp", "load"} :
               /\ [writer EXCEPT !.pc = pc] \in Task(DOMAIN writer.shards)
               /\ [writer EXCEPT !.pc = pc].shards = writer.shards
        BY <1>1 DEF Task
      <3> QED
        BY <1>1, <3>1, <3>2, NoWriterType
    <2>3. CASE LoadAndSpawn
      <3> DEFINE k == recompute_next_shard(disk.meta.next_shard)
                 o == disk.meta.next_ord
                 m == disk.streams
      <3>1. writer' = [writer EXCEPT !.pc = "recv", !.next_shard = k, !.next_ord = o, !.shards = m]
        BY <2>3 DEF LoadAndSpawn
      <3>2. k \in Nat
        <4>1. disk.meta.next_shard \in Nat
          BY <1>1 DEF File
        <4> QED
          BY <4>1, RecomputeIs
      <3>3. o \in Nat /\ m \in [DOMAIN m -> Nat] /\ DOMAIN m \subseteq Streams
        BY <1>1 DEF File
      <3> HIDE DEF k, o, m
      <3>4. writer' \in Task(DOMAIN m) /\ writer'.shards = m
        BY <1>1, <3>1, <3>2, <3>3 DEF Task
      <3> QED
        BY <3>3, <3>4
    <2>4. CASE WriterExits
      BY <2>4, NoWriterType DEF WriterExits
    <2>5. CASE DropLog
      <3>1. writer' = [writer EXCEPT !.held = FALSE]
        BY <2>5 DEF DropLog
      <3>2. writer' \in Task(DOMAIN writer.shards) /\ writer'.shards = writer.shards
        BY <1>1, <3>1 DEF Task
      <3> QED
        BY <1>1, <3>2
    <2> QED
      BY <2>1, <2>2, <2>3, <2>4, <2>5
  <1> QED
    BY <1>1, <1>2, <1>3, <1>4 DEF TypeOK

(* The callers and the reader keep the types.                               *)
LEMMA CallerType ==
  ASSUME TypeOK,
         \/ \E s \in Streams \cup Untaggable \cup {Control} : append(s)
         \/ flush \/ (\E r \in Requests : ScanRegistry(r))
         \/ (\E g \in reader.regs : ScanShard(g)) \/ EndReplay \/ Crash
  PROVE  TypeOK'
  <1>1. /\ sent \in Seq(Streams \cup Untaggable \cup {Control}) /\ Len(sent) \in Nat
        /\ flushes \in Seq([answer : {"none", "ok", "err", "dead"}, mark : Nat])
        /\ Len(flushes) \in Nat /\ queue \in Seq(Cmd)
    BY DEF TypeOK
  <1>2. CASE \E s \in Streams \cup Untaggable \cup {Control} : append(s)
    <2>1. PICK s \in Streams \cup Untaggable \cup {Control} : append(s)
      BY <1>2
    <2>2. sent' \in Seq(Streams \cup Untaggable \cup {Control})
      BY <1>1, <2>1 DEF append
    <2>3. queue' \in Seq(Cmd)
      BY <1>1, <2>1 DEF append, Event, Cmd
    <2>4. UNCHANGED <<disk, writer, reader, flushes, since, promised, faults, crashes>>
      BY <2>1 DEF append, history
    <2> QED
      BY <2>2, <2>3, <2>4 DEF TypeOK
  <1>3. CASE flush
    <2>1. flushes' \in Seq([answer : {"none", "ok", "err", "dead"}, mark : Nat])
      BY <1>1, <1>3 DEF flush
    <2>2. queue' \in Seq(Cmd)
      BY <1>1, <1>3 DEF flush, Flush, Cmd
    <2>3. UNCHANGED <<disk, writer, reader, sent, since, promised, faults, crashes>>
      BY <1>3 DEF flush, history
    <2> QED
      BY <2>1, <2>2, <2>3 DEF TypeOK
  <1>4. CASE Crash
    <2>1. /\ UNCHANGED <<disk, sent, since, promised, faults>> /\ writer' = NoWriter
          /\ queue' = <<>> /\ reader' = [NoReader EXCEPT !.request = reader.request]
          /\ crashes' = crashes + 1
      BY <1>4 DEF Crash, history
    <2>2. flushes' \in Seq([answer : {"none", "ok", "err", "dead"}, mark : Nat])
      <3>1. \A f \in 1 .. Len(flushes) :
               flushes[f] \in [answer : {"none", "ok", "err", "dead"}, mark : Nat]
        BY <1>1, SeqElements, Zenon
      <3>2. flushes' = [f \in 1 .. Len(flushes) |->
                     IF flushes[f].answer = "none" THEN [flushes[f] EXCEPT !.answer = "dead"] ELSE flushes[f]]
        BY <1>1, <1>4 DEF Crash
      <3>3. \A f \in 1 .. Len(flushes) :
               flushes'[f] \in [answer : {"none", "ok", "err", "dead"}, mark : Nat]
        BY <3>1, <3>2
      <3> QED
        BY <1>1, <3>2, <3>3
    <2>3. reader' \in [pc : {"idle", "scan"}, request : Nat,
                       regs : SUBSET [stream : Streams, shard : Nat, from : Int, to : Int],
                       rows : SUBSET [ord : Nat, n : Nat, stream : Streams]]
      BY <2>1 DEF TypeOK, NoReader
    <2>4. writer' \in Task(DOMAIN writer'.shards) /\ DOMAIN writer'.shards \subseteq Streams
      BY <2>1, NoWriterType
    <2>5. queue' \in Seq(Cmd) /\ crashes' \in Nat
      BY <2>1 DEF TypeOK
    <2>6. UNCHANGED <<disk, sent, since, promised, faults>>
      BY <2>1
    <2> QED
      BY <2>2, <2>3, <2>4, <2>5, <2>6 DEF TypeOK
  <1>5. CASE \E r \in Requests : ScanRegistry(r)
    <2>1. PICK r \in Requests : ScanRegistry(r)
      BY <1>5
    <2>2. r.from \in Int /\ r.to \in Int
      BY TapLogAssumption
    <2> DEFINE S == {t \in DOMAIN disk.streams : r.streams = {} \/ t \in r.streams}
               R == {[stream |-> s, shard |-> disk.streams[s], from |-> r.from, to |-> r.to] : s \in S}
    <2>3. \A s \in S : s \in Streams /\ disk.streams[s] \in Nat
      BY DEF TypeOK, File
    <2>4. R \in SUBSET [stream : Streams, shard : Nat, from : Int, to : Int]
      BY <2>2, <2>3
    <2>5. /\ reader'.pc = "scan" /\ reader'.request = reader.request + 1 /\ reader'.rows = {}
          /\ reader'.regs \in {{}, R}
          /\ reader' = [pc |-> reader'.pc, request |-> reader'.request, rows |-> reader'.rows, regs |-> reader'.regs]
      BY <2>1 DEF ScanRegistry
    <2> HIDE DEF R
    <2>6. reader' \in [pc : {"idle", "scan"}, request : Nat,
                       regs : SUBSET [stream : Streams, shard : Nat, from : Int, to : Int],
                       rows : SUBSET [ord : Nat, n : Nat, stream : Streams]]
      BY <2>4, <2>5 DEF TypeOK
    <2>7. UNCHANGED <<disk, writer, queue, sent, flushes, since, promised, faults, crashes>>
      BY <2>1 DEF ScanRegistry, history
    <2> QED
      BY <2>6, <2>7 DEF TypeOK
  <1>6. CASE \E g \in reader.regs : ScanShard(g)
    <2>1. PICK g \in reader.regs : ScanShard(g)
      BY <1>6
    <2> DEFINE W == {w \in disk.rows : w.shard = g.shard /\ g.from <= Stamp[w.n] /\ Stamp[w.n] < g.to}
               R == {[ord |-> row.ord, n |-> row.n, stream |-> g.stream] : row \in W}
    <2>2. /\ \A row \in W : row.ord \in Nat /\ row.n \in Nat
          /\ g.stream \in Streams
      BY DEF TypeOK, File, Row
    <2>3. R \subseteq [ord : Nat, n : Nat, stream : Streams]
      BY <2>2
    <2>4. reader' = [reader EXCEPT !.regs = @ \ {g}, !.rows = @ \cup R]
      BY <2>1 DEF ScanShard
    <2> HIDE DEF R
    <2>5. reader' \in [pc : {"idle", "scan"}, request : Nat,
                       regs : SUBSET [stream : Streams, shard : Nat, from : Int, to : Int],
                       rows : SUBSET [ord : Nat, n : Nat, stream : Streams]]
      BY <2>3, <2>4 DEF TypeOK
    <2>6. UNCHANGED <<disk, writer, queue, sent, flushes, since, promised, faults, crashes>>
      BY <2>1 DEF ScanShard, history
    <2> QED
      BY <2>5, <2>6 DEF TypeOK
  <1>7. CASE EndReplay
    <2>1. reader' \in [pc : {"idle", "scan"}, request : Nat,
                       regs : SUBSET [stream : Streams, shard : Nat, from : Int, to : Int],
                       rows : SUBSET [ord : Nat, n : Nat, stream : Streams]]
      BY <1>7 DEF TypeOK, EndReplay
    <2>2. UNCHANGED <<disk, writer, queue, sent, flushes, since, promised, faults, crashes>>
      BY <1>7 DEF EndReplay, history
    <2> QED
      BY <2>1, <2>2 DEF TypeOK
  <1> QED
    BY <1>2, <1>3, <1>4, <1>5, <1>6, <1>7

(* Handling an event drops it, finds its shard, ends the batch to make one, *)
(* or fails to end it and remembers that.                                   *)
LEMMA EventShape ==
  ASSUME TypeOK, Working, NEW ok \in BOOLEAN, HandleEvent(ok)
  PROVE  /\ TypeOK'
         /\ queue # <<>> /\ queue' = Tail(queue) /\ queue[1].kind = "event"
         /\ writer.pc \in {"recv", "drain"} /\ writer'.pc \in {"drain", "insert", "create"}
         /\ UNCHANGED <<reader, sent, flushes, since, promised, crashes>>
         /\ disk' \in {disk, Committed}
         /\ writer'.shards = writer.shards /\ writer'.next_ord = writer.next_ord
         /\ writer'.next_shard = writer.next_shard /\ (writer.last_error => writer'.last_error)
         /\ \/ /\ sent[queue[1].n] \notin Streams /\ disk' = disk /\ writer'.tx = writer.tx
               /\ writer'.tx_open = writer.tx_open /\ writer'.pc = "drain" /\ writer'.current = 0
            \/ /\ sent[queue[1].n] \in DOMAIN writer.shards /\ disk' = disk
               /\ writer'.tx = writer.tx /\ writer'.tx_open = writer.tx_open
               /\ writer'.pc = "insert" /\ writer'.current = queue[1].n
            \/ /\ sent[queue[1].n] \notin DOMAIN writer.shards \cup Untaggable \cup {Control}
               /\ disk' = Committed /\ writer'.tx = {} /\ writer'.tx_open = FALSE
               /\ writer'.pc = "create" /\ writer'.current = queue[1].n
            \/ /\ disk' = disk /\ writer'.tx = {} /\ writer'.tx_open = FALSE
               /\ writer'.pc = "drain" /\ writer'.current = 0 /\ writer'.last_error
  <1> DEFINE n == queue[1].n
             s == sent[n]
             S == DOMAIN writer.shards
  <1>1. /\ queue # <<>> /\ queue' = Tail(queue) /\ queue[1].kind = "event" /\ queue[1] = Head(queue)
        /\ writer.pc \in {"recv", "drain"} /\ n \in Nat
        /\ UNCHANGED <<reader, sent, flushes, since, promised, crashes>>
        /\ queue' \in Seq(Cmd)
    BY QueueType DEF HandleEvent, Next_cmd, history, Cmd
  <1>2. /\ writer \in Task(S) /\ S \subseteq Streams /\ writer.current = 0
        /\ disk \in File(DOMAIN disk.streams) /\ DOMAIN disk.streams \subseteq Streams
    BY <1>1 DEF TypeOK, Working
  <1>3. CASE s = Control
    <2>1. writer' = [writer EXCEPT !.pc = "drain"] /\ UNCHANGED <<disk, faults>>
      BY <1>1, <1>3, TapLogAssumption DEF HandleEvent
    <2>2. /\ writer' \in Task(S) /\ writer'.shards = writer.shards /\ writer'.next_ord = writer.next_ord
          /\ writer'.next_shard = writer.next_shard /\ writer'.last_error = writer.last_error
          /\ writer'.tx = writer.tx /\ writer'.tx_open = writer.tx_open /\ writer'.pc = "drain"
          /\ writer'.current = 0
      BY <1>2, <2>1 DEF Task
    <2>3. TypeOK'
      BY <1>1, <1>2, <2>1, <2>2 DEF TypeOK
    <2> QED
      BY <1>1, <1>3, <2>1, <2>2, <2>3, TapLogAssumption
  <1>4. CASE s # Control /\ s \in Untaggable
    <2>1. writer' = Failed(writer) /\ UNCHANGED <<disk, faults>>
      BY <1>1, <1>4 DEF HandleEvent
    <2>2. /\ writer' \in Task(S) /\ writer'.shards = writer.shards /\ writer'.next_ord = writer.next_ord
          /\ writer'.next_shard = writer.next_shard /\ writer'.last_error
          /\ writer'.tx = writer.tx /\ writer'.tx_open = writer.tx_open /\ writer'.pc = "drain"
          /\ writer'.current = 0
      BY <1>2, <2>1, FailedType
    <2>3. TypeOK'
      BY <1>1, <1>2, <2>1, <2>2 DEF TypeOK
    <2> QED
      BY <1>1, <1>4, <2>1, <2>2, <2>3, TapLogAssumption
  <1>5. CASE s # Control /\ s \notin Untaggable /\ s \in S
    <2>1. writer' = [writer EXCEPT !.pc = "insert", !.current = n] /\ UNCHANGED <<disk, faults>>
      BY <1>1, <1>5 DEF HandleEvent
    <2> HIDE DEF n
    <2>2. /\ writer' \in Task(S) /\ writer'.shards = writer.shards /\ writer'.next_ord = writer.next_ord
          /\ writer'.next_shard = writer.next_shard /\ writer'.last_error = writer.last_error
          /\ writer'.tx = writer.tx /\ writer'.tx_open = writer.tx_open /\ writer'.pc = "insert"
          /\ writer'.current = n
      BY <1>1, <1>2, <2>1 DEF Task
    <2>3. TypeOK'
      BY <1>1, <1>2, <2>1, <2>2 DEF TypeOK
    <2> QED
      BY <1>1, <1>5, <2>1, <2>2, <2>3 DEF n
  <1>6. CASE s # Control /\ s \notin Untaggable /\ s \notin S
    <2>1. /\ commit_if_open(ok)
          /\ writer' = IF ok THEN [Closed EXCEPT !.pc = "create", !.current = n] ELSE Failed(Closed)
      BY <1>1, <1>6 DEF HandleEvent
    <2>2. /\ faults' \in Nat /\ disk' \in {disk, Committed} /\ (ok => disk' = Committed)
          /\ (~ok => disk' = disk)
          /\ disk' \in File(DOMAIN disk.streams) /\ disk'.streams = disk.streams
      BY <2>1, CommitOutcome DEF commit_if_open
    <2>3. CASE ok
      <3> HIDE DEF n
      <3>1. Closed \in Task(S) /\ writer' = [Closed EXCEPT !.pc = "create", !.current = n]
        BY <2>1, <2>3, ClosedType
      <3>2. /\ writer' \in Task(S) /\ writer'.shards = Closed.shards /\ writer'.next_ord = Closed.next_ord
            /\ writer'.next_shard = Closed.next_shard /\ writer'.last_error = Closed.last_error
            /\ writer'.tx = Closed.tx /\ writer'.tx_open = Closed.tx_open /\ writer'.pc = "create"
            /\ writer'.current = n
        BY <1>1, <3>1 DEF Task
      <3>3. Closed.tx_open = FALSE
        BY <1>2 DEF Closed, Task
      <3>4. TypeOK'
        BY <1>1, <1>2, <2>2, <3>2, ClosedType DEF TypeOK
      <3> QED
        BY <1>1, <1>6, <2>2, <2>3, <3>2, <3>3, <3>4, ClosedType DEF n
    <2>4. CASE ~ok
      <3>1. Closed \in Task(S) /\ writer' = Failed(Closed)
        BY <2>1, <2>4, ClosedType
      <3>2. /\ writer' \in Task(S) /\ writer'.shards = Closed.shards /\ writer'.next_ord = Closed.next_ord
            /\ writer'.next_shard = Closed.next_shard /\ writer'.last_error
            /\ writer'.tx = Closed.tx /\ writer'.tx_open = Closed.tx_open /\ writer'.pc = "drain"
            /\ writer'.current = 0
        BY <3>1, FailedType
      <3>3. Closed.tx_open = FALSE
        BY <1>2 DEF Closed, Task
      <3>4. TypeOK'
        BY <1>1, <1>2, <2>2, <3>2, ClosedType DEF TypeOK
      <3> QED
        BY <1>1, <2>2, <2>4, <3>2, <3>3, <3>4, ClosedType
    <2> QED
      BY <2>3, <2>4
  <1> QED
    BY <1>3, <1>4, <1>5, <1>6

(* A table is made under the next number, which is used up either way.      *)
LEMMA CreateShape ==
  ASSUME TypeOK, NEW ok \in BOOLEAN, CreateShard(ok)
  PROVE  /\ TypeOK'
         /\ writer.pc = "create" /\ UNCHANGED <<queue, reader, sent, flushes, since, promised, crashes>>
         /\ disk'.rows = disk.rows /\ disk'.meta = disk.meta /\ disk'.streams = disk.streams
         /\ writer'.next_shard = writer.next_shard + 1 /\ writer'.next_ord = writer.next_ord
         /\ writer'.shards = writer.shards /\ writer'.tx = writer.tx
         /\ writer'.tx_open = writer.tx_open /\ (writer.last_error => writer'.last_error)
         /\ \/ /\ writer'.pc = "register" /\ writer'.current = writer.current
               /\ disk'.tables = disk.tables \cup {writer.next_shard}
            \/ /\ writer'.pc = "drain" /\ writer'.current = 0 /\ writer'.last_error
               /\ disk'.tables = disk.tables
  <1> DEFINE S == DOMAIN writer.shards
             w == [writer EXCEPT !.next_shard = @ + 1]
  <1>1. /\ writer.pc = "create" /\ execute_retry(ok)
        /\ UNCHANGED <<queue, reader, sent, flushes, since, promised, crashes>>
        /\ disk' = IF ok THEN [disk EXCEPT !.tables = @ \cup {writer.next_shard}] ELSE disk
        /\ writer' = IF ok THEN [w EXCEPT !.pc = "register"] ELSE Failed(w)
    BY DEF CreateShard, history
  <1>2. /\ writer \in Task(S) /\ disk \in File(DOMAIN disk.streams) /\ faults' \in Nat
        /\ S \subseteq Streams /\ DOMAIN disk.streams \subseteq Streams
    BY <1>1, FaultType DEF TypeOK
  <1>3. /\ w \in Task(S) /\ w.next_shard = writer.next_shard + 1 /\ w.next_ord = writer.next_ord
        /\ w.shards = writer.shards /\ w.tx = writer.tx /\ w.tx_open = writer.tx_open
        /\ w.last_error = writer.last_error /\ w.current = writer.current
    BY <1>2 DEF Task
  <1>4. /\ disk' \in File(DOMAIN disk.streams) /\ disk'.rows = disk.rows /\ disk'.meta = disk.meta
        /\ disk'.streams = disk.streams
        /\ ok => disk'.tables = disk.tables \cup {writer.next_shard}
        /\ ~ok => disk'.tables = disk.tables
    <2>1. writer.next_shard \in Nat
      BY <1>2 DEF Task
    <2> QED
      BY <1>1, <1>2, <2>1 DEF File
  <1> HIDE DEF w
  <1>5. CASE ok
    <2>1. writer' = [w EXCEPT !.pc = "register"]
      BY <1>1, <1>5
    <2>2. /\ writer' \in Task(S) /\ writer'.pc = "register" /\ writer'.next_shard = w.next_shard
          /\ writer'.next_ord = w.next_ord /\ writer'.shards = w.shards /\ writer'.tx = w.tx
          /\ writer'.tx_open = w.tx_open /\ writer'.last_error = w.last_error
          /\ writer'.current = w.current
      BY <1>3, <2>1 DEF Task
    <2>3. TypeOK'
      BY <1>1, <1>2, <1>3, <1>4, <2>2 DEF TypeOK
    <2> QED
      BY <1>1, <1>3, <1>4, <1>5, <2>2, <2>3
  <1>6. CASE ~ok
    <2>1. writer' = Failed(w)
      BY <1>1, <1>6
    <2>2. /\ writer' \in Task(S) /\ writer'.pc = "drain" /\ writer'.next_shard = w.next_shard
          /\ writer'.next_ord = w.next_ord /\ writer'.shards = w.shards /\ writer'.tx = w.tx
          /\ writer'.tx_open = w.tx_open /\ writer'.last_error
          /\ writer'.current = 0
      BY <1>3, <2>1, FailedType
    <2>3. TypeOK'
      BY <1>1, <1>2, <1>3, <1>4, <2>2 DEF TypeOK
    <2> QED
      BY <1>1, <1>3, <1>4, <1>6, <2>2, <2>3
  <1> QED
    BY <1>5, <1>6

(* The stream of the event in hand enters both registries, or neither.      *)
LEMMA RegisterShape ==
  ASSUME TypeOK, NEW ok \in BOOLEAN, RegisterShard(ok), writer.shards = disk.streams,
         writer.next_shard - 1 \in Nat, sent[writer.current] \in Streams
  PROVE  /\ TypeOK'
         /\ writer.pc = "register" /\ UNCHANGED <<queue, reader, sent, flushes, since, promised, crashes>>
         /\ disk'.rows = disk.rows /\ disk'.meta = disk.meta /\ disk'.tables = disk.tables
         /\ writer'.next_shard = writer.next_shard /\ writer'.next_ord = writer.next_ord
         /\ writer'.tx = writer.tx /\ writer'.tx_open = writer.tx_open
         /\ (writer.last_error => writer'.last_error)
         /\ writer'.shards = disk'.streams
         /\ \/ /\ writer'.pc = "insert" /\ writer'.current = writer.current
               /\ DOMAIN disk'.streams = DOMAIN disk.streams \cup {sent[writer.current]}
               /\ \A t \in DOMAIN disk'.streams :
                    disk'.streams[t] = IF t = sent[writer.current] THEN writer.next_shard - 1
                                       ELSE disk.streams[t]
            \/ /\ writer'.pc = "drain" /\ writer'.current = 0 /\ writer'.last_error
               /\ disk'.streams = disk.streams
  <1> DEFINE S == DOMAIN writer.shards
             s == sent[writer.current]
             put(m) == [t \in DOMAIN m \cup {s} |-> IF t = s THEN writer.next_shard - 1 ELSE m[t]]
             p == put(disk.streams)
  <1>1. /\ writer.pc = "register" /\ execute_retry(ok)
        /\ UNCHANGED <<queue, reader, sent, flushes, since, promised, crashes>>
        /\ disk' = IF ok THEN [disk EXCEPT !.streams = p] ELSE disk
        /\ writer' = IF ok THEN [writer EXCEPT !.pc = "insert", !.shards = p] ELSE Failed(writer)
    BY DEF RegisterShard, history
  <1>2. /\ writer \in Task(S) /\ disk \in File(DOMAIN disk.streams) /\ faults' \in Nat
        /\ S \subseteq Streams /\ DOMAIN disk.streams \subseteq Streams
    BY <1>1, FaultType DEF TypeOK
  <1>3. /\ p \in [DOMAIN p -> Nat] /\ DOMAIN p \subseteq Streams
        /\ DOMAIN p = DOMAIN disk.streams \cup {s}
        /\ \A t \in DOMAIN p : p[t] = IF t = s THEN writer.next_shard - 1 ELSE disk.streams[t]
    BY <1>2 DEF File
  <1> HIDE DEF p
  <1>4. CASE ok
    <2>1. disk' = [disk EXCEPT !.streams = p] /\ writer' = [writer EXCEPT !.pc = "insert", !.shards = p]
      BY <1>1, <1>4
    <2>2. /\ writer' \in Task(DOMAIN p) /\ writer'.pc = "insert" /\ writer'.next_shard = writer.next_shard
          /\ writer'.next_ord = writer.next_ord /\ writer'.shards = p /\ writer'.tx = writer.tx
          /\ writer'.tx_open = writer.tx_open /\ writer'.last_error = writer.last_error
          /\ writer'.current = writer.current
      BY <1>2, <1>3, <2>1 DEF Task
    <2>3. /\ disk' \in File(DOMAIN p) /\ disk'.rows = disk.rows /\ disk'.meta = disk.meta
          /\ disk'.tables = disk.tables /\ disk'.streams = p
      BY <1>2, <1>3, <2>1 DEF File
    <2>4. TypeOK'
      BY <1>1, <1>2, <1>3, <2>2, <2>3 DEF TypeOK
    <2> QED
      BY <1>1, <1>3, <2>2, <2>3, <2>4
  <1>5. CASE ~ok
    <2>1. disk' = disk /\ writer' = Failed(writer)
      BY <1>1, <1>5
    <2>2. /\ writer' \in Task(S) /\ writer'.pc = "drain" /\ writer'.next_shard = writer.next_shard
          /\ writer'.next_ord = writer.next_ord /\ writer'.shards = writer.shards /\ writer'.tx = writer.tx
          /\ writer'.tx_open = writer.tx_open /\ writer'.last_error
          /\ writer'.current = 0
      BY <1>2, <2>1, FailedType
    <2>3. TypeOK'
      BY <1>1, <1>2, <2>1, <2>2 DEF TypeOK
    <2> QED
      BY <1>1, <2>1, <2>2, <2>3
  <1> QED
    BY <1>4, <1>5

(* Only the flag of the transaction changes.                                *)
LEMMA TxFlagType ==
  ASSUME NEW S, NEW v \in Task(S), NEW b \in BOOLEAN, NEW y, y = [v EXCEPT !.tx_open = b]
  PROVE  /\ y \in Task(S) /\ y.next_shard = v.next_shard /\ y.next_ord = v.next_ord
         /\ y.shards = v.shards /\ y.tx = v.tx
         /\ y.last_error = v.last_error /\ y.current = v.current
         /\ y.tx_open = b
  <1>1. /\ y \in Task(S) /\ y.next_shard = v.next_shard /\ y.next_ord = v.next_ord
        /\ y.shards = v.shards /\ y.tx = v.tx
        /\ y.last_error = v.last_error /\ y.current = v.current
    BY DEF Task
  <1>2. y.tx_open = b
    BY Zenon DEF Task
  <1> QED
    BY <1>1, <1>2, Zenon

(* The two updates, one after the other.                                    *)
LEMMA BatchUpdate ==
  ASSUME NEW S, NEW v \in Task(S), NEW x \in SUBSET Row, NEW o \in Nat, NEW b
  PROVE  [v EXCEPT !.next_ord = o, !.tx_open = b, !.tx = x]
           = [[v EXCEPT !.next_ord = o, !.tx = x] EXCEPT !.tx_open = b]
  BY DEF Task

(* The event in hand becomes a row of the batch, or is lost with an error.  *)
LEMMA InsertShape ==
  ASSUME TypeOK, NEW ok \in BOOLEAN, NEW began \in BOOLEAN, InsertRow(began, ok), Working,
         sent[writer.current] \in DOMAIN writer.shards
  PROVE  /\ TypeOK'
         /\ writer.pc = "insert"
         /\ UNCHANGED <<disk, queue, reader, sent, flushes, since, promised, crashes>>
         /\ writer'.next_shard = writer.next_shard /\ writer'.next_ord = writer.next_ord + 1
         /\ writer'.shards = writer.shards /\ (writer.last_error => writer'.last_error)
         /\ writer'.pc = "drain" /\ writer'.current = 0
         /\ writer'.tx # {} => writer'.tx_open
         /\ \/ writer'.tx = writer.tx \cup {[shard |-> writer.shards[sent[writer.current]],
                                             ord |-> writer.next_ord, n |-> writer.current]}
            \/ writer'.tx = writer.tx /\ writer'.last_error
  <1> DEFINE S == DOMAIN writer.shards
             row == [shard |-> writer.shards[sent[writer.current]], ord |-> writer.next_ord, n |-> writer.current]
             x == IF ok THEN writer.tx \cup {row} ELSE writer.tx
             b == (began = TRUE)
             w == [writer EXCEPT !.next_ord = @ + 1, !.tx_open = b, !.tx = x]
  <1>1. /\ writer.pc = "insert" /\ execute_retry(ok)
        /\ UNCHANGED <<disk, queue, reader, sent, flushes, since, promised, crashes>>
        /\ writer' = IF ok THEN [w EXCEPT !.pc = "drain", !.current = 0] ELSE Failed(w)
        /\ (writer.tx_open => b) /\ (ok => b)
    <2>1. (began = TRUE) = began
      BY Zenon
    <2> QED
      BY <2>1 DEF InsertRow, history
  <1>2. /\ writer \in Task(S) /\ disk \in File(DOMAIN disk.streams) /\ faults' \in Nat
        /\ S \subseteq Streams
    BY <1>1, FaultType DEF TypeOK
  <1>3. row \in Row
    BY <1>2 DEF Task, Row
  <1>4. x \subseteq Row /\ (x # {} => b) /\ b \in BOOLEAN
    <2>1. b \in BOOLEAN
      BY Zenon
    <2>2. writer.tx \subseteq Row /\ (writer.tx # {} => writer.tx_open)
      BY <1>2 DEF Task, Working
    <2> HIDE DEF b, row
    <2> QED
      BY <1>1, <1>3, <2>1, <2>2
  <1>5. (ok => x = writer.tx \cup {row}) /\ (~ok => x = writer.tx)
    OBVIOUS
  <1> HIDE DEF x, row, b
  <1>6. /\ w \in Task(S) /\ w.next_shard = writer.next_shard /\ w.next_ord = writer.next_ord + 1
        /\ w.shards = writer.shards /\ w.tx = x /\ w.tx_open = b
        /\ w.last_error = writer.last_error /\ w.current = writer.current
    <2> DEFINE o == writer.next_ord + 1
               y == [writer EXCEPT !.next_ord = o, !.tx = x]
    <2>1. writer.next_ord \in Nat /\ o \in Nat /\ x \in SUBSET Row
      BY <1>2, <1>4 DEF Task
    <2> HIDE DEF o
    <2>2. w = [y EXCEPT !.tx_open = b]
      BY <1>2, <2>1, BatchUpdate, Zenon DEF o
    <2>3. writer \in Task(S) /\ y = [writer EXCEPT !.next_ord = o, !.tx = x]
      BY <1>2
    <2> HIDE DEF y, w, S
    <2>4. /\ y \in Task(S) /\ y.next_shard = writer.next_shard /\ y.next_ord = o
          /\ y.shards = writer.shards /\ y.tx = x
          /\ y.last_error = writer.last_error /\ y.current = writer.current
      BY <2>1, <2>3 DEF Task
    <2>5. /\ w \in Task(S) /\ w.next_shard = y.next_shard /\ w.next_ord = y.next_ord
          /\ w.shards = y.shards /\ w.tx = y.tx /\ w.tx_open = b
          /\ w.last_error = y.last_error /\ w.current = y.current
      BY <1>4, <2>2, <2>4, TxFlagType
    <2> QED
      BY <2>4, <2>5, Zenon DEF o
  <1> HIDE DEF w
  <1>7. /\ writer' \in Task(S) /\ writer'.pc = "drain" /\ writer'.current = 0
        /\ writer'.next_shard = w.next_shard /\ writer'.next_ord = w.next_ord
        /\ writer'.shards = w.shards /\ writer'.tx = w.tx /\ writer'.tx_open = w.tx_open
        /\ ok => writer'.last_error = w.last_error
        /\ ~ok => writer'.last_error
    <2>1. CASE ok
      <3>1. writer' = [w EXCEPT !.pc = "drain", !.current = 0]
        BY <1>1, <2>1
      <3> QED
        BY <1>6, <2>1, <3>1 DEF Task
    <2>2. CASE ~ok
      <3>1. writer' = Failed(w)
        BY <1>1, <2>2
      <3> QED
        BY <1>6, <2>2, <3>1, FailedType
    <2> QED
      BY <2>1, <2>2
  <1>8. TypeOK'
    BY <1>1, <1>2, <1>6, <1>7 DEF TypeOK
  <1> QED
    BY <1>1, <1>4, <1>5, <1>6, <1>7, <1>8 DEF row

(* The batch ends, with its error remembered or reported.                   *)
LEMMA EndBatchType ==
  ASSUME TypeOK, NEW e \in BOOLEAN, NEW pc \in {"recv", "drain"},
         NEW w, w = [Closed EXCEPT !.last_error = e, !.pc = pc]
  PROVE  /\ w \in Task(DOMAIN writer.shards) /\ w.shards = writer.shards /\ w.tx = {}
         /\ w.tx_open = FALSE /\ w.pc = pc /\ w.current = writer.current
         /\ w.next_ord = writer.next_ord /\ w.next_shard = writer.next_shard /\ w.last_error = e
  <1>1. Closed.tx_open = FALSE
    BY DEF TypeOK, Closed, Task
  <1>2. Closed \in Task(DOMAIN writer.shards)
    BY ClosedType
  <1>3. /\ w \in Task(DOMAIN writer.shards) /\ w.shards = Closed.shards /\ w.tx = Closed.tx
        /\ w.tx_open = Closed.tx_open /\ w.pc = pc /\ w.current = Closed.current
        /\ w.next_ord = Closed.next_ord /\ w.next_shard = Closed.next_shard
    BY <1>2 DEF Task
  <1>4. w.last_error = e
    BY <1>2, Zenon DEF Task
  <1> QED
    BY <1>1, <1>3, <1>4, ClosedType

(* A flush ends the batch and answers Ok only if nothing has failed since   *)
(* the last answer.                                                         *)
LEMMA FlushShape ==
  ASSUME TypeOK, Working, Queued, NEW ok \in BOOLEAN, HandleFlush(ok)
  PROVE  LET f == queue[1].n IN
         /\ TypeOK'
         /\ queue # <<>> /\ queue' = Tail(queue) /\ queue[1].kind = "flush"
         /\ writer.pc \in {"recv", "drain"} /\ writer'.pc = "drain"
         /\ UNCHANGED <<reader, sent, crashes>>
         /\ disk' \in {disk, Committed}
         /\ writer'.shards = writer.shards /\ writer'.next_ord = writer.next_ord
         /\ writer'.next_shard = writer.next_shard
         /\ writer'.tx = {} /\ writer'.tx_open = FALSE /\ writer.current = 0 /\ writer'.current = 0
         /\ f \in 1 .. Len(flushes) /\ Len(flushes') = Len(flushes)
         /\ \A g \in 1 .. Len(flushes) : flushes'[g].mark = flushes[g].mark
         /\ since' = flushes[f].mark
         /\ \/ promised' = promised
            \/ /\ disk' = Committed /\ ~writer.last_error
               /\ promised' = promised \cup {n \in since + 1 .. flushes[f].mark : Tapped(n)}
  <1> DEFINE f == queue[1].n
             good == ok /\ ~writer.last_error
  <1>1. /\ queue # <<>> /\ queue' = Tail(queue) /\ queue[1].kind = "flush" /\ queue[1] = Head(queue)
        /\ writer.pc \in {"recv", "drain"} /\ queue' \in Seq(Cmd)
        /\ UNCHANGED <<reader, sent, crashes>> /\ commit_if_open(ok)
        /\ Len(queue) \in Nat /\ Len(queue) >= 1
    BY QueueType DEF HandleFlush, Next_cmd
  <1>2. /\ writer' = [Closed EXCEPT !.last_error = FALSE, !.pc = "drain"]
        /\ flushes' = [flushes EXCEPT ![f].answer = IF good THEN "ok" ELSE "err"]
        /\ since' = flushes[f].mark
        /\ promised' = IF good THEN promised \cup {n \in since + 1 .. flushes[f].mark : Tapped(n)} ELSE promised
    BY <1>1 DEF HandleFlush
  <1>3. /\ faults' \in Nat /\ disk' \in {disk, Committed} /\ (ok => disk' = Committed)
        /\ disk' \in File(DOMAIN disk.streams) /\ disk'.streams = disk.streams
    BY <1>1, CommitOutcome
  <1>4. /\ writer' \in Task(DOMAIN writer.shards) /\ writer'.shards = writer.shards /\ writer'.tx = {}
        /\ writer'.tx_open = FALSE /\ writer'.pc = "drain" /\ writer'.current = writer.current
        /\ writer'.next_ord = writer.next_ord /\ writer'.next_shard = writer.next_shard
    BY <1>2, EndBatchType
  <1>5. f \in 1 .. Len(flushes)
    BY <1>1 DEF Queued
  <1>6. flushes \in Seq([answer : {"none", "ok", "err", "dead"}, mark : Nat])
    BY DEF TypeOK
  <1>7. \A g \in 1 .. Len(flushes) :
          flushes[g] \in [answer : {"none", "ok", "err", "dead"}, mark : Nat]
    BY <1>6, SeqElements, Zenon
  <1> HIDE DEF f
  <1>8. /\ flushes' \in Seq([answer : {"none", "ok", "err", "dead"}, mark : Nat])
        /\ Len(flushes') = Len(flushes)
        /\ \A g \in 1 .. Len(flushes) : flushes'[g].mark = flushes[g].mark
    <2> DEFINE a == IF good THEN "ok" ELSE "err"
               e == [flushes[f] EXCEPT !.answer = a]
    <2>1. a \in {"none", "ok", "err", "dead"}
      OBVIOUS
    <2> HIDE DEF a
    <2>2. e \in [answer : {"none", "ok", "err", "dead"}, mark : Nat] /\ e.mark = flushes[f].mark
      BY <1>5, <1>7, <2>1
    <2>3. flushes' = [flushes EXCEPT ![f] = e]
      BY <1>2 DEF a
    <2> HIDE DEF e
    <2> QED
      BY <1>5, <1>6, <2>2, <2>3
  <1>9. since' \in Nat /\ promised' \subseteq Nat
    <2>1. since' \in Nat
      BY <1>2, <1>5, <1>7
    <2>2. {n \in since + 1 .. flushes[f].mark : Tapped(n)} \subseteq Nat /\ promised \subseteq Nat
      BY <1>5, <1>7 DEF TypeOK
    <2> QED
      BY <1>2, <2>1, <2>2
  <1>10. TypeOK'
    <2>1. /\ DOMAIN disk.streams \subseteq Streams /\ DOMAIN writer.shards \subseteq Streams
      BY DEF TypeOK
    <2> QED
      BY <1>1, <1>3, <1>4, <1>8, <1>9, <2>1 DEF TypeOK
  <1>11. writer.current = 0
    BY <1>1 DEF Working
  <1>12. promised' = promised \/ (disk' = Committed /\ ~writer.last_error
           /\ promised' = promised \cup {n \in since + 1 .. flushes[f].mark : Tapped(n)})
    BY <1>2, <1>3
  <1> QED
    BY <1>1, <1>2, <1>3, <1>4, <1>5, <1>8, <1>10, <1>11, <1>12 DEF f

(* The queue is empty: the batch is committed, or is lost with an error.    *)
LEMMA DrainedShape ==
  ASSUME TypeOK, Working, NEW ok \in BOOLEAN, Drained(ok)
  PROVE  /\ TypeOK'
         /\ queue = <<>> /\ writer.pc = "drain" /\ writer'.pc = "recv"
         /\ UNCHANGED <<queue, reader, sent, flushes, since, promised, crashes>>
         /\ disk' \in {disk, Committed}
         /\ writer'.shards = writer.shards /\ writer'.next_ord = writer.next_ord
         /\ writer'.next_shard = writer.next_shard
         /\ writer'.tx = {} /\ writer'.tx_open = FALSE /\ writer.current = 0 /\ writer'.current = 0
         /\ (writer.last_error => writer'.last_error)
         /\ disk' = Committed \/ writer'.last_error
  <1> DEFINE e == (Closed.last_error \/ ~ok)
  <1>1. /\ queue = <<>> /\ writer.pc = "drain" /\ commit_if_open(ok)
        /\ UNCHANGED <<queue, reader, sent, flushes, since, promised, crashes>>
        /\ writer.current = 0
    BY DEF Drained, history, Working
  <1>2. e \in BOOLEAN
    BY Zenon
  <1>3. e <=> (writer.last_error \/ ~ok)
    BY ClosedType
  <1>4. writer' = [Closed EXCEPT !.last_error = e, !.pc = "recv"]
    <2>1. writer' = [[Closed EXCEPT !.pc = "recv"] EXCEPT !.last_error = e]
      BY Zenon DEF Drained
    <2> QED
      BY <2>1, ClosedType DEF Task
  <1> HIDE DEF e
  <1>5. /\ writer' \in Task(DOMAIN writer.shards) /\ writer'.shards = writer.shards /\ writer'.tx = {}
        /\ writer'.tx_open = FALSE /\ writer'.pc = "recv" /\ writer'.current = writer.current
        /\ writer'.next_ord = writer.next_ord /\ writer'.next_shard = writer.next_shard
        /\ writer'.last_error = e
    BY <1>2, <1>4, EndBatchType
  <1>6. /\ faults' \in Nat /\ disk' \in {disk, Committed} /\ (ok => disk' = Committed)
        /\ disk' \in File(DOMAIN disk.streams) /\ disk'.streams = disk.streams
    BY <1>1, CommitOutcome
  <1>7. TypeOK'
    BY <1>1, <1>5, <1>6 DEF TypeOK
  <1> QED
    BY <1>1, <1>3, <1>5, <1>6, <1>7

-----------------------------------------------------------------------------
(* What every step leaves standing: streams keep their tables, and what was *)
(* appended stays.                                                          *)
Grown ==
    /\ DOMAIN disk.streams \subseteq DOMAIN disk'.streams
    /\ \A s \in DOMAIN disk.streams : disk'.streams[s] = disk.streams[s]
    /\ Len(sent) <= Len(sent') /\ \A n \in 1 .. Len(sent) : sent'[n] = sent[n]

(* The numbers of the record types.                                         *)
LEMMA Numbers ==
  ASSUME TypeOK
  PROVE  /\ writer.current \in Nat /\ writer.next_ord \in Nat /\ writer.next_shard \in Nat
         /\ disk.meta.next_ord \in Nat /\ disk.meta.next_shard \in Nat
         /\ disk.rows \subseteq Row /\ writer.tx \subseteq Row /\ AllRows \subseteq Row
         /\ \A row \in AllRows : row.ord \in Nat /\ row.n \in Nat /\ row.shard \in Nat
         /\ disk.tables \subseteq Nat /\ Len(sent) \in Nat /\ Len(flushes) \in Nat /\ Len(queue) \in Nat
         /\ \A i \in 1 .. Len(queue) : queue[i] \in Cmd /\ queue[i].n \in Nat
         /\ since \in Nat
         /\ \A f \in 1 .. Len(flushes) : flushes[f].mark \in Nat
         /\ \A s \in DOMAIN disk.streams : s \in Streams /\ disk.streams[s] \in Nat
  <1>1. /\ writer.current \in Nat /\ writer.next_ord \in Nat /\ writer.next_shard \in Nat
        /\ writer.tx \subseteq Row
    BY DEF TypeOK, Task
  <1>2. /\ disk.meta.next_ord \in Nat /\ disk.meta.next_shard \in Nat /\ disk.rows \subseteq Row
        /\ disk.tables \subseteq Nat
        /\ \A s \in DOMAIN disk.streams : s \in Streams /\ disk.streams[s] \in Nat
    BY DEF TypeOK, File
  <1>3. \A row \in AllRows : row \in Row
    BY <1>1, <1>2 DEF AllRows
  <1>4. \A row \in Row : row.ord \in Nat /\ row.n \in Nat /\ row.shard \in Nat
    BY DEF Row
  <1>5. flushes \in Seq([answer : {"none", "ok", "err", "dead"}, mark : Nat])
    BY DEF TypeOK
  <1>6. \A f \in 1 .. Len(flushes) : flushes[f] \in [answer : {"none", "ok", "err", "dead"}, mark : Nat]
    BY <1>5, SeqElements, Zenon
  <1>7. \A f \in 1 .. Len(flushes) : flushes[f].mark \in Nat
    BY <1>6
  <1>8. Len(sent) \in Nat /\ Len(flushes) \in Nat /\ Len(queue) \in Nat /\ since \in Nat
    BY DEF TypeOK
  <1> QED
    BY <1>1, <1>2, <1>3, <1>4, <1>7, <1>8, QueueType

(* A step that adds no row, and gives out no lower ordinal, keeps them.     *)
LEMMA KeptMono ==
  ASSUME TypeOK, TypeOK', Kept, Grown, AllRows' \subseteq AllRows,
         \/ writer'.current \in {0, writer.current}
         \/ \E i \in 1 .. Len(queue) : queue[i].kind = "event" /\ queue[i].n = writer'.current,
         \A i \in 1 .. Len(queue') : queue'[i].kind = "event" =>
           \/ Len(sent) < queue'[i].n
           \/ \E j \in 1 .. Len(queue) : queue[j].kind = "event" /\ queue[j].n = queue'[i].n,
         Running' => /\ \A row \in AllRows' : row.ord < writer'.next_ord
                     /\ disk'.meta.next_ord <= writer'.next_ord,
         \A row \in disk'.rows : row.ord < disk'.meta.next_ord
  PROVE  Kept'
  <1>1. ASSUME NEW row \in AllRows'
        PROVE  /\ row.n \in 1 .. Len(sent') /\ sent'[row.n] \in DOMAIN disk'.streams
               /\ row.shard = disk'.streams[sent'[row.n]]
    <2>1. /\ row.n \in 1 .. Len(sent) /\ sent[row.n] \in DOMAIN disk.streams
          /\ row.shard = disk.streams[sent[row.n]]
      BY DEF Kept
    <2>2. Len(sent) \in Nat /\ Len(sent') \in Nat
      BY DEF TypeOK
    <2> QED
      BY <2>1, <2>2 DEF Grown
  <1>2. ASSUME NEW row \in AllRows'
        PROVE  writer'.current # 0 => row.n < writer'.current
    BY DEF Kept
  <1>3. ASSUME NEW row \in AllRows', NEW i \in 1 .. Len(queue'), queue'[i].kind = "event"
        PROVE  row.n < queue'[i].n
    <2>1. /\ row.n \in 1 .. Len(sent)
          /\ \A j \in 1 .. Len(queue) : queue[j].kind = "event" => row.n < queue[j].n
      BY DEF Kept
    <2>2. Len(sent) \in Nat /\ queue'[i].n \in Nat
      <3>1. queue' \in Seq(Cmd)
        BY DEF TypeOK
      <3>2. queue'[i] \in Cmd
        BY <3>1, SeqElements
      <3> QED
        BY <3>2 DEF TypeOK, Cmd
    <2> QED
      BY <1>3, <2>1, <2>2
  <1>4. \A a, b \in AllRows' : a = b \/ Before(a, b) \/ Before(b, a)
    BY DEF Kept
  <1> QED
    BY <1>1, <1>2, <1>3, <1>4 DEF Kept, Before, AllRows

(* The reader loses nothing it holds to a step of the writer.               *)
LEMMA ReadingMono ==
  ASSUME TypeOK, Kept, Reading, Grown, disk.rows \subseteq disk'.rows,
         reader'.regs \subseteq reader.regs, reader'.rows \subseteq reader.rows
  PROVE  Reading'
  <1>1. \A g \in reader'.regs :
          g.stream \in DOMAIN disk'.streams /\ g.shard = disk'.streams[g.stream]
    BY DEF Reading, Grown
  <1>2. ASSUME NEW a \in reader'.rows
        PROVE  a.stream = sent'[a.n] /\ \E w \in disk'.rows : w.ord = a.ord /\ w.n = a.n
    <2>1. a.stream = sent[a.n]
      BY DEF Reading
    <2>2. PICK w \in disk.rows : w.ord = a.ord /\ w.n = a.n
      BY DEF Reading
    <2>3. a.n \in 1 .. Len(sent)
      BY <2>2 DEF Kept, AllRows
    <2> QED
      BY <2>1, <2>2, <2>3 DEF Grown
  <1> QED
    BY <1>1, <1>2 DEF Reading

(* Where an event is as long as it is not lost.                             *)
Safe(n, d, w, q) ==
    \/ \E row \in d.rows : row.n = n
    \/ \E row \in w.tx : row.n = n
    \/ w.current = n
    \/ \E i \in 1 .. Len(q) : q[i].kind = "event" /\ q[i].n = n

(* LossReported, with the places an event can be in spelled out.            *)
LEMMA LossIs ==
  LossReported <=> (Running => \A n \in since + 1 .. Len(sent) :
                      Tapped(n) => Safe(n, disk, writer, queue) \/ writer.last_error)
  <1>1. \A n : Safe(n, disk, writer, queue)
                 <=> n \in Stored \cup Pending \/ \E row \in writer.tx : row.n = n
    BY DEF Safe, Stored, Pending
  <1> QED
    BY <1>1 DEF LossReported

(* A step that leaves every event where it was, or moves it to another of   *)
(* these places, or remembers an error, loses none silently.                *)
LEMMA LossMono ==
  ASSUME LossReported, Running' => Running, since' = since, sent' = sent,
         writer.last_error => writer'.last_error,
         writer'.last_error \/ \A n \in 1 .. Len(sent) :
           Tapped(n) /\ Safe(n, disk, writer, queue) => Safe(n, disk', writer', queue'),
         TypeOK
  PROVE  LossReported'
  <1>1. LossReported' <=> (Running' => \A n \in since' + 1 .. Len(sent') :
                      Tapped(n)' => Safe(n, disk', writer', queue') \/ writer'.last_error)
    <2>1. \A n : Safe(n, disk', writer', queue')
                   <=> n \in (Stored \cup Pending)' \/ \E row \in writer'.tx : row.n = n
      BY DEF Safe, Stored, Pending
    <2> QED
      BY <2>1 DEF LossReported
  <1>2. SUFFICES ASSUME Running', NEW n \in since' + 1 .. Len(sent'), Tapped(n)', ~writer'.last_error
                 PROVE  Safe(n, disk', writer', queue')
    BY <1>1
  <1>3. n \in 1 .. Len(sent) /\ Tapped(n) /\ n \in since + 1 .. Len(sent)
    BY <1>2, Numbers DEF Tapped
  <1>4. Safe(n, disk, writer, queue)
    BY <1>2, <1>3, LossIs
  <1> QED
    BY <1>2, <1>3, <1>4

(* Nothing about the queue changes if the callers and the queue do not.     *)
LEMMA QueuedQuiet ==
  ASSUME TypeOK, Queued, UNCHANGED <<queue, sent, flushes>>, writer'.current \in {0, writer.current}
  PROVE  Queued'
  <1>1. ASSUME NEW i \in 1 .. Len(queue), queue[i].kind = "event"
        PROVE  writer'.current < queue[i].n
    <2>1. queue[i].n \in 1 .. Len(sent) /\ writer.current < queue[i].n
      BY <1>1 DEF Queued
    <2> QED
      BY <2>1, Numbers
  <1> QED
    BY <1>1 DEF Queued, Event

(* Taking the first command, and an event in hand, keeps the order.         *)
LEMMA QueuedTail ==
  ASSUME TypeOK, Queued, queue # <<>>, queue' = Tail(queue), sent' = sent,
         Len(flushes') = Len(flushes),
         \A f \in 1 .. Len(flushes) : flushes'[f].mark = flushes[f].mark,
         writer'.current = 0 \/ (queue[1].kind = "event" /\ writer'.current = queue[1].n)
  PROVE  Queued'
  <1>1. /\ Len(queue') = Len(queue) - 1 /\ Len(queue) \in Nat /\ Len(queue) >= 1
        /\ \A i \in 1 .. Len(queue') : queue'[i] = queue[i + 1] /\ i + 1 \in 2 .. Len(queue)
    BY QueueType
  <1>2. ASSUME NEW i \in 1 .. Len(queue'), queue'[i].kind = "event"
        PROVE  /\ queue'[i].n \in 1 .. Len(sent) /\ writer'.current < queue'[i].n
               /\ \A k \in i + 1 .. Len(queue') : queue'[k].kind = "event" => queue'[i].n < queue'[k].n
    <2>1. queue[i + 1].kind = "event" /\ i + 1 \in 2 .. Len(queue) /\ i + 1 \in 1 .. Len(queue)
      BY <1>1, <1>2
    <2>2. /\ queue[i + 1].n \in 1 .. Len(sent)
          /\ \A k \in (i + 1) + 1 .. Len(queue) : queue[k].kind = "event" => queue[i + 1].n < queue[k].n
      BY <2>1 DEF Queued
    <2>3. \A k \in i + 1 .. Len(queue') : queue'[k] = queue[k + 1] /\ k + 1 \in (i + 1) + 1 .. Len(queue)
      BY <1>1
    <2>4. writer'.current < queue[i + 1].n
      <3>1. CASE writer'.current = 0
        BY <2>2, <3>1, Numbers
      <3>2. CASE queue[1].kind = "event" /\ writer'.current = queue[1].n
        <4>1. 1 \in 1 .. Len(queue) /\ i + 1 \in 1 + 1 .. Len(queue)
          BY <1>1, <2>1
        <4> QED
          BY <2>1, <3>2, <4>1 DEF Queued
      <3> QED
        BY <3>1, <3>2
    <2> QED
      BY <1>1, <2>2, <2>3, <2>4
  <1>3. ASSUME NEW i \in 1 .. Len(queue'), queue'[i].kind = "flush"
        PROVE  /\ queue'[i].n \in 1 .. Len(flushes) /\ flushes'[queue'[i].n].mark <= Len(sent)
               /\ \A k \in i + 1 .. Len(queue') :
                    queue'[k].kind = "event" => flushes'[queue'[i].n].mark < queue'[k].n
               /\ \A n \in flushes'[queue'[i].n].mark + 1 .. Len(sent) :
                    \E k \in i + 1 .. Len(queue') : queue'[k] = Event(n)
    <2>1. /\ queue[i + 1].kind = "flush" /\ i + 1 \in 1 .. Len(queue) /\ queue'[i] = queue[i + 1]
          /\ i \in Nat
      BY <1>1, <1>3
    <2>2. /\ queue[i + 1].n \in 1 .. Len(flushes) /\ flushes[queue[i + 1].n].mark <= Len(sent)
          /\ \A k \in (i + 1) + 1 .. Len(queue) :
               queue[k].kind = "event" => flushes[queue[i + 1].n].mark < queue[k].n
          /\ \A n \in flushes[queue[i + 1].n].mark + 1 .. Len(sent) :
               \E k \in (i + 1) + 1 .. Len(queue) : queue[k] = Event(n)
      BY <2>1 DEF Queued
    <2>3. flushes'[queue'[i].n].mark = flushes[queue[i + 1].n].mark
      BY <2>1, <2>2
    <2>4. \A k \in i + 1 .. Len(queue') : queue'[k] = queue[k + 1] /\ k + 1 \in (i + 1) + 1 .. Len(queue)
      BY <1>1, <2>1
    <2>5. ASSUME NEW n \in flushes[queue[i + 1].n].mark + 1 .. Len(sent)
          PROVE  \E k \in i + 1 .. Len(queue') : queue'[k] = Event(n)
      <3>1. PICK k \in (i + 1) + 1 .. Len(queue) : queue[k] = Event(n)
        BY <2>2
      <3>2. k - 1 \in i + 1 .. Len(queue') /\ queue'[k - 1] = queue[(k - 1) + 1] /\ (k - 1) + 1 = k
        BY <1>1, <2>1
      <3> QED
        BY <3>1, <3>2
    <2> QED
      BY <2>1, <2>2, <2>3, <2>4, <2>5
  <1> QED
    BY <1>2, <1>3 DEF Queued, Event

-----------------------------------------------------------------------------
(* Opening, closing and dying: no event is in memory, and the file stays.   *)
LEMMA DormantStep ==
  ASSUME TapLogInv, NEW ok \in BOOLEAN,
         \/ preflight_user_version \/ CreateSchema(ok) \/ stamp_user_version(ok)
         \/ WriterExits \/ Crash
  PROVE  TapLogInv'
  <1> USE DEF TapLogInv
  <1>1. /\ disk'.rows = disk.rows /\ disk'.meta = disk.meta /\ disk'.tables = disk.tables
        /\ disk'.streams = disk.streams
    <2>1. disk \in File(DOMAIN disk.streams)
      BY DEF TypeOK
    <2>2. \/ disk' = disk \/ (\E x : disk' = [disk EXCEPT !.schema = x])
          \/ disk' = [disk EXCEPT !.version = TAP_SCHEMA_VERSION]
      BY DEF preflight_user_version, CreateSchema, stamp_user_version, WriterExits, Crash
    <2> QED
      BY <2>1, <2>2 DEF File
  <1>2. /\ UNCHANGED <<sent, since, promised>> /\ queue' = <<>> /\ writer'.tx = {} /\ writer'.current = 0
        /\ ~Running' /\ writer'.pc \in {"closed", "schema", "stamp", "load"}
    <2>1. CASE preflight_user_version
      <3> DEFINE f == (disk.version = 0)
      <3>1. /\ writer' = [NoWriter EXCEPT !.pc = "schema", !.fresh = f, !.held = TRUE]
            /\ UNCHANGED <<sent, since, promised, queue>> /\ ~Running
        BY <2>1 DEF preflight_user_version, history, Running
      <3>2. writer'.pc = "schema" /\ writer'.tx = {} /\ writer'.current = 0
        BY <3>1 DEF NoWriter
      <3> QED
        BY <3>1, <3>2 DEF Running, Working
    <2>2. CASE CreateSchema(ok) \/ stamp_user_version(ok)
      <3>1. /\ \/ writer' = NoWriter
               \/ \E pc \in {"schema", "stamp", "load"} : writer' = [writer EXCEPT !.pc = pc]
            /\ UNCHANGED <<sent, since, promised, queue>> /\ writer.pc \in {"schema", "stamp"}
        BY <2>2 DEF CreateSchema, stamp_user_version, history
      <3>2. queue = <<>> /\ writer.tx = {} /\ writer.current = 0
        BY <3>1 DEF Running, Working
      <3>3. writer'.tx = {} /\ writer'.current = 0 /\ writer'.pc \in {"closed", "schema", "stamp", "load"}
        BY <3>1, <3>2, NoWriterType DEF TypeOK, Task
      <3> QED
        BY <3>1, <3>2, <3>3 DEF Running
    <2>3. CASE WriterExits \/ Crash
      BY <2>3, NoWriterType DEF WriterExits, Crash, history, Running
    <2> QED
      BY <2>1, <2>2, <2>3
  <1>3. reader'.regs \subseteq reader.regs /\ reader'.rows \subseteq reader.rows
    BY DEF preflight_user_version, CreateSchema, stamp_user_version, WriterExits, Crash, NoReader
  <1>4. TypeOK'
    BY OpenType, CallerType
  <1>5. Working'
    BY <1>2, Numbers DEF Working
  <1>6. Registered'
    BY <1>1, <1>2 DEF Registered
  <1>7. Grown /\ AllRows' \subseteq AllRows
    BY <1>1, <1>2, Numbers DEF Grown, AllRows
  <1>8. Kept'
    <2>1. \A row \in disk'.rows : row.ord < disk'.meta.next_ord
      BY <1>1 DEF Kept
    <2> QED
      BY <1>2, <1>4, <1>7, <2>1, KeptMono
  <1>9. Queued'
    BY <1>2 DEF Queued
  <1>10. Reading'
    BY <1>1, <1>3, <1>7, ReadingMono
  <1>11. LossReported'
    BY <1>2 DEF LossReported
  <1>12. FlushKeepsPromise'
    BY <1>1, <1>2 DEF FlushKeepsPromise, Stored
  <1> QED
    BY <1>4, <1>5, <1>6, <1>8, <1>9, <1>10, <1>11, <1>12

(* Loading the registry and the counters of the file.                       *)
LEMMA LoadStep == TapLogInv /\ LoadAndSpawn => TapLogInv'
  <1> SUFFICES ASSUME TapLogInv, LoadAndSpawn PROVE TapLogInv'
    OBVIOUS
  <1> USE DEF TapLogInv
  <1> DEFINE k == recompute_next_shard(disk.meta.next_shard)
             o == disk.meta.next_ord
             m == disk.streams
  <1>1. /\ writer.pc = "load" /\ UNCHANGED <<disk, queue, reader, sent, flushes, promised>>
        /\ since' = Len(sent)
        /\ writer' = [writer EXCEPT !.pc = "recv", !.next_shard = k, !.next_ord = o, !.shards = m]
    BY DEF LoadAndSpawn
  <1>2. \A t \in disk.tables : t < k
    BY Numbers, RecomputeIs
  <1>3. queue = <<>> /\ writer.tx = {} /\ writer.current = 0 /\ writer \in Task(DOMAIN writer.shards)
    BY <1>1 DEF Working, Running, TypeOK
  <1> HIDE DEF k, o, m
  <1>4. /\ writer'.pc = "recv" /\ writer'.next_shard = k /\ writer'.next_ord = o /\ writer'.shards = m
        /\ writer'.tx = {} /\ writer'.current = 0
    BY <1>1, <1>3 DEF Task
  <1>5. TypeOK'
    BY OpenType
  <1>6. Working'
    BY <1>1, <1>3, <1>4, Numbers DEF Working, Running
  <1>7. Registered'
    BY <1>1, <1>2, <1>4 DEF Registered, m
  <1>8. Grown /\ AllRows' \subseteq AllRows
    BY <1>1, <1>4, Numbers DEF Grown, AllRows
  <1>9. Kept'
    <2>1. \A row \in disk.rows : row.ord < o
      BY DEF Kept, o
    <2>2. AllRows' = disk.rows
      BY <1>1, <1>4 DEF AllRows
    <2>3. o <= writer'.next_ord
      BY <1>4, Numbers DEF o
    <2> QED
      BY <1>1, <1>3, <1>4, <1>5, <1>8, <2>1, <2>2, <2>3, KeptMono DEF o
  <1>10. Queued'
    BY <1>1, <1>3 DEF Queued
  <1>11. Reading'
    BY <1>1, <1>8, ReadingMono
  <1>12. LossReported'
    BY <1>1, Numbers DEF LossReported
  <1>13. FlushKeepsPromise'
    BY <1>1 DEF FlushKeepsPromise, Stored
  <1> QED
    BY <1>5, <1>6, <1>7, <1>9, <1>10, <1>11, <1>12, <1>13

(* The last handle goes: the task works on.                                 *)
LEMMA DropStep == TapLogInv /\ DropLog => TapLogInv'
  <1> SUFFICES ASSUME TapLogInv, DropLog PROVE TapLogInv'
    OBVIOUS
  <1> USE DEF TapLogInv
  <1>1. /\ UNCHANGED <<disk, queue, reader, sent, flushes, since, promised>> /\ Running
        /\ writer' = [writer EXCEPT !.held = FALSE] /\ writer \in Task(DOMAIN writer.shards)
    BY DEF DropLog, history, TypeOK
  <1>2. /\ writer'.pc = writer.pc /\ writer'.tx = writer.tx /\ writer'.current = writer.current
        /\ writer'.next_ord = writer.next_ord /\ writer'.next_shard = writer.next_shard
        /\ writer'.shards = writer.shards
    BY <1>1 DEF Task
  <1>3. writer'.tx_open = writer.tx_open /\ writer'.last_error = writer.last_error
    BY <1>1, Zenon DEF Task
  <1>4. TypeOK'
    BY OpenType
  <1>5. Running'
    BY <1>1, <1>2 DEF Running
  <1>6. Working'
    BY <1>1, <1>2, <1>3, <1>5 DEF Working
  <1>7. Registered'
    BY <1>1, <1>2, <1>5 DEF Registered
  <1>8. Kept'
    BY <1>1, <1>2, <1>5 DEF Kept, AllRows, Before
  <1>9. Queued'
    BY <1>1, <1>2, QueuedQuiet
  <1>10. Reading'
    BY <1>1 DEF Reading
  <1>11. LossReported'
    BY <1>1, <1>2, <1>3, <1>5 DEF LossReported, Stored, Pending, Tapped
  <1>12. FlushKeepsPromise'
    BY <1>1 DEF FlushKeepsPromise, Stored
  <1> QED
    BY <1>4, <1>6, <1>7, <1>8, <1>9, <1>10, <1>11, <1>12

(* A step of the reader leaves the log as it is.                            *)
LEMMA LogQuiet ==
  ASSUME TapLogInv, UNCHANGED <<disk, writer, queue, sent, flushes, since, promised>>
  PROVE  /\ Working' /\ Registered' /\ Kept' /\ Queued' /\ LossReported' /\ FlushKeepsPromise'
  <1>1. Working'
    BY DEF TapLogInv, Working, Running
  <1>2. Registered'
    BY DEF TapLogInv, Registered, Running
  <1>3. Kept'
    BY DEF TapLogInv, Kept, AllRows, Before, Running
  <1>4. Queued'
    BY QueuedQuiet DEF TapLogInv
  <1>5. LossReported'
    BY DEF TapLogInv, LossReported, Stored, Pending, Tapped, Running
  <1>6. FlushKeepsPromise'
    BY DEF TapLogInv, FlushKeepsPromise, Stored
  <1> QED
    BY <1>1, <1>2, <1>3, <1>4, <1>5, <1>6

(* Planning a replay from the registry, reading one shard, and its end.     *)
LEMMA ReaderStep ==
  ASSUME TapLogInv,
         \/ \E r \in Requests : ScanRegistry(r)
         \/ \E g \in reader.regs : ScanShard(g)
         \/ EndReplay
  PROVE  TapLogInv'
  <1>1. TypeOK'
    BY CallerType DEF TapLogInv
  <1>2. UNCHANGED <<disk, writer, queue, sent, flushes, since, promised>>
    BY DEF ScanRegistry, ScanShard, EndReplay, history
  <1>3. Reading'
    <2>1. CASE \E r \in Requests : ScanRegistry(r)
      <3>1. PICK r \in Requests : ScanRegistry(r)
        BY <2>1
      <3>2. reader'.rows = {}
        BY <3>1 DEF ScanRegistry
      <3>3. \A g \in reader'.regs : \E s \in DOMAIN disk.streams :
              g = [stream |-> s, shard |-> disk.streams[s], from |-> r.from, to |-> r.to]
        BY <3>1 DEF ScanRegistry
      <3>4. \A g \in reader'.regs : g.stream \in DOMAIN disk.streams /\ g.shard = disk.streams[g.stream]
        BY <3>3
      <3> QED
        BY <1>2, <3>2, <3>4 DEF Reading
    <2>2. CASE \E g \in reader.regs : ScanShard(g)
      <3>1. PICK g \in reader.regs : ScanShard(g)
        BY <2>2
      <3> DEFINE W == {w \in disk.rows : w.shard = g.shard /\ g.from <= Stamp[w.n] /\ Stamp[w.n] < g.to}
                 R == {[ord |-> row.ord, n |-> row.n, stream |-> g.stream] : row \in W}
      <3>2. reader' = [reader EXCEPT !.regs = @ \ {g}, !.rows = @ \cup R]
        BY <3>1 DEF ScanShard
      <3>3. \A a \in R : \E w \in disk.rows :
              w.shard = g.shard /\ a.ord = w.ord /\ a.n = w.n /\ a.stream = g.stream
        OBVIOUS
      <3> HIDE DEF R
      <3>4. reader'.regs \subseteq reader.regs /\ reader'.rows = reader.rows \cup R
        BY <3>2 DEF TapLogInv, TypeOK
      <3>5. g.stream \in DOMAIN disk.streams /\ g.shard = disk.streams[g.stream]
        BY DEF TapLogInv, Reading
      <3>6. ASSUME NEW a \in R
            PROVE  a.stream = sent[a.n] /\ \E w \in disk.rows : w.ord = a.ord /\ w.n = a.n
        <4>1. PICK w \in disk.rows :
                w.shard = g.shard /\ a.ord = w.ord /\ a.n = w.n /\ a.stream = g.stream
          BY <3>3
        <4>2. sent[w.n] \in DOMAIN disk.streams /\ w.shard = disk.streams[sent[w.n]]
          BY DEF TapLogInv, Kept, AllRows
        <4>3. sent[w.n] = g.stream
          BY <3>5, <4>1, <4>2 DEF TapLogInv, Registered
        <4> QED
          BY <4>1, <4>3
      <3> QED
        BY <1>2, <3>4, <3>6 DEF TapLogInv, Reading
    <2>3. CASE EndReplay
      <3>1. reader'.rows = {} /\ reader'.regs = {}
        BY <2>3 DEF EndReplay, TapLogInv, TypeOK
      <3> QED
        BY <3>1 DEF Reading
    <2> QED
      BY <2>1, <2>2, <2>3
  <1> QED
    BY <1>1, <1>2, <1>3, LogQuiet DEF TapLogInv

(* An event is appended behind all the others.                              *)
LEMMA AppendStep ==
  ASSUME TapLogInv, NEW s \in Streams \cup Untaggable \cup {Control}, append(s)
  PROVE  TapLogInv'
  <1> USE DEF TapLogInv
  <1> DEFINE N == Len(sent) + 1
  <1>1. /\ UNCHANGED <<disk, writer, reader, flushes, since, promised>> /\ Running
        /\ sent' = Append(sent, s) /\ queue' = Append(queue, Event(N))
    BY DEF append, history
  <1>2. /\ Len(sent') = N /\ Len(sent) \in Nat /\ N \in Nat /\ sent'[N] = s
        /\ \A n \in 1 .. Len(sent) : sent'[n] = sent[n]
    BY <1>1 DEF TypeOK
  <1>3. /\ Len(queue') = Len(queue) + 1 /\ Len(queue) \in Nat
        /\ \A i \in 1 .. Len(queue) : queue'[i] = queue[i]
        /\ queue'[Len(queue) + 1] = Event(N) /\ Event(N).kind = "event" /\ Event(N).n = N
    <2>1. Event(N) \in Cmd
      BY <1>2 DEF Event, Cmd
    <2> QED
      BY <1>1, <2>1, Numbers, QueueType DEF Event
  <1>4. TypeOK'
    BY CallerType
  <1>5. Working'
    BY <1>1, <1>2, Numbers DEF Working, Running
  <1>6. Running'
    BY <1>1 DEF Running
  <1>7. writer.current # 0 => sent'[writer.current] = sent[writer.current]
    BY <1>2, Numbers DEF Working
  <1>8. Registered'
    <2>1. writer.pc \in {"create", "register", "insert"} => writer.current # 0
      BY DEF Working
    <2> QED
      BY <1>1, <1>6, <1>7, <2>1 DEF Registered
  <1>9. Grown /\ AllRows' \subseteq AllRows
    BY <1>1, <1>2 DEF Grown, AllRows
  <1>10. Kept'
    <2>1. \A row \in disk'.rows : row.ord < disk'.meta.next_ord
      BY <1>1 DEF Kept
    <2>2. (\A row \in AllRows' : row.ord < writer'.next_ord) /\ disk'.meta.next_ord <= writer'.next_ord
      BY <1>1, <1>9 DEF Kept
    <2>3. ASSUME NEW i \in 1 .. Len(queue'), queue'[i].kind = "event"
          PROVE  \/ Len(sent) < queue'[i].n
                 \/ \E j \in 1 .. Len(queue) : queue[j].kind = "event" /\ queue[j].n = queue'[i].n
      <3>1. CASE i \in 1 .. Len(queue)
        BY <1>3, <2>3, <3>1
      <3>2. CASE i = Len(queue) + 1
        BY <1>2, <1>3, <3>2
      <3> QED
        BY <1>3, <3>1, <3>2
    <2> QED
      BY <1>1, <1>4, <1>9, <2>1, <2>2, <2>3, KeptMono
  <1> HIDE DEF N
  <1>11. Queued'
    <2>1. ASSUME NEW i \in 1 .. Len(queue'), queue'[i].kind = "event"
          PROVE  /\ queue'[i].n \in 1 .. Len(sent') /\ writer'.current < queue'[i].n
                 /\ \A k \in i + 1 .. Len(queue') :
                      queue'[k].kind = "event" => queue'[i].n < queue'[k].n
      <3>1. CASE i \in 1 .. Len(queue)
        <4>1. /\ queue[i].n \in 1 .. Len(sent) /\ writer.current < queue[i].n
              /\ \A k \in i + 1 .. Len(queue) : queue[k].kind = "event" => queue[i].n < queue[k].n
          BY <1>3, <2>1, <3>1 DEF Queued
        <4>2. \A k \in i + 1 .. Len(queue') : k \in i + 1 .. Len(queue) \/ k = Len(queue) + 1
          BY <1>3
        <4>3. \A k \in i + 1 .. Len(queue) : queue'[k] = queue[k]
          BY <1>3, <3>1
        <4> QED
          BY <1>1, <1>2, <1>3, <3>1, <4>1, <4>2, <4>3 DEF N
      <3>2. CASE i = Len(queue) + 1
        BY <1>1, <1>2, <1>3, <3>2, Numbers DEF Working, N
      <3> QED
        BY <1>3, <3>1, <3>2
    <2>2. ASSUME NEW i \in 1 .. Len(queue'), queue'[i].kind = "flush"
          PROVE  /\ queue'[i].n \in 1 .. Len(flushes) /\ flushes[queue'[i].n].mark <= Len(sent')
                 /\ \A k \in i + 1 .. Len(queue') :
                      queue'[k].kind = "event" => flushes[queue'[i].n].mark < queue'[k].n
                 /\ \A n \in flushes[queue'[i].n].mark + 1 .. Len(sent') :
                      \E k \in i + 1 .. Len(queue') : queue'[k] = Event(n)
      <3>1. i \in 1 .. Len(queue) /\ queue'[i] = queue[i] /\ queue[i].kind = "flush"
        BY <1>3, <2>2
      <3>2. /\ queue[i].n \in 1 .. Len(flushes) /\ flushes[queue[i].n].mark <= Len(sent)
            /\ \A k \in i + 1 .. Len(queue) :
                 queue[k].kind = "event" => flushes[queue[i].n].mark < queue[k].n
            /\ \A n \in flushes[queue[i].n].mark + 1 .. Len(sent) :
                 \E k \in i + 1 .. Len(queue) : queue[k] = Event(n)
        BY <3>1 DEF Queued
      <3>3. flushes[queue[i].n].mark \in Nat
        BY <3>2, Numbers
      <3>4. \A k \in i + 1 .. Len(queue') : k \in i + 1 .. Len(queue) \/ k = Len(queue) + 1
        BY <1>3
      <3>5. \A k \in i + 1 .. Len(queue) : queue'[k] = queue[k] /\ k \in i + 1 .. Len(queue')
        BY <1>3, <3>1
      <3>6. Len(queue) + 1 \in i + 1 .. Len(queue')
        BY <1>3, <3>1
      <3>7. \A n \in flushes[queue[i].n].mark + 1 .. Len(sent') :
              n \in flushes[queue[i].n].mark + 1 .. Len(sent) \/ n = N
        BY <1>2, <3>3 DEF N
      <3>8. \A n \in flushes[queue[i].n].mark + 1 .. Len(sent') :
              \E k \in i + 1 .. Len(queue') : queue'[k] = Event(n)
        BY <1>3, <3>2, <3>5, <3>6, <3>7
      <3>9. \A k \in i + 1 .. Len(queue') :
              queue'[k].kind = "event" => flushes[queue[i].n].mark < queue'[k].n
        BY <1>2, <1>3, <3>2, <3>3, <3>4, <3>5 DEF N
      <3> QED
        BY <1>2, <3>1, <3>2, <3>3, <3>8, <3>9 DEF N
    <2> QED
      BY <1>1, <2>1, <2>2 DEF Queued, Event
  <1>12. Reading'
    BY <1>1, <1>9, ReadingMono
  <1>13. LossReported'
    <2>1. ASSUME NEW n \in since' + 1 .. Len(sent'), Tapped(n)', ~writer'.last_error
          PROVE  Safe(n, disk', writer', queue')
      <3>1. CASE n \in 1 .. Len(sent)
        <4>1. n \in since + 1 .. Len(sent) /\ Tapped(n)
          BY <1>1, <1>2, <2>1, <3>1, Numbers DEF Tapped
        <4>2. Safe(n, disk, writer, queue)
          BY <1>1, <2>1, <4>1, LossIs
        <4> QED
          BY <1>1, <1>3, <4>2 DEF Safe
      <3>2. CASE n = N
        <4>1. Len(queue) + 1 \in 1 .. Len(queue')
          BY <1>3
        <4> QED
          BY <1>3, <3>2, <4>1 DEF Safe
      <3> QED
        BY <1>1, <1>2, <2>1, <3>1, <3>2, Numbers DEF N
    <2> QED
      BY <2>1 DEF LossReported, Safe, Stored, Pending
  <1>14. FlushKeepsPromise'
    BY <1>1 DEF FlushKeepsPromise, Stored
  <1> QED
    BY <1>4, <1>5, <1>8, <1>10, <1>11, <1>12, <1>13, <1>14

(* A flush() is queued behind every event appended so far.                  *)
LEMMA FlushCallStep == TapLogInv /\ flush => TapLogInv'
  <1> SUFFICES ASSUME TapLogInv, flush PROVE TapLogInv'
    OBVIOUS
  <1> USE DEF TapLogInv
  <1> DEFINE F == Len(flushes) + 1
  <1>1. /\ UNCHANGED <<disk, writer, reader, sent, since, promised>> /\ Running
        /\ flushes' = Append(flushes, [answer |-> "none", mark |-> Len(sent)])
        /\ queue' = Append(queue, Flush(F))
    BY DEF flush, history
  <1>2. /\ Len(flushes') = F /\ Len(flushes) \in Nat /\ flushes'[F].mark = Len(sent)
        /\ F \in 1 .. Len(flushes') /\ Len(sent) \in Nat
        /\ \A f \in 1 .. Len(flushes) : flushes'[f] = flushes[f]
    BY <1>1 DEF TypeOK
  <1>3. /\ Len(queue') = Len(queue) + 1 /\ Len(queue) \in Nat
        /\ \A i \in 1 .. Len(queue) : queue'[i] = queue[i]
        /\ queue'[Len(queue) + 1] = Flush(F) /\ Flush(F).kind = "flush" /\ Flush(F).n = F
    <2>1. Flush(F) \in Cmd
      BY <1>2 DEF Flush, Cmd
    <2> QED
      BY <1>1, <2>1, Numbers, QueueType DEF Flush
  <1> HIDE DEF F
  <1>4. TypeOK'
    BY CallerType
  <1>5. Working'
    BY <1>1 DEF Working, Running
  <1>6. Running'
    BY <1>1 DEF Running
  <1>7. Registered'
    BY <1>1, <1>6 DEF Registered
  <1>8. \A i \in 1 .. Len(queue') : i \in 1 .. Len(queue) \/ i = Len(queue) + 1
    BY <1>3
  <1>9. \A i \in 1 .. Len(queue') : queue'[i].kind = "event" =>
          i \in 1 .. Len(queue) /\ queue'[i] = queue[i]
    BY <1>3, <1>8
  <1>10. Kept'
    <2>1. Grown /\ AllRows' \subseteq AllRows
      BY <1>1, Numbers DEF Grown, AllRows
    <2>2. \A row \in disk'.rows : row.ord < disk'.meta.next_ord
      BY <1>1 DEF Kept
    <2>3. (\A row \in AllRows' : row.ord < writer'.next_ord) /\ disk'.meta.next_ord <= writer'.next_ord
      BY <1>1, <2>1 DEF Kept
    <2> QED
      BY <1>1, <1>4, <1>9, <2>1, <2>2, <2>3, KeptMono
  <1>11. Queued'
    <2>1. ASSUME NEW i \in 1 .. Len(queue'), queue'[i].kind = "event"
          PROVE  /\ queue'[i].n \in 1 .. Len(sent) /\ writer.current < queue'[i].n
                 /\ \A k \in i + 1 .. Len(queue') :
                      queue'[k].kind = "event" => queue'[i].n < queue'[k].n
      <3>1. i \in 1 .. Len(queue) /\ queue'[i] = queue[i]
        BY <1>9, <2>1
      <3>2. \A k \in i + 1 .. Len(queue') : k \in 1 .. Len(queue')
        BY <1>3
      <3>3. \A k \in i + 1 .. Len(queue') : queue'[k].kind = "event" =>
              k \in i + 1 .. Len(queue) /\ queue'[k] = queue[k]
        BY <1>3, <1>9, <3>2
      <3> QED
        BY <2>1, <3>1, <3>3 DEF Queued
    <2>2. ASSUME NEW i \in 1 .. Len(queue'), queue'[i].kind = "flush"
          PROVE  /\ queue'[i].n \in 1 .. Len(flushes') /\ flushes'[queue'[i].n].mark <= Len(sent)
                 /\ \A k \in i + 1 .. Len(queue') :
                      queue'[k].kind = "event" => flushes'[queue'[i].n].mark < queue'[k].n
                 /\ \A n \in flushes'[queue'[i].n].mark + 1 .. Len(sent) :
                      \E k \in i + 1 .. Len(queue') : queue'[k] = Event(n)
      <3>1. CASE i = Len(queue) + 1
        BY <1>2, <1>3, <3>1
      <3>2. CASE i \in 1 .. Len(queue)
        <4>1. /\ queue'[i] = queue[i] /\ queue[i].kind = "flush"
          BY <1>3, <2>2, <3>2
        <4>2. /\ queue[i].n \in 1 .. Len(flushes) /\ flushes[queue[i].n].mark <= Len(sent)
              /\ \A k \in i + 1 .. Len(queue) :
                   queue[k].kind = "event" => flushes[queue[i].n].mark < queue[k].n
              /\ \A n \in flushes[queue[i].n].mark + 1 .. Len(sent) :
                   \E k \in i + 1 .. Len(queue) : queue[k] = Event(n)
          BY <3>2, <4>1 DEF Queued
        <4>3. flushes'[queue'[i].n] = flushes[queue[i].n] /\ queue'[i].n \in 1 .. Len(flushes')
          BY <1>2, <4>1, <4>2 DEF F
        <4>4. \A k \in i + 1 .. Len(queue) : queue'[k] = queue[k] /\ k \in i + 1 .. Len(queue')
          BY <1>3, <3>2
        <4>5. \A k \in i + 1 .. Len(queue') : queue'[k].kind = "event" =>
                k \in i + 1 .. Len(queue) /\ queue'[k] = queue[k]
          <5>1. \A k \in i + 1 .. Len(queue') : k \in 1 .. Len(queue')
            BY <1>3
          <5> QED
            BY <1>3, <1>9, <5>1
        <4> QED
          BY <4>1, <4>2, <4>3, <4>4, <4>5
      <3> QED
        BY <1>8, <3>1, <3>2
    <2> QED
      BY <1>1, <2>1, <2>2 DEF Queued, Event
  <1>12. Reading'
    BY <1>1 DEF Reading
  <1>13. LossReported'
    <2>1. ASSUME NEW n, Safe(n, disk, writer, queue)
          PROVE  Safe(n, disk', writer', queue')
      BY <1>1, <1>3, <2>1 DEF Safe
    <2> QED
      BY <1>1, <1>6, <2>1, LossMono
  <1>14. FlushKeepsPromise'
    BY <1>1 DEF FlushKeepsPromise, Stored
  <1> QED
    BY <1>4, <1>5, <1>7, <1>10, <1>11, <1>12, <1>13, <1>14

-----------------------------------------------------------------------------
(* What a commit, or the end of a batch, leaves of the rows.                *)
LEMMA CommitKeeps ==
  ASSUME TypeOK, Working, Kept, Running, disk' \in {disk, Committed},
         (disk' = disk /\ writer'.tx = writer.tx) \/ writer'.tx = {},
         writer'.next_ord = writer.next_ord, sent' = sent
  PROVE  /\ Grown /\ disk.rows \subseteq disk'.rows /\ AllRows' \subseteq AllRows
         /\ disk'.streams = disk.streams /\ disk'.tables = disk.tables
         /\ \A row \in disk'.rows : row.ord < disk'.meta.next_ord
         /\ \A row \in AllRows' : row.ord < writer'.next_ord
         /\ disk'.meta.next_ord <= writer'.next_ord
         /\ disk' = Committed => writer.tx \subseteq disk'.rows
  <1>1. disk'.streams = disk.streams /\ disk'.tables = disk.tables
    BY CommitType
  <1>2. /\ disk'.rows \in {disk.rows, disk.rows \cup writer.tx}
        /\ disk' = Committed => writer.tx \subseteq disk'.rows
    BY CommitType DEF Working
  <1>3. AllRows' \subseteq AllRows
    BY <1>2 DEF AllRows
  <1>4. \A row \in AllRows : row.ord < writer.next_ord
    BY DEF Kept
  <1>5. \A row \in disk.rows : row.ord < disk.meta.next_ord
    BY DEF Kept
  <1>6. \A row \in disk'.rows : row.ord < disk'.meta.next_ord
    <2>1. CASE disk' = disk
      BY <1>5, <2>1
    <2>2. CASE disk' = Committed /\ writer.tx_open
      BY <1>4, <2>2, CommitType DEF AllRows
    <2>3. CASE disk' = Committed /\ ~writer.tx_open
      BY <1>5, <2>3, CommitType
    <2> QED
      BY <2>1, <2>2, <2>3
  <1>7. disk'.meta.next_ord <= writer.next_ord
    <2>1. disk.meta.next_ord <= writer.next_ord
      BY DEF Kept
    <2> QED
      BY <2>1, CommitType, Numbers
  <1> QED
    BY <1>1, <1>2, <1>3, <1>4, <1>6, <1>7, Numbers DEF Grown

(* The queue without its head.                                              *)
LEMMA TailSafe ==
  ASSUME TypeOK, queue # <<>>, queue' = Tail(queue), NEW n, NEW i \in 1 .. Len(queue),
         queue[i].kind = "event", queue[i].n = n
  PROVE  i = 1 \/ \E j \in 1 .. Len(queue') : queue'[j].kind = "event" /\ queue'[j].n = n
  <1>1. CASE i # 1
    <2>1. i - 1 \in 1 .. Len(queue') /\ queue'[i - 1] = queue[(i - 1) + 1] /\ (i - 1) + 1 = i
      BY <1>1, QueueType
    <2> QED
      BY <2>1
  <1> QED
    BY <1>1

(* The writer takes an event.                                               *)
LEMMA EventStep ==
  ASSUME TapLogInv, NEW ok \in BOOLEAN, HandleEvent(ok)
  PROVE  TapLogInv'
  <1> USE DEF TapLogInv
  <1> DEFINE n == queue[1].n
  <1>1. /\ TypeOK'
        /\ queue # <<>> /\ queue' = Tail(queue) /\ queue[1].kind = "event"
        /\ writer.pc \in {"recv", "drain"} /\ writer'.pc \in {"drain", "insert", "create"}
        /\ UNCHANGED <<reader, sent, flushes, since, promised, crashes>>
        /\ disk' \in {disk, Committed}
        /\ writer'.shards = writer.shards /\ writer'.next_ord = writer.next_ord
        /\ writer'.next_shard = writer.next_shard /\ (writer.last_error => writer'.last_error)
    BY EventShape
  <1>2. \/ /\ sent[n] \notin Streams /\ disk' = disk /\ writer'.tx = writer.tx
           /\ writer'.tx_open = writer.tx_open /\ writer'.pc = "drain" /\ writer'.current = 0
        \/ /\ sent[n] \in DOMAIN writer.shards /\ disk' = disk
           /\ writer'.tx = writer.tx /\ writer'.tx_open = writer.tx_open
           /\ writer'.pc = "insert" /\ writer'.current = n
        \/ /\ sent[n] \notin DOMAIN writer.shards \cup Untaggable \cup {Control}
           /\ disk' = Committed /\ writer'.tx = {} /\ writer'.tx_open = FALSE
           /\ writer'.pc = "create" /\ writer'.current = n
        \/ /\ disk' = disk /\ writer'.tx = {} /\ writer'.tx_open = FALSE
           /\ writer'.pc = "drain" /\ writer'.current = 0 /\ writer'.last_error
    BY EventShape
  <1>3. /\ 1 \in 1 .. Len(queue) /\ n \in 1 .. Len(sent) /\ writer.current = 0 /\ Running /\ Running'
        /\ Len(sent) \in Nat
    <2>1. 1 \in 1 .. Len(queue)
      BY <1>1, QueueType
    <2> QED
      BY <1>1, <2>1, Numbers DEF Queued, Working, Running
  <1>4. /\ Grown /\ disk.rows \subseteq disk'.rows /\ AllRows' \subseteq AllRows
        /\ disk'.streams = disk.streams /\ disk'.tables = disk.tables
        /\ \A row \in disk'.rows : row.ord < disk'.meta.next_ord
        /\ \A row \in AllRows' : row.ord < writer'.next_ord
        /\ disk'.meta.next_ord <= writer'.next_ord
        /\ disk' = Committed => writer.tx \subseteq disk'.rows
    BY <1>1, <1>2, <1>3, CommitKeeps
  <1>5. Working'
    BY <1>1, <1>2, <1>3 DEF Working
  <1>6. Registered'
    <2>1. sent[n] \in Streams \cup Untaggable \cup {Control}
      BY <1>3 DEF TypeOK
    <2> QED
      BY <1>1, <1>2, <1>3, <1>4, <2>1 DEF Registered
  <1>7. Kept'
    <2>1. ASSUME NEW i \in 1 .. Len(queue'), queue'[i].kind = "event"
          PROVE  \E j \in 1 .. Len(queue) : queue[j].kind = "event" /\ queue[j].n = queue'[i].n
      <3>1. i + 1 \in 1 .. Len(queue) /\ queue'[i] = queue[i + 1]
        BY <1>1, QueueType
      <3> QED
        BY <2>1, <3>1
    <2>2. writer'.current = 0 \/ (queue[1].kind = "event" /\ queue[1].n = writer'.current)
      BY <1>1, <1>2
    <2> QED
      BY <1>1, <1>3, <1>4, <2>1, <2>2, KeptMono
  <1>8. Queued'
    BY <1>1, <1>2, QueuedTail
  <1>9. Reading'
    BY <1>1, <1>4, ReadingMono
  <1>10. LossReported'
    <2>1. ASSUME NEW k \in 1 .. Len(sent), Tapped(k), Safe(k, disk, writer, queue), ~writer'.last_error
          PROVE  Safe(k, disk', writer', queue')
      <3>1. CASE \E row \in disk.rows : row.n = k
        BY <1>4, <3>1 DEF Safe
      <3>2. CASE \E row \in writer.tx : row.n = k
        BY <1>2, <1>4, <2>1, <3>2 DEF Safe
      <3>3. CASE \E i \in 1 .. Len(queue) : queue[i].kind = "event" /\ queue[i].n = k
        <4>1. PICK i \in 1 .. Len(queue) : queue[i].kind = "event" /\ queue[i].n = k
          BY <3>3
        <4>2. CASE i = 1
          BY <1>2, <2>1, <4>1, <4>2 DEF Safe, Tapped
        <4>3. CASE i # 1
          BY <1>1, <4>1, <4>3, TailSafe DEF Safe
        <4> QED
          BY <4>2, <4>3
      <3> QED
        BY <1>3, <2>1, <3>1, <3>2, <3>3 DEF Safe
    <2> QED
      BY <1>1, <1>3, <2>1, LossMono
  <1>11. FlushKeepsPromise'
    BY <1>1, <1>4 DEF FlushKeepsPromise, Stored
  <1> QED
    BY <1>1, <1>5, <1>6, <1>7, <1>8, <1>9, <1>10, <1>11

(* A new table: the number it was made under is no longer the next one.     *)
LEMMA CreateStep ==
  ASSUME TapLogInv, NEW ok \in BOOLEAN, CreateShard(ok)
  PROVE  TapLogInv'
  <1> USE DEF TapLogInv
  <1>1. /\ TypeOK'
        /\ writer.pc = "create" /\ UNCHANGED <<queue, reader, sent, flushes, since, promised>>
        /\ disk'.rows = disk.rows /\ disk'.meta = disk.meta /\ disk'.streams = disk.streams
        /\ writer'.next_shard = writer.next_shard + 1 /\ writer'.next_ord = writer.next_ord
        /\ writer'.shards = writer.shards /\ writer'.tx = writer.tx
        /\ writer'.tx_open = writer.tx_open /\ (writer.last_error => writer'.last_error)
    BY CreateShape
  <1>2. \/ /\ writer'.pc = "register" /\ writer'.current = writer.current
           /\ disk'.tables = disk.tables \cup {writer.next_shard}
        \/ /\ writer'.pc = "drain" /\ writer'.current = 0 /\ writer'.last_error
           /\ disk'.tables = disk.tables
    BY CreateShape
  <1>3. writer.current # 0 /\ Running /\ Running'
    BY <1>1, <1>2 DEF Working, Running
  <1>4. Working'
    <2>1. writer'.tx # {} => writer'.tx_open
      BY <1>1 DEF Working
    <2>2. writer'.current <= Len(sent')
      BY <1>1, <1>2, Numbers DEF Working
    <2> QED
      BY <1>2, <1>3, <2>1, <2>2 DEF Working
  <1>5. Registered'
    <2>1. (\A t \in disk.tables : t < writer.next_shard) /\ writer.shards = disk.streams
      BY <1>3 DEF Registered
    <2>2. \A t \in disk'.tables : t < writer'.next_shard
      BY <1>1, <1>2, <2>1, Numbers
    <2>3. disk'.tables # {} => \E m \in disk'.tables : \A t \in disk'.tables : t <= m
      <3>1. CASE disk'.tables = disk.tables
        BY <3>1 DEF Registered
      <3>2. CASE disk'.tables = disk.tables \cup {writer.next_shard}
        <4>1. writer.next_shard \in disk'.tables
          BY <3>2
        <4>2. \A x \in disk'.tables : x <= writer.next_shard
          BY <2>1, <3>2, Numbers
        <4> QED
          BY <4>1, <4>2
      <3> QED
        BY <1>2, <3>1, <3>2
    <2>4. disk.tables \subseteq disk'.tables
      BY <1>2
    <2>5. \A s \in DOMAIN disk.streams : disk.streams[s] \in disk.tables
      BY DEF Registered
    <2>6. writer'.pc = "register" =>
            /\ writer'.next_shard - 1 \in disk'.tables
            /\ \A s \in DOMAIN disk'.streams : disk'.streams[s] # writer'.next_shard - 1
      <3>1. writer'.next_shard - 1 = writer.next_shard
        BY <1>1, Numbers
      <3>2. \A s \in DOMAIN disk.streams : disk.streams[s] # writer.next_shard
        BY <2>1, <2>5, Numbers
      <3>3. writer'.pc = "register" => writer.next_shard \in disk'.tables
        BY <1>2
      <3> QED
        BY <1>1, <3>1, <3>2, <3>3
    <2>7. sent[writer.current] \in Streams \ DOMAIN disk.streams
      BY <1>1 DEF Registered
    <2> QED
      BY <1>1, <1>2, <2>1, <2>2, <2>3, <2>4, <2>5, <2>6, <2>7 DEF Registered
  <1>6. Grown /\ AllRows' = AllRows
    BY <1>1, Numbers DEF Grown, AllRows
  <1>7. Kept'
    <2>1. \A row \in disk'.rows : row.ord < disk'.meta.next_ord
      BY <1>1 DEF Kept
    <2>2. (\A row \in AllRows' : row.ord < writer'.next_ord) /\ disk'.meta.next_ord <= writer'.next_ord
      BY <1>1, <1>3, <1>6 DEF Kept
    <2> QED
      BY <1>1, <1>2, <1>6, <2>1, <2>2, KeptMono
  <1>8. Queued'
    BY <1>1, <1>2, QueuedQuiet
  <1>9. Reading'
    BY <1>1, <1>6, ReadingMono
  <1>10. LossReported'
    <2>1. ASSUME ~writer'.last_error, NEW n, Safe(n, disk, writer, queue)
          PROVE  Safe(n, disk', writer', queue')
      BY <1>1, <1>2, <2>1 DEF Safe
    <2> QED
      BY <1>1, <1>3, <2>1, LossMono
  <1>11. FlushKeepsPromise'
    BY <1>1 DEF FlushKeepsPromise, Stored
  <1> QED
    BY <1>1, <1>4, <1>5, <1>7, <1>8, <1>9, <1>10, <1>11

(* The registry row: the stream gets a table no other stream has.           *)
LEMMA RegisterStep ==
  ASSUME TapLogInv, NEW ok \in BOOLEAN, RegisterShard(ok)
  PROVE  TapLogInv'
  <1> USE DEF TapLogInv
  <1> DEFINE s == sent[writer.current]
  <1>1. /\ writer.pc = "register" /\ writer.current # 0 /\ Running
    BY DEF RegisterShard, Working, Running
  <1>2. /\ writer.shards = disk.streams /\ s \in Streams \ DOMAIN disk.streams
        /\ writer.next_shard - 1 \in disk.tables /\ writer.next_shard - 1 \in Nat
        /\ \A t \in DOMAIN disk.streams : disk.streams[t] # writer.next_shard - 1
    BY <1>1, Numbers DEF Registered
  <1>3. /\ TypeOK'
        /\ UNCHANGED <<queue, reader, sent, flushes, since, promised>>
        /\ disk'.rows = disk.rows /\ disk'.meta = disk.meta /\ disk'.tables = disk.tables
        /\ writer'.next_shard = writer.next_shard /\ writer'.next_ord = writer.next_ord
        /\ writer'.tx = writer.tx /\ writer'.tx_open = writer.tx_open
        /\ (writer.last_error => writer'.last_error)
        /\ writer'.shards = disk'.streams
    BY <1>2, RegisterShape
  <1>4. \/ /\ writer'.pc = "insert" /\ writer'.current = writer.current
           /\ DOMAIN disk'.streams = DOMAIN disk.streams \cup {s}
           /\ \A t \in DOMAIN disk'.streams :
                disk'.streams[t] = IF t = s THEN writer.next_shard - 1 ELSE disk.streams[t]
        \/ /\ writer'.pc = "drain" /\ writer'.current = 0 /\ writer'.last_error
           /\ disk'.streams = disk.streams
    BY <1>2, RegisterShape
  <1>5. Running'
    BY <1>4 DEF Running
  <1>6. Working'
    <2>1. writer'.tx # {} => writer'.tx_open
      BY <1>3 DEF Working
    <2>2. writer'.current <= Len(sent')
      BY <1>3, <1>4, Numbers DEF Working
    <2> QED
      BY <1>1, <1>4, <1>5, <2>1, <2>2 DEF Working
  <1>7. Registered'
    <2>1. \A t \in disk'.tables : t < writer'.next_shard
      BY <1>1, <1>3 DEF Registered
    <2>2. disk'.tables # {} => \E m \in disk'.tables : \A t \in disk'.tables : t <= m
      BY <1>3 DEF Registered
    <2>3. \A t \in DOMAIN disk'.streams : disk'.streams[t] \in disk'.tables
      BY <1>2, <1>3, <1>4 DEF Registered
    <2>4. \A a, b \in DOMAIN disk'.streams : disk'.streams[a] = disk'.streams[b] => a = b
      BY <1>2, <1>4 DEF Registered
    <2>5. writer'.pc = "insert" => sent'[writer'.current] \in DOMAIN disk'.streams
      BY <1>3, <1>4
    <2> QED
      BY <1>3, <1>4, <2>1, <2>2, <2>3, <2>4, <2>5 DEF Registered
  <1>8. Grown /\ AllRows' = AllRows
    BY <1>2, <1>3, <1>4, Numbers DEF Grown, AllRows
  <1>9. Kept'
    <2>1. \A row \in disk'.rows : row.ord < disk'.meta.next_ord
      BY <1>3 DEF Kept
    <2>2. (\A row \in AllRows' : row.ord < writer'.next_ord) /\ disk'.meta.next_ord <= writer'.next_ord
      BY <1>1, <1>3, <1>8 DEF Kept
    <2> QED
      BY <1>3, <1>4, <1>8, <2>1, <2>2, KeptMono
  <1>10. Queued'
    BY <1>3, <1>4, QueuedQuiet
  <1>11. Reading'
    BY <1>3, <1>8, ReadingMono
  <1>12. LossReported'
    <2>1. ASSUME ~writer'.last_error, NEW n, Safe(n, disk, writer, queue)
          PROVE  Safe(n, disk', writer', queue')
      BY <1>3, <1>4, <2>1 DEF Safe
    <2> QED
      BY <1>1, <1>3, <2>1, LossMono
  <1>13. FlushKeepsPromise'
    BY <1>3 DEF FlushKeepsPromise, Stored
  <1> QED
    BY <1>3, <1>6, <1>7, <1>9, <1>10, <1>11, <1>12, <1>13

(* The row of the event in hand is the last in both orders.                 *)
LEMMA InsertStep ==
  ASSUME TapLogInv, NEW ok \in BOOLEAN, NEW began \in BOOLEAN, InsertRow(began, ok)
  PROVE  TapLogInv'
  <1> USE DEF TapLogInv
  <1> DEFINE c == writer.current
             new == [shard |-> writer.shards[sent[c]], ord |-> writer.next_ord, n |-> c]
  <1>1. /\ writer.pc = "insert" /\ c # 0 /\ c \in 1 .. Len(sent) /\ Running
        /\ writer.shards = disk.streams /\ sent[c] \in DOMAIN disk.streams
    BY Numbers DEF InsertRow, Working, Running, Registered
  <1>2. /\ TypeOK'
        /\ UNCHANGED <<disk, queue, reader, sent, flushes, since, promised>>
        /\ writer'.next_shard = writer.next_shard /\ writer'.next_ord = writer.next_ord + 1
        /\ writer'.shards = writer.shards /\ (writer.last_error => writer'.last_error)
        /\ writer'.pc = "drain" /\ writer'.current = 0
        /\ writer'.tx # {} => writer'.tx_open
        /\ writer'.tx = writer.tx \cup {new} \/ (writer'.tx = writer.tx /\ writer'.last_error)
    BY <1>1, InsertShape
  <1>3. Running'
    BY <1>2 DEF Running
  <1>4. Working'
    BY <1>2, <1>3, Numbers DEF Working
  <1>5. Registered'
    BY <1>1, <1>2, <1>3 DEF Registered
  <1>6. /\ new.n = c /\ new.ord = writer.next_ord /\ new.shard = disk.streams[sent[c]]
        /\ AllRows' \subseteq AllRows \cup {new}
    BY <1>1, <1>2 DEF AllRows
  <1> HIDE DEF new
  <1>7. \A row \in AllRows : row.ord < writer.next_ord /\ row.n < c
    BY <1>1 DEF Kept
  <1>8. Kept'
    <2>1. ASSUME NEW row \in AllRows'
          PROVE  /\ row.n \in 1 .. Len(sent) /\ sent[row.n] \in DOMAIN disk.streams
                 /\ row.shard = disk.streams[sent[row.n]]
                 /\ row.ord < writer'.next_ord
                 /\ \A i \in 1 .. Len(queue) : queue[i].kind = "event" => row.n < queue[i].n
      <3>1. CASE row \in AllRows
        BY <1>2, <1>7, <3>1, Numbers DEF Kept
      <3>2. CASE row = new
        BY <1>1, <1>2, <1>6, <3>2, Numbers DEF Queued
      <3> QED
        BY <1>6, <3>1, <3>2
    <2>2. \A a, b \in AllRows' : a = b \/ Before(a, b) \/ Before(b, a)
      <3>1. \A a \in AllRows : Before(a, new)
        BY <1>6, <1>7 DEF Before
      <3>2. \A a, b \in AllRows : a = b \/ Before(a, b) \/ Before(b, a)
        BY DEF Kept
      <3> QED
        BY <1>6, <3>1, <3>2
    <2>3. /\ \A row \in disk.rows : row.ord < disk.meta.next_ord
          /\ disk.meta.next_ord <= writer'.next_ord
      BY <1>1, <1>2, Numbers DEF Kept
    <2> QED
      BY <1>2, <2>1, <2>2, <2>3 DEF Kept, Before
  <1>9. Queued'
    BY <1>2, QueuedQuiet
  <1>10. Reading'
    BY <1>2 DEF Reading
  <1>11. LossReported'
    <2>1. ASSUME ~writer'.last_error, NEW n, n # 0, Safe(n, disk, writer, queue)
          PROVE  Safe(n, disk', writer', queue')
      <3>1. writer'.tx = writer.tx \cup {new}
        BY <1>2, <2>1
      <3>2. CASE c = n
        BY <1>6, <3>1, <3>2 DEF Safe
      <3>3. CASE c # n
        BY <1>2, <2>1, <3>1, <3>3 DEF Safe
      <3> QED
        BY <3>2, <3>3
    <2>2. \A n \in 1 .. Len(sent) : n # 0
      BY Numbers
    <2> QED
      BY <1>1, <1>2, <2>1, <2>2, LossMono
  <1>12. FlushKeepsPromise'
    BY <1>2 DEF FlushKeepsPromise, Stored
  <1> QED
    BY <1>2, <1>4, <1>5, <1>8, <1>9, <1>10, <1>11, <1>12

(* The flush: what it answers for is on disk, or an error is reported; what *)
(* it does not answer for is still behind it in the queue.                  *)
LEMMA FlushStep ==
  ASSUME TapLogInv, NEW ok \in BOOLEAN, HandleFlush(ok)
  PROVE  TapLogInv'
  <1> USE DEF TapLogInv
  <1> DEFINE f == queue[1].n
             mark == flushes[f].mark
  <1>1. /\ TypeOK'
        /\ queue # <<>> /\ queue' = Tail(queue) /\ queue[1].kind = "flush"
        /\ writer.pc \in {"recv", "drain"} /\ writer'.pc = "drain"
        /\ UNCHANGED <<reader, sent>> /\ disk' \in {disk, Committed}
        /\ writer'.shards = writer.shards /\ writer'.next_ord = writer.next_ord
        /\ writer'.next_shard = writer.next_shard
        /\ writer'.tx = {} /\ writer'.tx_open = FALSE /\ writer.current = 0 /\ writer'.current = 0
        /\ f \in 1 .. Len(flushes) /\ Len(flushes') = Len(flushes)
        /\ \A g \in 1 .. Len(flushes) : flushes'[g].mark = flushes[g].mark
        /\ since' = mark
    BY FlushShape
  <1>2. \/ promised' = promised
        \/ /\ disk' = Committed /\ ~writer.last_error
           /\ promised' = promised \cup {n \in since + 1 .. mark : Tapped(n)}
    BY FlushShape
  <1>3. Running /\ Running'
    BY <1>1 DEF Running
  <1>4. /\ Grown /\ disk.rows \subseteq disk'.rows /\ AllRows' \subseteq AllRows
        /\ disk'.streams = disk.streams /\ disk'.tables = disk.tables
        /\ \A row \in disk'.rows : row.ord < disk'.meta.next_ord
        /\ \A row \in AllRows' : row.ord < writer'.next_ord
        /\ disk'.meta.next_ord <= writer'.next_ord
        /\ disk' = Committed => writer.tx \subseteq disk'.rows
    BY <1>1, <1>3, CommitKeeps
  <1>5. Working'
    BY <1>1, <1>3, Numbers DEF Working
  <1>6. Registered'
    BY <1>1, <1>3, <1>4 DEF Registered
  <1>7. \A i \in 1 .. Len(queue') : i + 1 \in 1 + 1 .. Len(queue) /\ queue'[i] = queue[i + 1]
    BY <1>1, QueueType
  <1>8. Kept'
    <2>1. ASSUME NEW i \in 1 .. Len(queue'), queue'[i].kind = "event"
          PROVE  \E j \in 1 .. Len(queue) : queue[j].kind = "event" /\ queue[j].n = queue'[i].n
      <3>1. i + 1 \in 1 .. Len(queue) /\ queue'[i] = queue[i + 1]
        BY <1>7
      <3> QED
        BY <2>1, <3>1
    <2> QED
      BY <1>1, <1>4, <2>1, KeptMono
  <1>9. Queued'
    BY <1>1, QueuedTail
  <1>10. Reading'
    BY <1>1, <1>4, ReadingMono
  <1>11. /\ 1 \in 1 .. Len(queue) /\ mark <= Len(sent) /\ mark \in Nat
         /\ \A k \in 1 + 1 .. Len(queue) : queue[k].kind = "event" => mark < queue[k].n
         /\ \A n \in mark + 1 .. Len(sent) : \E k \in 1 + 1 .. Len(queue) : queue[k] = Event(n)
    <2>1. 1 \in 1 .. Len(queue)
      BY <1>1, QueueType
    <2>2. mark \in Nat
      BY <1>1, Numbers
    <2> QED
      BY <1>1, <2>1, <2>2 DEF Queued
  <1>12. LossReported'
    <2>1. ASSUME NEW n \in mark + 1 .. Len(sent)
          PROVE  Safe(n, disk', writer', queue')
      <3>1. PICK k \in 1 + 1 .. Len(queue) : queue[k] = Event(n)
        BY <1>11
      <3>2. queue[k].kind = "event" /\ queue[k].n = n /\ k \in 1 .. Len(queue) /\ k # 1
        BY <3>1 DEF Event
      <3> QED
        <4>1. \E j \in 1 .. Len(queue') : queue'[j].kind = "event" /\ queue'[j].n = n
          BY <1>1, <3>2, TailSafe
        <4> QED
          BY <4>1 DEF Safe
    <2> QED
      BY <1>1, <2>1 DEF LossReported, Safe, Stored, Pending
  <1>13. FlushKeepsPromise'
    <2>1. promised \subseteq Stored'
      BY <1>4 DEF FlushKeepsPromise, Stored
    <2>2. ASSUME disk' = Committed, ~writer.last_error, NEW n \in since + 1 .. mark, Tapped(n)
          PROVE  n \in Stored'
      <3>1. n \in since + 1 .. Len(sent) /\ n # 0
        <4>1. since \in Nat /\ Len(sent) \in Nat
          BY Numbers
        <4>2. mark <= Len(sent) /\ mark \in Nat
          BY <1>11
        <4> HIDE DEF mark
        <4> QED
          BY <4>1, <4>2
      <3>2. Safe(n, disk, writer, queue)
        BY <1>3, <2>2, <3>1, LossIs
      <3>3. ~ \E i \in 1 .. Len(queue) : queue[i].kind = "event" /\ queue[i].n = n
        <4>1. ASSUME NEW i \in 1 .. Len(queue), queue[i].kind = "event", queue[i].n = n
              PROVE  FALSE
          <5>1. i # 1
            BY <1>1, <4>1
          <5>2. i \in 1 + 1 .. Len(queue)
            BY <5>1, Numbers
          <5>3. mark < n
            BY <1>11, <4>1, <5>2
          <5> QED
            BY <1>11, <5>3, Numbers
        <4> QED
          BY <4>1
      <3>4. \E row \in disk.rows \cup writer.tx : row.n = n
        BY <1>1, <3>1, <3>2, <3>3 DEF Safe
      <3>5. disk.rows \cup writer.tx \subseteq disk'.rows
        BY <1>4, <2>2
      <3> QED
        BY <3>4, <3>5 DEF Stored
    <2> QED
      BY <1>2, <2>1, <2>2 DEF FlushKeepsPromise
  <1> QED
    BY <1>1, <1>5, <1>6, <1>8, <1>9, <1>10, <1>12, <1>13

(* The queue runs empty: the batch is on disk, or its loss remembered.      *)
LEMMA DrainedStep ==
  ASSUME TapLogInv, NEW ok \in BOOLEAN, Drained(ok)
  PROVE  TapLogInv'
  <1> USE DEF TapLogInv
  <1>1. /\ TypeOK'
        /\ queue = <<>> /\ writer.pc = "drain" /\ writer'.pc = "recv"
        /\ UNCHANGED <<queue, reader, sent, flushes, since, promised>>
        /\ disk' \in {disk, Committed}
        /\ writer'.shards = writer.shards /\ writer'.next_ord = writer.next_ord
        /\ writer'.next_shard = writer.next_shard
        /\ writer'.tx = {} /\ writer'.tx_open = FALSE /\ writer.current = 0 /\ writer'.current = 0
        /\ (writer.last_error => writer'.last_error)
        /\ disk' = Committed \/ writer'.last_error
    BY DrainedShape
  <1>2. Running /\ Running'
    BY <1>1 DEF Running
  <1>3. /\ Grown /\ disk.rows \subseteq disk'.rows /\ AllRows' \subseteq AllRows
        /\ disk'.streams = disk.streams /\ disk'.tables = disk.tables
        /\ \A row \in disk'.rows : row.ord < disk'.meta.next_ord
        /\ \A row \in AllRows' : row.ord < writer'.next_ord
        /\ disk'.meta.next_ord <= writer'.next_ord
        /\ disk' = Committed => writer.tx \subseteq disk'.rows
    BY <1>1, <1>2, CommitKeeps
  <1>4. Working'
    BY <1>1, <1>2, Numbers DEF Working
  <1>5. Registered'
    BY <1>1, <1>2, <1>3 DEF Registered
  <1>6. Kept'
    BY <1>1, <1>3, KeptMono
  <1>7. Queued'
    BY <1>1, QueuedQuiet
  <1>8. Reading'
    BY <1>1, <1>3, ReadingMono
  <1>9. LossReported'
    <2>1. ASSUME ~writer'.last_error, NEW n, n # 0, Safe(n, disk, writer, queue)
          PROVE  Safe(n, disk', writer', queue')
      BY <1>1, <1>3, <2>1 DEF Safe
    <2>2. \A n \in 1 .. Len(sent) : n # 0
      BY Numbers
    <2> QED
      BY <1>1, <1>2, <2>1, <2>2, LossMono
  <1>10. FlushKeepsPromise'
    BY <1>1, <1>3 DEF FlushKeepsPromise, Stored
  <1> QED
    BY <1>1, <1>4, <1>5, <1>6, <1>7, <1>8, <1>9, <1>10

-----------------------------------------------------------------------------
(* The invariant holds at the start, every step keeps it, and a step that   *)
(* changes nothing does too.                                                *)
LEMMA TapLogStep == TapLogInv /\ [Next]_vars => TapLogInv'
  <1> SUFFICES ASSUME TapLogInv, [Next]_vars PROVE TapLogInv'
    OBVIOUS
  <1>1. ASSUME NEW ok \in BOOLEAN,
               \/ CreateSchema(ok) \/ stamp_user_version(ok) \/ HandleEvent(ok) \/ CreateShard(ok)
               \/ RegisterShard(ok) \/ HandleFlush(ok) \/ Drained(ok)
               \/ \E began \in BOOLEAN : InsertRow(began, ok)
        PROVE  TapLogInv'
    BY <1>1, DormantStep, EventStep, CreateStep, RegisterStep, InsertStep, FlushStep, DrainedStep
  <1>2. CASE preflight_user_version \/ WriterExits \/ Crash
    BY <1>2, DormantStep
  <1>3. CASE LoadAndSpawn \/ flush \/ DropLog
    BY <1>3, LoadStep, FlushCallStep, DropStep
  <1>4. CASE \E s \in Streams \cup Untaggable \cup {Control} : append(s)
    BY <1>4, AppendStep
  <1>5. CASE (\E r \in Requests : ScanRegistry(r)) \/ (\E g \in reader.regs : ScanShard(g)) \/ EndReplay
    BY <1>5, ReaderStep
  <1>6. CASE UNCHANGED vars
    <2>1. UNCHANGED <<disk, writer, queue, reader, sent, flushes, since, promised, faults, crashes>>
      BY <1>6 DEF vars
    <2>2. TypeOK' /\ Reading'
      BY <2>1 DEF TapLogInv, TypeOK, Reading
    <2> QED
      BY <2>1, <2>2, LogQuiet DEF TapLogInv
  <1> QED
    BY <1>1, <1>2, <1>3, <1>4, <1>5, <1>6 DEF Next, WriterStep

LEMMA TapLogInit == Init => TapLogInv
  <1> SUFFICES ASSUME Init PROVE TapLogInv
    OBVIOUS
  <1>1. /\ disk.rows = {} /\ disk.tables = {} /\ DOMAIN disk.streams = {}
        /\ writer.pc = "closed" /\ writer.tx = {} /\ writer.current = 0 /\ queue = <<>>
        /\ reader.regs = {} /\ reader.rows = {} /\ promised = {} /\ Len(sent) = 0
    BY NoWriterType DEF Init, NoReader
  <1>2. ~Running
    BY <1>1 DEF Running
  <1>3. TypeOK
    BY InitTypeOK
  <1>4. Working /\ Registered /\ Kept /\ Queued /\ Reading /\ LossReported /\ FlushKeepsPromise
    BY <1>1, <1>2 DEF Working, Registered, Kept, AllRows, Queued, Reading, LossReported,
                      FlushKeepsPromise
  <1> QED
    BY <1>3, <1>4 DEF TapLogInv

(* In every reachable state, for every queue, batch and registry the bounds *)
(* allow and any number of them, the parts of the log agree: the inductive  *)
(* invariant of the writer (write_event, ensure_shard, commit_if_open) and  *)
(* of the replay source that reads the file beside it.                      *)
THEOREM TapLogCorrect == Spec => []TapLogInv
  BY TapLogInit, TapLogStep, PTL DEF Spec

(* What flush() answered Ok for is on disk from then on, across every later *)
(* failure and crash.                                                       *)
THEOREM FlushKeepsPromiseCorrect == Spec => []FlushKeepsPromise
  <1>1. TapLogInv => FlushKeepsPromise
    BY DEF TapLogInv
  <1> QED
    BY <1>1, TapLogCorrect, PTL

(* An event the running writer lost is reported by the next flush().        *)
THEOREM LossReportedCorrect == Spec => []LossReported
  <1>1. TapLogInv => LossReported
    BY DEF TapLogInv
  <1> QED
    BY <1>1, TapLogCorrect, PTL

(* A replay that runs beside the writer hands out rows in arrival order,    *)
(* none twice, each under the stream it was appended to: the reader holds   *)
(* rows of the file, and the file has the two orders agree.                 *)
THEOREM ReplayFaithfulCorrect == Spec => []ReplayFaithful
  <1>1. TapLogInv => ReplayFaithful
    <2> SUFFICES ASSUME TapLogInv, NEW a \in reader.rows, NEW b \in reader.rows
                 PROVE  /\ a # b => (a.ord < b.ord /\ a.n < b.n) \/ (b.ord < a.ord /\ b.n < a.n)
                        /\ a.stream = sent[a.n]
      BY DEF ReplayFaithful
    <2>1. PICK v \in disk.rows : v.ord = a.ord /\ v.n = a.n
      BY DEF TapLogInv, Reading
    <2>2. PICK w \in disk.rows : w.ord = b.ord /\ w.n = b.n
      BY DEF TapLogInv, Reading
    <2>3. v = w \/ Before(v, w) \/ Before(w, v)
      BY DEF TapLogInv, Kept, AllRows
    <2>4. a.stream = sent[a.n] /\ b.stream = sent[b.n]
      BY DEF TapLogInv, Reading
    <2>5. v = w => a = b
      <3>1. /\ a \in [ord : Nat, n : Nat, stream : Streams]
            /\ b \in [ord : Nat, n : Nat, stream : Streams]
        BY DEF TapLogInv, TypeOK
      <3> QED
        BY <2>1, <2>2, <2>4, <3>1
    <2> QED
      BY <2>1, <2>2, <2>3, <2>4, <2>5 DEF Before
  <1> QED
    BY <1>1, TapLogCorrect, PTL

=============================================================================

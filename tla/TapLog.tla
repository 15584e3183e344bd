------------------------------- MODULE TapLog -------------------------------
(***************************************************************************)
(* The turso tap log (storage/turso_tap_log.rs, turso_common.rs): a queue, *)
(* one writer task, shard tables with a registry, flush, crash and reopen, *)
(* and the replay source that reads the same file while the writer runs.   *)
(*                                                                         *)
(* An event is its arrival number; sent[n] is the stream (instrument and   *)
(* kind) it belongs to.  The database engine is external: a statement      *)
(* either takes effect or fails, and a COMMIT is atomic and durable.       *)
(***************************************************************************)
EXTENDS Integers, Sequences, FiniteSetsExt

CONSTANTS
    Streams,      \* (instrument, kind) pairs with an on-disk encoding
    Untaggable,   \* pairs whose asset class has no stable tag
    Control,      \* the "stream" of non-data events
    Files,        \* user_version values the file may start with
    Requests,     \* ReplayRequests: [streams, from, to]; {} asks for every stream
    Stamp,        \* source_ts of the n-th event
    MaxSent, MaxFlushes, MaxFaults, MaxCrashes, MaxReplays   \* bounds

TAP_SCHEMA_VERSION == 20

ASSUME TapLogAssumption ==
    /\ Streams \cap Untaggable = {} /\ Control \notin Streams \cup Untaggable
    /\ Files \subseteq Nat /\ 0 \in Files
    /\ \A r \in Requests : r.from \in Int /\ r.to \in Int
    /\ {MaxSent, MaxFlushes, MaxFaults, MaxCrashes, MaxReplays} \subseteq Nat

VARIABLES
    disk,       \* the file: version, schema, meta row, shard tables, registry
    writer,     \* the writer task, or the open() that precedes it
    queue,      \* WriteCmd channel: an event, or [flush |-> f]
    reader,     \* one replay in progress
    sent,       \* history: streams of the events appended, in arrival order
    flushes,    \* history: what each flush() answered
    since,      \* history: events up to here were answered for by a flush
    promised,   \* history: events some flush() answered Ok for
    faults, crashes

vars == <<disk, writer, queue, reader, sent, flushes, since, promised, faults, crashes>>
history == <<since, promised>>

Tables == {"meta", "streams"}
Event(n) == [kind |-> "event", n |-> n]
Flush(f) == [kind |-> "flush", n |-> f]
Tapped(n) == sent[n] \in Streams

NoWriter ==
    [pc |-> "closed", next_shard |-> 0, next_ord |-> 0, shards |-> <<>>, tx_open |-> FALSE,
     tx |-> {}, last_error |-> FALSE, current |-> 0, fresh |-> FALSE, held |-> FALSE]
NoReader == [pc |-> "idle", request |-> 0, regs |-> {}, rows |-> {}]

Init ==
    /\ disk \in {[version |-> v, schema |-> {}, meta |-> [next_shard |-> 0, next_ord |-> 0],
                  tables |-> {}, rows |-> {}, streams |-> <<>>] : v \in Files}
    /\ writer = NoWriter /\ queue = <<>> /\ reader = NoReader
    /\ sent = <<>> /\ flushes = <<>> /\ since = 0 /\ promised = {} /\ faults = 0 /\ crashes = 0

(* A statement that takes effect, or fails once its busy retries are spent. *)
execute_retry(ok) == IF ok THEN UNCHANGED faults ELSE faults < MaxFaults /\ faults' = faults + 1

-----------------------------------------------------------------------------
(* TursoTapLog::open: preflight, schema, stamp, load. *)

preflight_user_version ==
    /\ writer.pc = "closed"
    /\ disk.version \in {0, TAP_SCHEMA_VERSION}
    /\ writer' = [NoWriter EXCEPT !.pc = "schema", !.fresh = disk.version = 0, !.held = TRUE]
    /\ UNCHANGED <<disk, queue, reader, sent, flushes, history, faults, crashes>>

(* CREATE TABLE IF NOT EXISTS meta, then streams; a failure abandons open(). *)
CreateSchema(ok) ==
    /\ writer.pc = "schema"
    /\ execute_retry(ok)
    /\ LET missing == IF "meta" \in disk.schema THEN "streams" ELSE "meta" IN
         IF ~ok THEN writer' = NoWriter /\ UNCHANGED disk
         ELSE /\ disk' = [disk EXCEPT !.schema = @ \cup {missing}]
              /\ writer' = [writer EXCEPT !.pc = IF disk'.schema # Tables THEN "schema"
                                                 ELSE IF writer.fresh THEN "stamp" ELSE "load"]
    /\ UNCHANGED <<queue, reader, sent, flushes, history, crashes>>

stamp_user_version(ok) ==
    /\ writer.pc = "stamp"
    /\ execute_retry(ok)
    /\ IF ok THEN disk' = [disk EXCEPT !.version = TAP_SCHEMA_VERSION] /\ writer' = [writer EXCEPT !.pc = "load"]
             ELSE writer' = NoWriter /\ UNCHANGED disk
    /\ UNCHANGED <<queue, reader, sent, flushes, history, crashes>>

(* Faulty variant: the counter is taken as persisted. *)
recompute_next_shard_stale(persisted) == persisted

(* The floor for shard numbers is what sqlite_master holds. *)
recompute_next_shard(persisted) ==
    Max({persisted} \cup {t + 1 : t \in disk.tables})

LoadAndSpawn ==
    /\ writer.pc = "load"
    /\ writer' = [writer EXCEPT !.pc = "recv", !.next_shard = recompute_next_shard(disk.meta.next_shard),
                    !.next_ord = disk.meta.next_ord, !.shards = disk.streams]
    /\ since' = Len(sent)
    /\ UNCHANGED <<disk, queue, reader, sent, flushes, promised, faults, crashes>>

Running == writer.pc \notin {"closed", "schema", "stamp", "load"}

-----------------------------------------------------------------------------
(* The callers. *)

append(s) ==
    /\ Running /\ writer.held /\ Len(sent) < MaxSent
    /\ sent' = Append(sent, s)
    /\ queue' = Append(queue, Event(Len(sent) + 1))
    /\ UNCHANGED <<disk, writer, reader, flushes, history, faults, crashes>>

flush ==
    /\ Running /\ writer.held /\ Len(flushes) < MaxFlushes
    /\ flushes' = Append(flushes, [answer |-> "none", mark |-> Len(sent)])
    /\ queue' = Append(queue, Flush(Len(flushes) + 1))
    /\ UNCHANGED <<disk, writer, reader, sent, history, faults, crashes>>

(* The last handle to the log is dropped: the writer drains what is queued. *)
DropLog ==
    /\ Running /\ writer.held
    /\ writer' = [writer EXCEPT !.held = FALSE]
    /\ UNCHANGED <<disk, queue, reader, sent, flushes, history, faults, crashes>>

-----------------------------------------------------------------------------
(* The writer task. *)

(* commit_if_open: counters and batch together, or neither. *)
Committed ==
    IF writer.tx_open
    THEN [disk EXCEPT !.rows = @ \cup writer.tx,
                      !.meta = [next_shard |-> writer.next_shard, next_ord |-> writer.next_ord]]
    ELSE disk
commit_if_open(ok) ==
    /\ ok \/ writer.tx_open
    /\ execute_retry(ok)
    /\ disk' = IF ok THEN Committed ELSE disk
Closed == [writer EXCEPT !.tx_open = FALSE, !.tx = {}]
Failed(w) == [w EXCEPT !.last_error = TRUE, !.pc = "drain", !.current = 0]

Next_cmd(kind) == writer.pc \in {"recv", "drain"} /\ queue # <<>> /\ Head(queue).kind = kind

(* write_event up to the first await: non-data events are dropped, a known  *)
(* shard is written to, an unknown one ends the open batch.                 *)
HandleEvent(ok) ==
    /\ Next_cmd("event")
    /\ queue' = Tail(queue)
    /\ LET n == Head(queue).n
           s == sent[n] IN
         IF s = Control \/ s \in Untaggable \/ s \in DOMAIN writer.shards
         THEN /\ ok /\ UNCHANGED <<disk, faults>>
              /\ writer' = CASE s = Control -> [writer EXCEPT !.pc = "drain"]
                             [] s \in Untaggable -> Failed(writer)
                             [] OTHER -> [writer EXCEPT !.pc = "insert", !.current = n]
         ELSE /\ commit_if_open(ok)
              /\ writer' = IF ok THEN [Closed EXCEPT !.pc = "create", !.current = n] ELSE Failed(Closed)
    /\ UNCHANGED <<reader, sent, flushes, history, crashes>>

(* ensure_shard, first statement: a number is used up whatever happens. *)
CreateShard(ok) ==
    /\ writer.pc = "create"
    /\ execute_retry(ok)
    /\ disk' = IF ok THEN [disk EXCEPT !.tables = @ \cup {writer.next_shard}] ELSE disk
    /\ LET w == [writer EXCEPT !.next_shard = @ + 1] IN
         writer' = IF ok THEN [w EXCEPT !.pc = "register"] ELSE Failed(w)
    /\ UNCHANGED <<queue, reader, sent, flushes, history, crashes>>

(* ensure_shard, second statement: the registry row, then the cached INSERT. *)
RegisterShard(ok) ==
    /\ writer.pc = "register"
    /\ execute_retry(ok)
    /\ LET s == sent[writer.current]
           put(m) == [t \in DOMAIN m \cup {s} |-> IF t = s THEN writer.next_shard - 1 ELSE m[t]] IN
         /\ disk' = IF ok THEN [disk EXCEPT !.streams = put(@)] ELSE disk
         /\ writer' = IF ok THEN [writer EXCEPT !.pc = "insert", !.shards = put(@)] ELSE Failed(writer)
    /\ UNCHANGED <<queue, reader, sent, flushes, history, crashes>>

(* The ordinal is used up first; BEGIN, then the INSERT into the batch. *)
InsertRow(began, ok) ==
    /\ writer.pc = "insert"
    /\ (writer.tx_open => began) /\ (ok => began)
    /\ execute_retry(ok)
    /\ LET row == [shard |-> writer.shards[sent[writer.current]], ord |-> writer.next_ord, n |-> writer.current]
           w == [writer EXCEPT !.next_ord = @ + 1, !.tx_open = began,
                               !.tx = IF ok THEN @ \cup {row} ELSE @] IN
         writer' = IF ok THEN [w EXCEPT !.pc = "drain", !.current = 0] ELSE Failed(w)
    /\ UNCHANGED <<disk, queue, reader, sent, flushes, history, crashes>>

(* Faulty variant: the flush is answered from the buffered error alone and *)
(* leaves the commit to the next drain.                                    *)
HandleFlush_early(ok) ==
    /\ Next_cmd("flush") /\ ok
    /\ queue' = Tail(queue)
    /\ writer' = [writer EXCEPT !.last_error = FALSE, !.pc = "drain"]
    /\ flushes' = [flushes EXCEPT ![Head(queue).n].answer = IF writer.last_error THEN "err" ELSE "ok"]
    /\ since' = flushes[Head(queue).n].mark
    /\ promised' = IF writer.last_error THEN promised
                   ELSE promised \cup {n \in since + 1 .. since' : Tapped(n)}
    /\ UNCHANGED <<disk, reader, sent, faults, crashes>>

(* Faulty variant: a failing commit leaves before the answer is sent. *)
HandleFlush_mute(ok) ==
    /\ Next_cmd("flush")
    /\ queue' = Tail(queue)
    /\ commit_if_open(ok)
    /\ writer' = [Closed EXCEPT !.last_error = ~ok, !.pc = "drain"]
    /\ flushes' = IF ok THEN [flushes EXCEPT ![Head(queue).n].answer = "ok"] ELSE flushes
    /\ UNCHANGED <<reader, sent, history, crashes>>

(* WriteCmd::Flush: commit, then answer with the freshest failure. *)
HandleFlush(ok) ==
    /\ Next_cmd("flush")
    /\ queue' = Tail(queue)
    /\ commit_if_open(ok)
    /\ writer' = [Closed EXCEPT !.last_error = FALSE, !.pc = "drain"]
    /\ LET f == Head(queue).n
           good == ok /\ ~writer.last_error IN
         /\ flushes' = [flushes EXCEPT ![f].answer = IF good THEN "ok" ELSE "err"]
         /\ since' = flushes[f].mark
         /\ promised' = IF good THEN promised \cup {n \in since + 1 .. flushes[f].mark : Tapped(n)} ELSE promised
    /\ UNCHANGED <<reader, sent, crashes>>

(* Faulty variant: a failed drain commit is logged and not remembered. *)
Drained_forgets(ok) ==
    /\ writer.pc = "drain" /\ queue = <<>>
    /\ commit_if_open(ok)
    /\ writer' = [Closed EXCEPT !.pc = "recv"]
    /\ UNCHANGED <<queue, reader, sent, flushes, history, crashes>>

(* The queue is momentarily empty: commit the batch. *)
Drained(ok) ==
    /\ writer.pc = "drain" /\ queue = <<>>
    /\ commit_if_open(ok)
    /\ writer' = [Closed EXCEPT !.pc = "recv", !.last_error = @ \/ ~ok]
    /\ UNCHANGED <<queue, reader, sent, flushes, history, crashes>>

(* recv() answers None: run() returns; nothing is open by then. *)
WriterExits ==
    /\ writer.pc = "recv" /\ queue = <<>> /\ ~writer.held
    /\ writer' = NoWriter
    /\ UNCHANGED <<disk, queue, reader, sent, flushes, history, faults, crashes>>

-----------------------------------------------------------------------------
(* TursoTapReplaySource::open: the registry, then one shard after another,  *)
(* each read on its own; the writer commits in between.  The stream handed  *)
(* out is reader.rows in the order of ord.                                  *)

ScanRegistry(r) ==
    /\ reader.pc = "idle" /\ reader.request < MaxReplays /\ Running
    /\ reader' = [pc |-> "scan", request |-> reader.request + 1, rows |-> {},
                  regs |-> IF r.from >= r.to THEN {}
                           ELSE {[stream |-> s, shard |-> disk.streams[s], from |-> r.from, to |-> r.to] :
                                   s \in {t \in DOMAIN disk.streams : r.streams = {} \/ t \in r.streams}}]
    /\ UNCHANGED <<disk, writer, queue, sent, flushes, history, faults, crashes>>

ScanShard(g) ==
    /\ reader.pc = "scan" /\ g \in reader.regs
    /\ reader' = [reader EXCEPT !.regs = @ \ {g},
         !.rows = @ \cup {[ord |-> row.ord, n |-> row.n, stream |-> g.stream] :
                            row \in {w \in disk.rows : w.shard = g.shard /\ g.from <= Stamp[w.n] /\ Stamp[w.n] < g.to}}]
    /\ UNCHANGED <<disk, writer, queue, sent, flushes, history, faults, crashes>>

EndReplay ==
    /\ reader.pc = "scan" /\ reader.regs = {}
    /\ reader' = [reader EXCEPT !.pc = "idle", !.rows = {}]
    /\ UNCHANGED <<disk, writer, queue, sent, flushes, history, faults, crashes>>

-----------------------------------------------------------------------------
(* SIGKILL: the file stays, everything in memory goes. *)
Crash ==
    /\ writer.pc # "closed" /\ crashes < MaxCrashes
    /\ crashes' = crashes + 1
    /\ writer' = NoWriter /\ queue' = <<>> /\ reader' = [NoReader EXCEPT !.request = reader.request]
    /\ flushes' = [f \in DOMAIN flushes |->
                     IF flushes[f].answer = "none" THEN [flushes[f] EXCEPT !.answer = "dead"] ELSE flushes[f]]
    /\ UNCHANGED <<disk, sent, history, faults>>

WriterStep ==
    \E ok \in BOOLEAN :
      \/ CreateSchema(ok) \/ stamp_user_version(ok) \/ HandleEvent(ok) \/ CreateShard(ok)
      \/ RegisterShard(ok) \/ HandleFlush(ok) \/ Drained(ok)
      \/ \E began \in BOOLEAN : InsertRow(began, ok)
Next ==
    \/ preflight_user_version \/ LoadAndSpawn \/ WriterStep \/ WriterExits
    \/ \E s \in Streams \cup Untaggable \cup {Control} : append(s)
    \/ flush \/ DropLog
    \/ \E r \in Requests : ScanRegistry(r)
    \/ \E g \in reader.regs : ScanShard(g)
    \/ EndReplay \/ Crash

Spec == Init /\ [][Next]_vars
(* The writer task is polled as long as the runtime lives. *)
FairSpec == Spec /\ WF_vars(WriterStep)

-----------------------------------------------------------------------------
Row == [shard : Nat, ord : Nat, n : Nat]
Cmd == [kind : {"event", "flush"}, n : Nat]

(* The file and the task, with a registry of the streams in S. *)
File(S) == [version : Nat, schema : SUBSET Tables, meta : [next_shard : Nat, next_ord : Nat],
            tables : SUBSET Nat, rows : SUBSET Row, streams : [S -> Nat]]
Task(S) == [pc : {"closed", "schema", "stamp", "load", "recv", "drain", "create", "register",
                  "insert"},
            next_shard : Nat, next_ord : Nat, shards : [S -> Nat],
            tx_open : BOOLEAN, tx : SUBSET Row, last_error : BOOLEAN,
            current : Nat, fresh : BOOLEAN, held : BOOLEAN]

TypeOK ==
    /\ DOMAIN disk.streams \subseteq Streams /\ DOMAIN writer.shards \subseteq Streams
    /\ disk \in File(DOMAIN disk.streams) /\ writer \in Task(DOMAIN writer.shards)
    /\ queue \in Seq(Cmd)
    /\ reader \in [pc : {"idle", "scan"}, request : Nat,
                   regs : SUBSET [stream : Streams, shard : Nat, from : Int, to : Int],
                   rows : SUBSET [ord : Nat, n : Nat, stream : Streams]]
    /\ sent \in Seq(Streams \cup Untaggable \cup {Control})
    /\ flushes \in Seq([answer : {"none", "ok", "err", "dead"}, mark : Nat])
    /\ since \in Nat /\ promised \subseteq Nat /\ faults \in Nat /\ crashes \in Nat

Stored == {row.n : row \in disk.rows}

(* A flush() that answered Ok keeps its word across every later failure and *)
(* crash: each data event appended before it, and not already answered for  *)
(* by an earlier failed flush, is on disk.                                  *)
FlushKeepsPromise == promised \subseteq Stored

(* Whatever the interleaving of replay and writer, of crashes and reopens,  *)
(* a replay hands out arrival order, no event twice, and every event under  *)
(* the stream it was appended to: ord is never reused and no two registry   *)
(* rows share a shard table.                                                *)
ReplayFaithful ==
    \A a, b \in reader.rows :
      /\ a # b => (a.ord < b.ord /\ a.n < b.n) \/ (b.ord < a.ord /\ b.n < a.n)
      /\ a.stream = sent[a.n]

Pending == {queue[i].n : i \in {k \in 1 .. Len(queue) : queue[k].kind = "event"}} \cup {writer.current}
(* An event the running writer lost (a failed statement, BEGIN or COMMIT)   *)
(* is never lost silently: until a flush answers for it, the writer         *)
(* remembers that there is an error to report.                              *)
LossReported ==
    Running => \A n \in since + 1 .. Len(sent) :
      Tapped(n) /\ n \notin Stored \cup Pending /\ (\A row \in writer.tx : row.n # n) => writer.last_error

(***************************************************************************)
(* What makes them so, by the part of the system each is about.            *)
(***************************************************************************)

(* The task: what it works on, and that a batch belongs to a transaction.   *)
Working ==
    /\ writer.pc \in {"create", "register", "insert"} <=> writer.current # 0
    /\ writer.current <= Len(sent)
    /\ writer.tx # {} => writer.tx_open
    /\ ~Running => queue = <<>> /\ writer.tx = {}

(* The shards: the cached registry is the one on disk, streams have tables  *)
(* of their own, and the number of the next table is unused.                *)
Registered ==
    /\ Running => /\ writer.shards = disk.streams
                  /\ \A t \in disk.tables : t < writer.next_shard
    /\ disk.tables # {} => \E m \in disk.tables : \A t \in disk.tables : t <= m
    /\ \A s \in DOMAIN disk.streams : disk.streams[s] \in disk.tables
    /\ \A s, t \in DOMAIN disk.streams : disk.streams[s] = disk.streams[t] => s = t
    /\ writer.pc \in {"create", "register"} =>
         sent[writer.current] \in Streams \ DOMAIN disk.streams
    /\ writer.pc = "register" =>
         /\ writer.next_shard - 1 \in disk.tables
         /\ \A s \in DOMAIN disk.streams : disk.streams[s] # writer.next_shard - 1
    /\ writer.pc = "insert" => sent[writer.current] \in DOMAIN disk.streams

(* The rows: each is in the shard of its stream, and ordinals are given out *)
(* in the order of arrival and never twice.                                 *)
AllRows == disk.rows \cup writer.tx
Before(a, b) == a.ord < b.ord /\ a.n < b.n
Kept ==
    /\ \A row \in AllRows :
         /\ row.n \in 1 .. Len(sent) /\ sent[row.n] \in DOMAIN disk.streams
         /\ row.shard = disk.streams[sent[row.n]]
         /\ Running => row.ord < writer.next_ord
         /\ writer.current # 0 => row.n < writer.current
         /\ \A i \in 1 .. Len(queue) : queue[i].kind = "event" => row.n < queue[i].n
    /\ \A row \in disk.rows : row.ord < disk.meta.next_ord
    /\ Running => disk.meta.next_ord <= writer.next_ord
    /\ \A a, b \in AllRows : a = b \/ Before(a, b) \/ Before(b, a)

(* The queue: events in the order of arrival, and behind a flush() exactly  *)
(* those appended after it was called.                                      *)
Queued ==
    /\ \A i \in 1 .. Len(queue) : queue[i].kind = "event" =>
         /\ queue[i].n \in 1 .. Len(sent) /\ writer.current < queue[i].n
         /\ \A k \in i + 1 .. Len(queue) : queue[k].kind = "event" => queue[i].n < queue[k].n
    /\ \A i \in 1 .. Len(queue) : queue[i].kind = "flush" =>
         /\ queue[i].n \in 1 .. Len(flushes) /\ flushes[queue[i].n].mark <= Len(sent)
         /\ \A k \in i + 1 .. Len(queue) :
              queue[k].kind = "event" => flushes[queue[i].n].mark < queue[k].n
         /\ \A n \in flushes[queue[i].n].mark + 1 .. Len(sent) :
              \E k \in i + 1 .. Len(queue) : queue[k] = Event(n)

(* The reader: it holds rows of the file, under the streams they are of.    *)
Reading ==
    /\ \A g \in reader.regs :
         g.stream \in DOMAIN disk.streams /\ g.shard = disk.streams[g.stream]
    /\ \A a \in reader.rows :
         a.stream = sent[a.n] /\ \E w \in disk.rows : w.ord = a.ord /\ w.n = a.n

TapLogInv ==
    /\ TypeOK /\ Working /\ Registered /\ Kept /\ Queued /\ Reading
    /\ LossReported /\ FlushKeepsPromise

(* Every flush() is answered, unless the process dies first. *)
FlushAnswered ==
    \A f \in 1 .. MaxFlushes :
      (f <= Len(flushes)) ~> (f <= Len(flushes) /\ flushes[f].answer # "none")

=============================================================================

------------------------- MODULE ClientSessionProofs -------------------------
(***************************************************************************)
(* Machine-checked proofs about ClientSession: for any pairs, timestamps,  *)
(* ring and channel, whatever the consumer takes, drops and leaves unread, *)
(* no data event reaches it over an unannounced hole.                      *)
(***************************************************************************)
EXTENDS ClientSession, FiniteSetTheorems, SequenceTheorems, TLAPS

(* Appending to a stream, and taking its first event.                       *)
LEMMA AppendIs ==
  ASSUME NEW s \in Seq(Events), NEW x \in Events
  PROVE  /\ Append(s, x) \in Seq(Events) /\ Len(Append(s, x)) = Len(s) + 1 /\ Len(s) \in Nat
         /\ DOMAIN s = 1 .. Len(s) /\ DOMAIN Append(s, x) = 1 .. (Len(s) + 1)
         /\ Elems(Append(s, x)) = Elems(s) \cup {x} /\ Elems(s) \subseteq Events
         /\ Append(s, x)[Len(s) + 1] = x /\ Upto(Append(s, x), Len(s) + 1) = Elems(s)
         /\ \A j \in DOMAIN s : /\ j \in DOMAIN Append(s, x) /\ Append(s, x)[j] = s[j]
                                /\ Upto(Append(s, x), j) = Upto(s, j)
         /\ \A j \in DOMAIN Append(s, x) : j \in DOMAIN s \/ j = Len(s) + 1
  <1> DEFINE a == Append(s, x)
  <1>1. /\ a \in Seq(Events) /\ Len(a) = Len(s) + 1 /\ Len(s) \in Nat
        /\ DOMAIN s = 1 .. Len(s) /\ DOMAIN a = 1 .. (Len(s) + 1)
        /\ a[Len(s) + 1] = x /\ \A j \in 1 .. Len(s) : a[j] = s[j] /\ s[j] \in Events
    OBVIOUS
  <1> HIDE DEF a
  <1>2. Elems(a) = Elems(s) \cup {x} /\ Elems(s) \subseteq Events
    BY <1>1 DEF Elems
  <1>3. Upto(a, Len(s) + 1) = Elems(s)
    BY <1>1 DEF Upto, Elems
  <1>4. \A j \in DOMAIN s : j \in DOMAIN a /\ a[j] = s[j] /\ Upto(a, j) = Upto(s, j)
    BY <1>1 DEF Upto
  <1>5. \A j \in DOMAIN a : j \in DOMAIN s \/ j = Len(s) + 1
    BY <1>1
  <1> QED
    BY <1>1, <1>2, <1>3, <1>4, <1>5 DEF a

LEMMA TailIs ==
  ASSUME NEW s \in Seq(Events), s # <<>>
  PROVE  /\ Head(s) \in Events /\ Tail(s) \in Seq(Events) /\ Len(Tail(s)) = Len(s) - 1 /\ Len(s) \in Nat
         /\ 1 \in DOMAIN s /\ s[1] = Head(s) /\ Upto(s, 1) = {}
         /\ Elems(s) = {Head(s)} \cup Elems(Tail(s))
         /\ \A j \in DOMAIN Tail(s) : /\ j + 1 \in DOMAIN s /\ Tail(s)[j] = s[j + 1]
                                      /\ Upto(s, j + 1) = {Head(s)} \cup Upto(Tail(s), j)
  <1> DEFINE t == Tail(s)
  <1>1. /\ Head(s) \in Events /\ t \in Seq(Events) /\ Len(t) = Len(s) - 1 /\ Len(s) \in Nat /\ Len(s) # 0
        /\ s[1] = Head(s) /\ DOMAIN s = 1 .. Len(s) /\ DOMAIN t = 1 .. Len(t)
        /\ \A j \in 1 .. Len(t) : t[j] = s[j + 1]
    OBVIOUS
  <1> HIDE DEF t
  <1>2. 1 \in DOMAIN s /\ Upto(s, 1) = {}
    BY <1>1 DEF Upto
  <1>3. \A j \in DOMAIN s : j = 1 \/ (j - 1 \in DOMAIN t /\ t[j - 1] = s[j])
    BY <1>1
  <1>4. \A j \in DOMAIN t : j + 1 \in DOMAIN s /\ t[j] = s[j + 1]
    BY <1>1
  <1>5. Elems(s) = {Head(s)} \cup Elems(t)
    BY <1>1, <1>2, <1>3, <1>4 DEF Elems
  <1>6. ASSUME NEW j \in DOMAIN t
        PROVE  Upto(s, j + 1) = {Head(s)} \cup Upto(t, j)
    <2>1. j \in Nat /\ j <= Len(t)
      BY <1>1
    <2>2. \A k \in 1 .. (j - 1) : k + 1 \in 1 .. ((j + 1) - 1) /\ t[k] = s[k + 1]
      BY <1>1, <2>1
    <2>3. \A k \in 1 .. ((j + 1) - 1) : k = 1 \/ (k - 1 \in 1 .. (j - 1) /\ s[k] = t[k - 1])
      BY <1>1, <2>1
    <2>4. 1 \in 1 .. ((j + 1) - 1)
      BY <1>1, <2>1
    <2> QED
      BY <1>1, <2>2, <2>3, <2>4 DEF Upto
  <1> QED
    BY <1>1, <1>2, <1>4, <1>5, <1>6 DEF t

(* A set that accounts for as much does as well ahead of an event.          *)
LEMMA Kept ==
  ASSUME NEW drawn, NEW x, NEW S, NEW T, \A e \in Elems(drawn) : Accounts(S, e) => Accounts(T, e)
  PROVE  /\ Follows(drawn, x, S) => Follows(drawn, x, T)
         /\ Heads(drawn, x, S) => Heads(drawn, x, T)
  <1>1. \A m \in DOMAIN drawn : drawn[m] \in Elems(drawn)
    BY DEF Elems
  <1> QED
    BY <1>1 DEF Follows, Heads

LEMMA AccountsGrows ==
  ASSUME NEW S, NEW T, S \subseteq T, NEW e, Accounts(S, e)
  PROVE  Accounts(T, e)
  BY DEF Accounts

(* What is not part of the stream's numbering follows anything.             *)
LEMMA ControlIs ==
  ASSUME NEW kind \in {"sub", "conn", "closing"}
  PROVE  /\ Control(kind) \in Events /\ ~has_span(Control(kind))
         /\ \A drawn, S : Follows(drawn, Control(kind), S) /\ Heads(drawn, Control(kind), S)
  BY DEF Control, Event, Events, has_span, Follows, Heads

LEMMA NoGapIs ==
  /\ ~has_span(NoGap) /\ NoGap.kind = "none" /\ NoGap \notin Events
  /\ \A e : has_span(e) => ~Answers(NoGap, e)
  BY DEF NoGap, Control, Event, Events, has_span, Answers, Covers

-----------------------------------------------------------------------------
(* Eviction.                                                                *)

(* What note_drop leaves for an event's instrument: a gap that starts at    *)
(* the first event evicted and spans this one too.                          *)
LEMMA NoteDropIs ==
  ASSUME NEW d \in [Instruments -> Events \cup {NoGap}], NEW h \in Events, has_span(h), h.pair \in Pairs,
         \A i \in Instruments : d[i] # NoGap => d[i].kind = "gap" /\ d[i].pair[1] = i
  PROVE  LET i == h.pair[1]
             n == note_drop(d, h)
         IN  /\ i \in Instruments /\ n \in [Instruments -> Events \cup {NoGap}]
             /\ \A k \in Instruments : k # i => n[k] = d[k]
             /\ n[i] \in Events /\ n[i].kind = "gap" /\ n[i].pair[1] = i
             /\ n[i].from <= h.from /\ h.to <= n[i].to
             /\ d[i] = NoGap => n[i].pair = h.pair /\ n[i].open = h.open /\ n[i].seq = h.seq
             /\ d[i] # NoGap => /\ n[i].pair = d[i].pair /\ n[i].open = d[i].open /\ n[i].seq = d[i].seq
                                /\ n[i].from <= d[i].from /\ d[i].to <= n[i].to
  <1> DEFINE i == h.pair[1]
             n == note_drop(d, h)
             a == [h EXCEPT !.kind = "gap"]
             lo == Least(d[i].from, h.from)
             hi == Greatest(d[i].to, h.to)
             b == Widen(d[i], h)
  <1>1. i \in Instruments
    BY DEF Instruments
  <1>2. n = [d EXCEPT ![i] = IF d[i] = NoGap THEN a ELSE b]
    <2> DEFINE e == [d EXCEPT ![i] = IF d[i] = NoGap THEN a ELSE b]
    <2>1. n = IF ~has_span(h) THEN d ELSE e
      BY Zenon DEF note_drop
    <2> HIDE DEF e, n
    <2> QED
      BY <2>1 DEF e
  <1>3. /\ a \in Events /\ a.kind = "gap" /\ a.pair = h.pair /\ a.open = h.open /\ a.seq = h.seq
        /\ a.from = h.from /\ a.to = h.to /\ h.from \in Int /\ h.to \in Int
    BY DEF Events
  <1>4. ASSUME d[i] # NoGap
        PROVE  /\ b \in Events /\ b.kind = "gap" /\ b.pair = d[i].pair /\ b.open = d[i].open
               /\ b.seq = d[i].seq /\ b.pair[1] = i
               /\ b.from <= d[i].from /\ d[i].to <= b.to /\ b.from <= h.from /\ h.to <= b.to
    <2>1. d[i] \in Events /\ d[i].kind = "gap" /\ d[i].pair[1] = i
      BY <1>1, <1>4
    <2> DEFINE g == d[i]
    <2>2. g \in Events /\ g.from \in Int /\ g.to \in Int
      BY <2>1 DEF Events
    <2>3. /\ lo \in Int /\ hi \in Int /\ lo <= g.from /\ lo <= h.from /\ g.to <= hi /\ h.to <= hi
      BY <1>3, <2>2 DEF Least, Greatest
    <2> HIDE DEF lo, hi, g
    <2>4. b = [g EXCEPT !.from = lo, !.to = hi]
      BY DEF g, Widen, lo, hi
    <2> HIDE DEF b
    <2>5. /\ b \in Events /\ b.kind = g.kind /\ b.pair = g.pair /\ b.open = g.open /\ b.seq = g.seq
          /\ b.from = lo /\ b.to = hi
      BY <2>2, <2>3, <2>4 DEF Events
    <2> QED
      BY <2>1, <2>3, <2>5 DEF g
  <1> HIDE DEF a, b, lo, hi
  <1>5. /\ n \in [Instruments -> Events \cup {NoGap}] /\ \A k \in Instruments : k # i => n[k] = d[k]
        /\ n[i] = IF d[i] = NoGap THEN a ELSE b
    BY <1>1, <1>2, <1>3, <1>4
  <1>6. h.from <= h.from /\ h.to <= h.to
    BY <1>3
  <1> HIDE DEF n, i
  <1>7. /\ n[i] \in Events /\ n[i].kind = "gap" /\ n[i].pair[1] = i
        /\ n[i].from <= h.from /\ h.to <= n[i].to
        /\ d[i] = NoGap => n[i].pair = h.pair /\ n[i].open = h.open /\ n[i].seq = h.seq
        /\ d[i] # NoGap => /\ n[i].pair = d[i].pair /\ n[i].open = d[i].open /\ n[i].seq = d[i].seq
                           /\ n[i].from <= d[i].from /\ d[i].to <= n[i].to
    <2>1. CASE d[i] = NoGap
      BY <1>3, <1>5, <1>6, <2>1 DEF i
    <2>2. CASE d[i] # NoGap
      BY <1>4, <1>5, <2>2
    <2> QED
      BY <2>1, <2>2
  <1> QED
    BY <1>1, <1>5, <1>7 DEF n, i

(* An event h leaves the ring whose gaps are d, when what is settled, S, and *)
(* those gaps account for all that has an earlier number; and the gaps n that *)
(* lose nothing by it.                                                       *)
Evictable(drawn, d, h, S) ==
  /\ Elems(drawn) \subseteq Events /\ \A e \in Elems(drawn) : has_span(e)
  /\ d \in [Instruments -> Events \cup {NoGap}] /\ h \in Events /\ (has_span(h) => h.pair \in Pairs)
  /\ \A i \in Instruments : d[i] # NoGap => d[i].kind = "gap" /\ d[i].pair[1] = i
  /\ \A i \in Instruments : Heads(drawn, d[i], S)
  /\ Heads(drawn, h, S \cup {d[i] : i \in Instruments})
Absorbs(drawn, d, h, S, n) ==
  /\ n \in [Instruments -> Events \cup {NoGap}]
  /\ \A i \in Instruments : n[i] # NoGap => n[i].kind = "gap" /\ n[i].pair[1] = i
  /\ \A i \in Instruments : Heads(drawn, n[i], S)
  /\ \A e \in Elems(drawn) : \A U :
       Accounts(S \cup {d[i] : i \in Instruments} \cup {h} \cup U, e)
         => Accounts(S \cup {n[i] : i \in Instruments} \cup U, e)

(* Widening the gap of an instrument loses nothing: what the evicted event  *)
(* or the old gap accounted for, the new gap does, or it was settled.       *)
LEMMA Evicted ==
  ASSUME NEW drawn, NEW d, NEW h, NEW S, Evictable(drawn, d, h, S)
  PROVE  Absorbs(drawn, d, h, S, note_drop(d, h))
  <1> DEFINE n == note_drop(d, h)
             G == {d[i] : i \in Instruments}
             H == {n[i] : i \in Instruments}
  <1> USE DEF Evictable
  <1>1. CASE ~has_span(h)
    <2>1. n = d
      BY <1>1 DEF note_drop
    <2>2. \A e \in Elems(drawn) : ~Answers(h, e)
      BY <1>1 DEF Answers, Covers, has_span
    <2> HIDE DEF n
    <2>3. \A e \in Elems(drawn) : \A U : Accounts(S \cup G \cup {h} \cup U, e) => Accounts(S \cup H \cup U, e)
      BY <2>1, <2>2 DEF Accounts
    <2>4. Absorbs(drawn, d, h, S, n)
      BY <2>1, <2>3 DEF Absorbs, Evictable
    <2> QED
      BY <2>4 DEF n
  <1>2. CASE has_span(h)
    <2> DEFINE i == h.pair[1]
    <2>1. /\ i \in Instruments /\ n \in [Instruments -> Events \cup {NoGap}]
          /\ \A k \in Instruments : k # i => n[k] = d[k]
          /\ n[i] \in Events /\ n[i].kind = "gap" /\ n[i].pair[1] = i
          /\ n[i].from <= h.from /\ h.to <= n[i].to
          /\ d[i] = NoGap => n[i].pair = h.pair /\ n[i].open = h.open /\ n[i].seq = h.seq
          /\ d[i] # NoGap => /\ n[i].pair = d[i].pair /\ n[i].open = d[i].open /\ n[i].seq = d[i].seq
                             /\ n[i].from <= d[i].from /\ d[i].to <= n[i].to
      BY <1>2, NoteDropIs
    <2> HIDE DEF n, i
    <2>2. \A k \in Instruments : n[k] # NoGap => n[k].kind = "gap" /\ n[k].pair[1] = k
      BY <2>1
    <2>3. ASSUME NEW e \in Elems(drawn), e.pair[1] # i
          PROVE  ~Answers(h, e) /\ ~Answers(n[i], e)
      BY <2>1, <2>3 DEF Answers, Covers, i
    <2>4. ASSUME NEW e \in Elems(drawn), NEW k \in Instruments, Answers(d[k], e)
          PROVE  k = e.pair[1] /\ d[k] # NoGap
      BY <2>4, NoGapIs DEF Answers, Covers
    <2>5. Heads(drawn, n[i], S)
      <3>1. CASE d[i] # NoGap
        <4>1. has_span(d[i]) /\ Heads(drawn, d[i], S)
          BY <2>1, <3>1 DEF has_span
        <4> QED
          BY <2>1, <3>1, <4>1 DEF Heads
      <3>2. CASE d[i] = NoGap
        <4>1. ASSUME NEW e \in Elems(drawn), e.pair = h.pair, e.open = h.open, e.seq < h.seq
              PROVE  Accounts(S, e)
          <5>1. Accounts(S \cup G, e)
            BY <1>2, <4>1 DEF Heads
          <5>2. PICK x \in S \cup G : Answers(x, e)
            BY <5>1 DEF Accounts
          <5>3. e.pair[1] = i
            BY <4>1 DEF i
          <5>4. x \in S
            BY <2>4, <3>2, <5>2, <5>3
          <5> QED
            BY <5>2, <5>4 DEF Accounts
        <4> QED
          BY <2>1, <3>2, <4>1 DEF Heads
      <3> QED
        BY <3>1, <3>2
    <2>6. \A k \in Instruments : Heads(drawn, n[k], S)
      BY <2>1, <2>5
    <2>7. ASSUME NEW e \in Elems(drawn), Answers(d[i], e)
          PROVE  Answers(n[i], e)
      <3>1. d[i] # NoGap /\ e.pair[1] = i /\ d[i] \in Events /\ e \in Events
        BY <2>1, <2>4, <2>7
      <3>2. /\ e.from \in Int /\ e.to \in Int /\ e.seq \in Nat
            /\ d[i].from \in Int /\ d[i].to \in Int /\ n[i].from \in Int /\ n[i].to \in Int
        BY <2>1, <3>1 DEF Events
      <3>3. /\ d[i].from <= e.from /\ e.to <= d[i].to
            /\ d[i].pair = e.pair /\ d[i].open = e.open => d[i].seq <= e.seq
        BY <2>7, <3>2 DEF Answers, Covers
      <3>4. n[i].from <= e.from /\ e.to <= n[i].to
        BY <2>1, <3>1, <3>2, <3>3
      <3> QED
        BY <2>1, <3>1, <3>3, <3>4 DEF Answers, Covers
    <2>8. ASSUME NEW e \in Elems(drawn), Answers(h, e)
          PROVE  Answers(n[i], e) \/ Accounts(S, e)
      <3>1. e.pair[1] = i /\ e \in Events
        BY <2>3, <2>8
      <3>2. /\ e.from \in Int /\ e.to \in Int /\ e.seq \in Nat /\ h.seq \in Nat /\ n[i].seq \in Nat
            /\ h.from \in Int /\ h.to \in Int /\ n[i].from \in Int /\ n[i].to \in Int
        BY <2>1, <3>1 DEF Events
      <3>3. /\ h.from <= e.from /\ e.to <= h.to
            /\ h.pair = e.pair /\ h.open = e.open => h.seq <= e.seq
        BY <2>8, <3>2 DEF Answers, Covers
      <3>4. n[i].from <= e.from /\ e.to <= n[i].to
        BY <2>1, <3>2, <3>3
      <3>5. CASE e.pair = n[i].pair /\ e.open = n[i].open /\ e.seq < n[i].seq
        BY <2>1, <2>5, <3>5 DEF Heads, has_span
      <3>6. CASE ~(e.pair = n[i].pair /\ e.open = n[i].open /\ e.seq < n[i].seq)
        <4>1. n[i].pair = e.pair /\ n[i].open = e.open => n[i].seq <= e.seq
          BY <3>2, <3>6
        <4> QED
          BY <2>1, <3>1, <3>4, <4>1 DEF Answers, Covers
      <3> QED
        BY <3>5, <3>6
    <2>9. ASSUME NEW e \in Elems(drawn), NEW U, Accounts(S \cup G \cup {h} \cup U, e)
          PROVE  Accounts(S \cup H \cup U, e)
      <3>1. PICK x \in S \cup G \cup {h} \cup U : Answers(x, e)
        BY <2>9 DEF Accounts
      <3>2. CASE x \in S \cup U
        BY <3>1, <3>2 DEF Accounts
      <3>3. CASE x = h
        BY <2>1, <2>8, <3>1, <3>3 DEF Accounts
      <3>4. CASE x \in G
        <4>1. PICK k \in Instruments : x = d[k]
          BY <3>4
        <4>2. Answers(n[k], e)
          BY <2>1, <2>7, <3>1, <4>1
        <4> QED
          BY <4>2 DEF Accounts
      <3> QED
        BY <3>1, <3>2, <3>3, <3>4
    <2>10. Absorbs(drawn, d, h, S, n)
      BY <2>1, <2>2, <2>6, <2>9 DEF Absorbs
    <2> QED
      BY <2>10 DEF n
  <1> QED
    BY <1>1, <1>2

-----------------------------------------------------------------------------
(* Steps that move no event.                                                *)

LEMMA HeldIs ==
  ASSUME TypeOK
  PROVE  /\ Elems(recv) \cup Held \subseteq Events \cup {NoGap} /\ Elems(routed) \subseteq Events
         /\ \A x \in Elems(recv) \cup Held : has_span(x) => x \in Events
  <1>1. \A s \in Seq(Events) : Elems(s) \subseteq Events
    BY AppendIs DEF Elems
  <1>2. Elems(recv) \cup Held \subseteq Events \cup {NoGap}
    BY <1>1 DEF TypeOK, Held
  <1> QED
    BY <1>1, <1>2, NoGapIs DEF TypeOK

LEMMA QuietKeeps ==
  ASSUME SessionInv, UNCHANGED <<recv, out, ring, abandoned, routed, sink>>,
         \/ work' = work
         \/ work = <<>> /\ \E kind \in {"sub", "conn", "closing"} : work' = <<Control(kind)>>,
         \A p \in Pairs : \/ opens'[p] = opens[p] /\ next'[p] = next[p]
                          \/ opens'[p] = opens[p] + 1
  PROVE  Shape' /\ NumberedNext' /\ InOrder' /\ work' \in Seq(Events)
  <1> USE DEF SessionInv
  <1>1. Settled' = Settled /\ Gaps' = Gaps /\ Ahead' = Ahead
    BY DEF Settled, Gaps, Ahead
  <1>2. work \in Seq(Events) /\ opens \in [Pairs -> Nat]
    BY DEF TypeOK
  <1>3. Shape'
    BY DEF Shape
  <1> DEFINE Fits(w) ==
        /\ w \in Seq(Events) /\ \A e \in Elems(routed) : Accounts(Ahead \cup Elems(w), e)
        /\ \A x \in Elems(w) : has_span(x) => x \in Elems(work)
        /\ \A j \in DOMAIN w : /\ Follows(routed, w[j], Ahead \cup Upto(w, j))
                               /\ Heads(routed, w[j], Ahead \cup Upto(w, j))
  <1>4. Fits(work')
    <2>1. CASE work' = work
      BY <1>2, <2>1 DEF InOrder, Behind
    <2>2. ASSUME work = <<>>, NEW kind \in {"sub", "conn", "closing"}, work' = <<Control(kind)>>
          PROVE  Fits(work')
      <3>1. /\ Control(kind) \in Events /\ ~has_span(Control(kind))
            /\ \A S : Follows(routed, Control(kind), S) /\ Heads(routed, Control(kind), S)
        BY ControlIs
      <3> DEFINE c == Control(kind)
      <3>2. work' = <<c>>
        BY <2>2
      <3> HIDE DEF c
      <3>3. work' \in Seq(Events) /\ DOMAIN work' = {1} /\ work'[1] = c
        BY <3>1, <3>2 DEF c
      <3>4. Elems(work') = {c} /\ Elems(work) = {}
        BY <2>2, <3>3 DEF Elems
      <3>5. \A e \in Elems(routed) : Accounts(Ahead \cup Elems(work'), e)
        BY <3>4 DEF InOrder, Accounts
      <3>6. ~has_span(c) /\ \A S : Follows(routed, c, S) /\ Heads(routed, c, S)
        BY <3>1 DEF c
      <3>7. \A j \in DOMAIN work' : /\ Follows(routed, work'[j], Ahead \cup Upto(work', j))
                                    /\ Heads(routed, work'[j], Ahead \cup Upto(work', j))
        BY <3>3, <3>6
      <3>8. \A x \in Elems(work') : has_span(x) => x \in Elems(work)
        BY <3>4, <3>6
      <3> QED
        BY <3>3, <3>5, <3>7, <3>8
    <2> QED
      BY <2>1, <2>2
  <1>5. NumberedNext'
    <2>1. ASSUME NEW x \in (Elems(recv) \cup Held)', has_span(x)
          PROVE  x \in Elems(recv) \cup Held
      BY <1>4, <2>1 DEF Held
    <2>2. ASSUME NEW x \in Elems(recv) \cup Held, has_span(x)
          PROVE  /\ x.pair \in Pairs /\ x.open <= opens'[x.pair]
                 /\ x.open = opens'[x.pair] => x.seq < next'[x.pair]
      <3>1. x.pair \in Pairs /\ x.open <= opens[x.pair] /\ (x.open = opens[x.pair] => x.seq < next[x.pair])
        BY <2>2 DEF NumberedNext
      <3>2. x.open \in Nat /\ opens[x.pair] \in Nat
        BY <1>2, <2>2, <3>1, HeldIs DEF Events
      <3> QED
        BY <3>1, <3>2
    <2>3. \A e \in Elems(routed)' : has_span(e)
      BY DEF NumberedNext, Elems
    <2> QED
      BY <2>1, <2>2, <2>3 DEF NumberedNext
  <1>6. InOrder'
    <2>1. /\ \A i \in DOMAIN recv' : Follows(routed', recv'[i], Upto(recv', i) \cup abandoned')
          /\ \A j \in DOMAIN out'.q : Follows(routed', out'.q[j], Settled' \cup Upto(out'.q, j))
          /\ \A i \in Instruments : Heads(routed', ring'.dropped[i], Settled')
      BY <1>1 DEF InOrder
    <2>2. \A j \in DOMAIN ring'.buf : Behind(ring.buf[j], Settled \cup Gaps \cup Upto(ring.buf, j))'
      BY <1>1 DEF InOrder, Behind
    <2>3. \A j \in DOMAIN work' : Behind(work[j], Ahead \cup Upto(work, j))'
      BY <1>1, <1>4 DEF Behind
    <2>4. \A e \in Elems(routed') : Accounts(Ahead' \cup Elems(work'), e)
      BY <1>1, <1>4
    <2> QED
      BY <2>1, <2>2, <2>3, <2>4 DEF InOrder
  <1> QED
    BY <1>3, <1>4, <1>5, <1>6

(* The provider's connection turns; the holder wishes to close, and does.   *)
LEMMA QuietStep ==
  ASSUME SessionInv, ProviderFlips \/ AskClose \/ emit_session_closing
  PROVE  SessionInv'
  <1>1. /\ UNCHANGED <<recv, out, ring, abandoned, routed, sink, stats>>
        /\ UNCHANGED <<opens, next, heard, entries, told, seen, takes, left>>
        /\ \/ work' = work
           \/ work = <<>> /\ \E kind \in {"sub", "conn", "closing"} : work' = <<Control(kind)>>
    BY DEF ProviderFlips, AskClose, emit_session_closing, Idle, delivery, source
  <1>2. /\ flips' \in Nat /\ close_asked' \in BOOLEAN /\ phase' \in {"running", "closing", "exited"}
    <2>1. flips \in Nat /\ close_asked \in BOOLEAN /\ phase \in {"running", "closing", "exited"}
      BY DEF SessionInv, TypeOK
    <2>2. CASE ProviderFlips
      BY <2>1, <2>2 DEF ProviderFlips
    <2>3. CASE AskClose
      BY <2>1, <2>3 DEF AskClose, source
    <2>4. CASE emit_session_closing
      BY <2>1, <2>4 DEF emit_session_closing, source
    <2> QED
      BY <2>2, <2>3, <2>4
  <1>3. Shape' /\ NumberedNext' /\ InOrder' /\ work' \in Seq(Events)
    BY <1>1, QuietKeeps
  <1>4. TypeOK'
    BY <1>1, <1>2, <1>3 DEF SessionInv, TypeOK
  <1> QED
    BY <1>3, <1>4 DEF SessionInv

(* A connection transition is read; a pair joins or leaves.                 *)
LEMMA CommandStep ==
  ASSUME SessionInv, NEW p \in Pairs, RouteConn(p) \/ Leave(p) \/ subscribe(p)
  PROVE  SessionInv'
  <1> USE DEF SessionInv
  <1>1. /\ UNCHANGED <<recv, out, ring, abandoned, routed, sink, stats>>
        /\ \/ work' = work
           \/ work = <<>> /\ \E kind \in {"sub", "conn", "closing"} : work' = <<Control(kind)>>
    BY DEF RouteConn, Leave, subscribe, Idle, delivery, source
  <1>2. /\ opens \in [Pairs -> Nat] /\ next \in [Pairs -> Nat] /\ heard \in [Pairs -> Nat] /\ flips \in Nat
        /\ told \in Seq({"connected", "disconnected"}) /\ entries \subseteq Pairs
    BY DEF TypeOK
  <1>3. /\ opens' \in [Pairs -> Nat] /\ next' \in [Pairs -> Nat]
        /\ \A q \in Pairs : (opens'[q] = opens[q] /\ next'[q] = next[q]) \/ opens'[q] = opens[q] + 1
    <2>1. CASE subscribe(p)
      <3>1. opens' = [opens EXCEPT ![p] = opens[p] + 1] /\ (next' = next \/ next' = [next EXCEPT ![p] = 0])
        BY <2>1 DEF subscribe
      <3> QED
        BY <1>2, <3>1
    <2>2. CASE UNCHANGED <<opens, next>>
      BY <1>2, <2>2
    <2> QED
      BY <2>1, <2>2 DEF RouteConn, Leave, source
  <1>4. heard' \in [Pairs -> Nat] /\ flips' \in Nat
    <2>1. CASE subscribe(p)
      <3>1. CASE StateAt(flips) = "connected" /\ heard' = [heard EXCEPT ![p] = flips - 1]
        <4>1. flips % 2 = 1
          BY <3>1 DEF StateAt
        <4>2. flips # 0
          BY <4>1
        <4>3. flips - 1 \in Nat
          BY <1>2, <4>2
        <4> QED
          BY <1>2, <2>1, <3>1, <4>3 DEF subscribe
      <3>2. CASE \E h \in 1 .. flips : heard' = [heard EXCEPT ![p] = h]
        BY <1>2, <2>1, <3>2 DEF subscribe
      <3> QED
        BY <2>1, <3>1, <3>2 DEF subscribe
    <2>2. CASE flips' = flips /\ (heard' = heard \/ heard' = [heard EXCEPT ![p] = heard[p] + 1])
      <3>1. heard[p] + 1 \in Nat
        BY <1>2
      <3> QED
        BY <1>2, <2>2, <3>1
    <2> QED
      BY <2>1, <2>2 DEF RouteConn, Leave, source
  <1>5. told' \in Seq({"connected", "disconnected"}) /\ seen' \in {"unknown", "connected", "disconnected"}
    <2>1. CASE RouteConn(p)
      <3>1. \A n : StateAt(n) \in {"connected", "disconnected"}
        BY DEF StateAt
      <3> DEFINE new == StateAt(heard'[p])
      <3>2. \/ seen' = new /\ told' = Append(told, new)
            \/ UNCHANGED <<seen, told>>
        BY <2>1 DEF RouteConn
      <3>3. new \in {"connected", "disconnected"}
        BY <3>1
      <3> HIDE DEF new
      <3>4. Append(told, new) \in Seq({"connected", "disconnected"})
        BY <1>2, <3>3
      <3> QED
        BY <1>2, <3>2, <3>3, <3>4 DEF TypeOK
    <2>2. CASE UNCHANGED <<told, seen>>
      BY <2>2 DEF TypeOK
    <2> QED
      BY <2>1, <2>2 DEF Leave, subscribe
  <1>6. /\ phase' \in {"running", "closing", "exited"} /\ close_asked' \in BOOLEAN /\ entries' \subseteq Pairs
        /\ takes' = takes /\ left' \in BOOLEAN
    <2>1. left \in BOOLEAN /\ close_asked \in BOOLEAN /\ phase \in {"running", "closing", "exited"}
      BY DEF TypeOK
    <2> QED
      BY <1>2, <2>1 DEF RouteConn, Leave, subscribe, source
  <1>7. Shape' /\ NumberedNext' /\ InOrder' /\ work' \in Seq(Events)
    BY <1>1, <1>3, QuietKeeps
  <1>8. TypeOK'
    BY <1>1, <1>3, <1>4, <1>5, <1>6, <1>7 DEF TypeOK
  <1> QED
    BY <1>7, <1>8

-----------------------------------------------------------------------------
(* Steps that move events.                                                  *)

LEMMA Grows ==
  ASSUME NEW drawn, NEW x, NEW S, NEW T, S \subseteq T
  PROVE  /\ Follows(drawn, x, S) => Follows(drawn, x, T)
         /\ Heads(drawn, x, S) => Heads(drawn, x, T)
  BY AccountsGrows, Kept

(* An event is drawn: all that was drawn before it is on its way.           *)
LEMMA RouteStep ==
  ASSUME SessionInv, NEW p \in Pairs, NEW ev \in Events, has_span(ev),
         ev.pair = p, ev.open = opens[p], ev.seq = next[p], RouteEvent(p, ev)
  PROVE  SessionInv'
  <1> USE DEF SessionInv
  <1> DEFINE N == Len(routed) + 1
             r == Append(routed, ev)
  <1>1. /\ UNCHANGED <<phase, close_asked, entries, sink, out, ring, stats, recv, abandoned>>
        /\ UNCHANGED <<opens, flips, heard, left, seen, told, takes>>
        /\ work = <<>> /\ work' = <<ev>> /\ routed' = r /\ next' = [next EXCEPT ![p] = next[p] + 1]
    BY DEF RouteEvent, delivery, Idle
  <1>2. /\ opens \in [Pairs -> Nat] /\ next \in [Pairs -> Nat] /\ routed \in Seq(Events)
    BY DEF TypeOK
  <1>3. /\ r \in Seq(Events) /\ Elems(r) = Elems(routed) \cup {ev} /\ Len(routed) \in Nat
        /\ DOMAIN routed = 1 .. Len(routed) /\ DOMAIN r = 1 .. N /\ r[N] = ev
        /\ \A j \in DOMAIN routed : r[j] = routed[j]
    BY <1>2, AppendIs
  <1> HIDE DEF r
  <1>4. next' \in [Pairs -> Nat] /\ next'[p] = next[p] + 1 /\ \A q \in Pairs : q # p => next'[q] = next[q]
    BY <1>1, <1>2
  <1>5. /\ work' \in Seq(Events) /\ DOMAIN work' = {1} /\ work'[1] = ev /\ Elems(work') = {ev}
        /\ Elems(work) = {} /\ Upto(work', 1) = {}
    BY <1>1 DEF Elems, Upto
  <1>6. TypeOK'
    BY <1>1, <1>3, <1>4, <1>5 DEF TypeOK
  <1>7. Shape' /\ Settled' = Settled /\ Gaps' = Gaps /\ Ahead' = Ahead
    BY <1>1 DEF Shape, Settled, Gaps, Ahead
  <1>8. ASSUME NEW x \in Elems(recv) \cup Held, has_span(x)
        PROVE  /\ x # ev /\ ~(x.pair = ev.pair /\ x.open = ev.open /\ ev.seq < x.seq)
               /\ x.pair \in Pairs /\ x.open <= opens[x.pair]
               /\ x.open = opens[x.pair] => x.seq < next'[x.pair]
    <2>1. /\ x.pair \in Pairs /\ x.open <= opens[x.pair]
          /\ x.open = opens[x.pair] => x.seq < next[x.pair]
      BY <1>8 DEF NumberedNext
    <2>2. x.seq \in Nat /\ next[p] \in Nat /\ next[x.pair] \in Nat
      BY <1>2, <1>8, <2>1, HeldIs DEF Events
    <2> QED
      BY <1>4, <2>1, <2>2
  <1>9. ASSUME NEW x \in Elems(recv) \cup Held, NEW S
        PROVE  /\ Follows(routed, x, S) => Follows(r, x, S)
               /\ Heads(routed, x, S) => Heads(r, x, S)
    <2>1. ASSUME Follows(routed, x, S), x.kind = "data", NEW m \in DOMAIN r, NEW n \in DOMAIN r, m < n, r[n] = x
          PROVE  Accounts(S, r[m])
      <3>1. n # N
        BY <1>3, <1>8, <2>1 DEF has_span
      <3>2. m \in DOMAIN routed /\ n \in DOMAIN routed
        BY <1>3, <2>1, <3>1
      <3> QED
        BY <1>3, <2>1, <3>2 DEF Follows
    <2>2. ASSUME Heads(routed, x, S), has_span(x), NEW e \in Elems(r), e.pair = x.pair, e.open = x.open, e.seq < x.seq
          PROVE  Accounts(S, e)
      <3>1. e \in Elems(routed)
        BY <1>3, <1>8, <2>2
      <3> QED
        BY <2>2, <3>1 DEF Heads
    <2> QED
      BY <2>1, <2>2 DEF Follows, Heads
  <1>10. \A e \in Elems(routed) : Accounts(Ahead, e)
    BY <1>5 DEF InOrder, Accounts
  <1>11. Follows(r, ev, Ahead) /\ Heads(r, ev, Ahead)
    <2>1. ASSUME NEW m \in DOMAIN r, NEW n \in DOMAIN r, m < n
          PROVE  Accounts(Ahead, r[m])
      <3>1. m \in DOMAIN routed
        BY <1>3, <2>1
      <3>2. r[m] \in Elems(routed)
        BY <1>3, <3>1 DEF Elems
      <3> QED
        BY <1>10, <3>2
    <2>2. ASSUME NEW e \in Elems(r), e.seq < ev.seq
          PROVE  Accounts(Ahead, e)
      <3>1. e # ev
        BY <1>2, <2>2
      <3> QED
        BY <1>3, <1>10, <3>1
    <2> QED
      BY <2>1, <2>2 DEF Follows, Heads
  <1>12. \A e \in Elems(r) : Accounts(Ahead \cup {ev}, e)
    BY <1>3, <1>10 DEF Accounts, Answers
  <1>13. NumberedNext'
    <2>1. (Elems(recv) \cup Held)' \subseteq Elems(recv) \cup Held \cup {ev}
      BY <1>1, <1>5 DEF Held
    <2>2. ev.open <= opens[p] /\ ev.seq < next'[p]
      BY <1>2, <1>4
    <2>3. \A e \in Elems(routed)' : has_span(e)
      BY <1>1, <1>3 DEF NumberedNext
    <2> QED
      BY <1>1, <1>8, <2>1, <2>2, <2>3 DEF NumberedNext
  <1>14. InOrder'
    <2>1. /\ \A i \in DOMAIN recv : recv[i] \in Elems(recv) \cup Held
          /\ \A j \in DOMAIN out.q : out.q[j] \in Elems(recv) \cup Held
          /\ \A j \in DOMAIN ring.buf : ring.buf[j] \in Elems(recv) \cup Held
          /\ \A i \in Instruments : ring.dropped[i] \in Elems(recv) \cup Held
      BY DEF Held, Elems
    <2>2. /\ \A i \in DOMAIN recv : Follows(r, recv[i], Upto(recv, i) \cup abandoned)
          /\ \A j \in DOMAIN out.q : Follows(r, out.q[j], Settled \cup Upto(out.q, j))
          /\ \A i \in Instruments : Heads(r, ring.dropped[i], Settled)
      BY <1>9, <2>1 DEF InOrder
    <2>3. \A j \in DOMAIN ring.buf : /\ Follows(r, ring.buf[j], Settled \cup Gaps \cup Upto(ring.buf, j))
                                     /\ Heads(r, ring.buf[j], Settled \cup Gaps \cup Upto(ring.buf, j))
      BY <1>9, <2>1 DEF InOrder, Behind
    <2>4. \A j \in DOMAIN work' : /\ Follows(r, work'[j], Ahead \cup Upto(work', j))
                                  /\ Heads(r, work'[j], Ahead \cup Upto(work', j))
      BY <1>5, <1>11, Grows
    <2>5. \A j \in DOMAIN ring'.buf : Behind(ring.buf[j], Settled \cup Gaps \cup Upto(ring.buf, j))'
      BY <1>1, <1>7, <2>3 DEF Behind
    <2>6. \A j \in DOMAIN work' : Behind(work[j], Ahead \cup Upto(work, j))'
      BY <1>1, <1>7, <2>4 DEF Behind
    <2>7. /\ \A i \in DOMAIN recv' : Follows(routed', recv'[i], Upto(recv', i) \cup abandoned')
          /\ \A j \in DOMAIN out'.q : Follows(routed', out'.q[j], Settled' \cup Upto(out'.q, j))
          /\ \A i \in Instruments : Heads(routed', ring'.dropped[i], Settled')
          /\ \A e \in Elems(routed') : Accounts(Ahead' \cup Elems(work'), e)
      BY <1>1, <1>5, <1>7, <1>12, <2>2
    <2> QED
      BY <2>5, <2>6, <2>7 DEF InOrder
  <1> QED
    BY <1>6, <1>7, <1>13, <1>14

(* The consumer reads an event, or drops the stream with what it holds.     *)
LEMMA RecvStep ==
  ASSUME SessionInv, Recv
  PROVE  SessionInv'
  <1> USE DEF SessionInv
  <1> DEFINE x == Head(out.q)
             t == Tail(out.q)
             r == Append(recv, x)
  <1>1. /\ UNCHANGED <<phase, close_asked, entries, work, sink, ring, stats, abandoned>>
        /\ UNCHANGED <<opens, next, flips, heard, routed, left, seen, told, takes>>
        /\ out.open /\ out.q # <<>> /\ recv' = r /\ out' = [out EXCEPT !.q = t]
    BY DEF Recv, source
  <1>2. recv \in Seq(Events) /\ out \in [open : BOOLEAN, q : Seq(Events)] /\ Len(out.q) <= OutCap /\ OutCap \in Nat
    BY BoundAssumption DEF TypeOK
  <1>3. out.q \in Seq(Events)
    BY <1>2
  <1>4. /\ x \in Events /\ t \in Seq(Events) /\ Len(t) = Len(out.q) - 1 /\ Len(out.q) \in Nat
        /\ 1 \in DOMAIN out.q /\ out.q[1] = x /\ Upto(out.q, 1) = {}
        /\ Elems(out.q) = {x} \cup Elems(t)
        /\ \A j \in DOMAIN t : /\ j + 1 \in DOMAIN out.q /\ t[j] = out.q[j + 1]
                               /\ Upto(out.q, j + 1) = {x} \cup Upto(t, j)
    BY <1>1, <1>3, TailIs
  <1>5. /\ r \in Seq(Events) /\ Elems(r) = Elems(recv) \cup {x}
        /\ r[Len(recv) + 1] = x /\ Upto(r, Len(recv) + 1) = Elems(recv)
        /\ \A j \in DOMAIN recv : r[j] = recv[j] /\ Upto(r, j) = Upto(recv, j)
        /\ \A j \in DOMAIN r : j \in DOMAIN recv \/ j = Len(recv) + 1
    BY <1>2, <1>4, AppendIs
  <1> HIDE DEF x, t, r
  <1>6. out' \in [open : BOOLEAN, q : Seq(Events)] /\ out'.q = t /\ out'.open = out.open /\ Len(out'.q) <= OutCap
    <2>1. out' \in [open : BOOLEAN, q : Seq(Events)] /\ out'.q = t /\ out'.open = out.open
      BY <1>1, <1>2, <1>4
    <2> QED
      BY <1>2, <1>4, <2>1
  <1>7. TypeOK'
    BY <1>1, <1>5, <1>6 DEF TypeOK
  <1>8. Shape'
    BY <1>1, <1>6 DEF Shape
  <1>9. /\ Settled' = Settled \cup {x} /\ Gaps' = Gaps /\ Ahead' = Ahead
        /\ (Elems(recv) \cup Held)' = Elems(recv) \cup Held
    BY <1>1, <1>4, <1>5, <1>6 DEF Settled, Gaps, Ahead, Held
  <1>10. NumberedNext'
    BY <1>1, <1>9 DEF NumberedNext
  <1>11. InOrder'
    <2>1. ASSUME NEW i \in DOMAIN r PROVE Follows(routed, r[i], Upto(r, i) \cup abandoned)
      <3>1. CASE i \in DOMAIN recv
        BY <1>5, <3>1 DEF InOrder
      <3>2. CASE i = Len(recv) + 1
        <4>1. Follows(routed, x, Settled \cup {})
          BY <1>4 DEF InOrder
        <4>2. Settled \cup {} = Upto(r, i) \cup abandoned
          BY <1>5, <3>2 DEF Settled
        <4> QED
          BY <1>5, <3>2, <4>1, <4>2
      <3> QED
        BY <1>5, <3>1, <3>2
    <2>2. ASSUME NEW j \in DOMAIN t PROVE Follows(routed, t[j], Settled \cup {x} \cup Upto(t, j))
      <3>1. Follows(routed, out.q[j + 1], Settled \cup Upto(out.q, j + 1))
        BY <1>4 DEF InOrder
      <3>2. Settled \cup Upto(out.q, j + 1) = Settled \cup {x} \cup Upto(t, j)
        BY <1>4
      <3> QED
        BY <1>4, <3>1, <3>2
    <2>3. \A i \in Instruments : Heads(routed, ring.dropped[i], Settled \cup {x})
      BY Grows DEF InOrder
    <2>4. ASSUME NEW j \in DOMAIN ring.buf
          PROVE  /\ Follows(routed, ring.buf[j], (Settled \cup {x}) \cup Gaps \cup Upto(ring.buf, j))
                 /\ Heads(routed, ring.buf[j], (Settled \cup {x}) \cup Gaps \cup Upto(ring.buf, j))
      <3> DEFINE S == Settled \cup Gaps \cup Upto(ring.buf, j)
                 T == (Settled \cup {x}) \cup Gaps \cup Upto(ring.buf, j)
      <3>1. Follows(routed, ring.buf[j], S) /\ Heads(routed, ring.buf[j], S)
        BY DEF InOrder, Behind
      <3>2. S \subseteq T
        OBVIOUS
      <3> HIDE DEF S, T
      <3>3. Follows(routed, ring.buf[j], T) /\ Heads(routed, ring.buf[j], T)
        BY <3>1, <3>2, Grows
      <3> QED
        BY <3>3 DEF T
    <2>5. \A j \in DOMAIN ring'.buf : Behind(ring.buf[j], Settled \cup Gaps \cup Upto(ring.buf, j))'
      BY <1>1, <1>9, <2>4 DEF Behind
    <2>6. \A j \in DOMAIN work' : Behind(work[j], Ahead \cup Upto(work, j))'
      BY <1>1, <1>9 DEF InOrder, Behind
    <2>7. /\ \A i \in DOMAIN recv' : Follows(routed', recv'[i], Upto(recv', i) \cup abandoned')
          /\ \A j \in DOMAIN out'.q : Follows(routed', out'.q[j], Settled' \cup Upto(out'.q, j))
          /\ \A i \in Instruments : Heads(routed', ring'.dropped[i], Settled')
      BY <1>1, <1>6, <1>9, <2>1, <2>2, <2>3
    <2>8. \A e \in Elems(routed') : Accounts(Ahead' \cup Elems(work'), e)
      BY <1>1, <1>9 DEF InOrder
    <2> QED
      BY <2>5, <2>6, <2>7, <2>8 DEF InOrder
  <1> QED
    BY <1>7, <1>8, <1>10, <1>11

LEMMA DropStep ==
  ASSUME SessionInv, DropStream
  PROVE  SessionInv'
  <1> USE DEF SessionInv
  <1> DEFINE a == abandoned \cup Elems(out.q)
  <1>1. /\ UNCHANGED <<phase, close_asked, entries, work, sink, ring, stats, recv>>
        /\ UNCHANGED <<opens, next, flips, heard, routed, left, seen, told, takes>>
        /\ abandoned' = a /\ out' = [open |-> FALSE, q |-> <<>>]
    BY DEF DropStream, source, Elems
  <1>2. out.q \in Seq(Events) /\ abandoned \subseteq Events /\ OutCap \in Nat
    BY BoundAssumption DEF TypeOK
  <1>3. a \subseteq Events /\ Elems(out'.q) = {} /\ out'.q = <<>> /\ ~out'.open
        /\ out' \in [open : BOOLEAN, q : Seq(Events)] /\ Len(out'.q) <= OutCap
    <2>1. Elems(out.q) \subseteq Events
      BY <1>2 DEF Elems
    <2> QED
      BY <1>1, <1>2, <2>1 DEF Elems
  <1>4. TypeOK' /\ Shape'
    BY <1>1, <1>3 DEF TypeOK, Shape
  <1>5. Settled' = Settled \cup Elems(out.q) /\ Gaps' = Gaps /\ Ahead' = Ahead
    BY <1>1, <1>3 DEF Settled, Gaps, Ahead
  <1>6. NumberedNext'
    <2>1. (Elems(recv) \cup Held)' \subseteq Elems(recv) \cup Held
      BY <1>1, <1>3 DEF Held
    <2> QED
      BY <1>1, <2>1 DEF NumberedNext
  <1>7. InOrder'
    <2> DEFINE S == Settled \cup Elems(out.q)
    <2>1. \A i \in DOMAIN recv : Follows(routed, recv[i], Upto(recv, i) \cup a)
      BY Grows DEF InOrder
    <2>2. \A i \in Instruments : Heads(routed, ring.dropped[i], S)
      BY Grows DEF InOrder
    <2>3. ASSUME NEW j \in DOMAIN ring.buf
          PROVE  /\ Follows(routed, ring.buf[j], S \cup Gaps \cup Upto(ring.buf, j))
                 /\ Heads(routed, ring.buf[j], S \cup Gaps \cup Upto(ring.buf, j))
      <3> DEFINE R == Settled \cup Gaps \cup Upto(ring.buf, j)
                 T == S \cup Gaps \cup Upto(ring.buf, j)
      <3>1. Follows(routed, ring.buf[j], R) /\ Heads(routed, ring.buf[j], R)
        BY DEF InOrder, Behind
      <3>2. R \subseteq T
        OBVIOUS
      <3> HIDE DEF R, T, S
      <3>3. Follows(routed, ring.buf[j], T) /\ Heads(routed, ring.buf[j], T)
        BY <3>1, <3>2, Grows
      <3> QED
        BY <3>3 DEF T
    <2> HIDE DEF S, a
    <2>4. \A j \in DOMAIN ring'.buf : Behind(ring.buf[j], Settled \cup Gaps \cup Upto(ring.buf, j))'
      BY <1>1, <1>5, <2>3 DEF Behind, S
    <2>5. \A j \in DOMAIN work' : Behind(work[j], Ahead \cup Upto(work, j))'
      BY <1>1, <1>5 DEF InOrder, Behind
    <2>6. /\ \A i \in DOMAIN recv' : Follows(routed', recv'[i], Upto(recv', i) \cup abandoned')
          /\ \A j \in DOMAIN out'.q : Follows(routed', out'.q[j], Settled' \cup Upto(out'.q, j))
          /\ \A i \in Instruments : Heads(routed', ring'.dropped[i], Settled')
      <3>1. DOMAIN out'.q = {}
        BY <1>3
      <3>2. Settled' = S /\ abandoned' = a /\ routed' = routed /\ recv' = recv /\ ring' = ring
        BY <1>1, <1>5 DEF S
      <3> QED
        BY <2>1, <2>2, <3>1, <3>2
    <2>7. \A e \in Elems(routed') : Accounts(Ahead' \cup Elems(work'), e)
      BY <1>1, <1>5 DEF InOrder
    <2> QED
      BY <2>4, <2>5, <2>6, <2>7 DEF InOrder
  <1> QED
    BY <1>4, <1>6, <1>7

-----------------------------------------------------------------------------
(* Delivery.                                                                *)

(* What a detached or drained sink does not hold accounts for nothing.      *)
LEMMA EmptyRingIs ==
  /\ EmptyRing.buf = <<>> /\ EmptyRing.dropped = [i \in Instruments |-> NoGap]
  /\ EmptyRing \in [buf : Seq(Events), dropped : [Instruments -> Events \cup {NoGap}]]
  BY DEF EmptyRing

(* The event at the head of what a handler has to deliver.                  *)
LEMMA WorkIs ==
  ASSUME SessionInv, work # <<>>
  PROVE  LET w == Head(work)
             t == Tail(work)
         IN  /\ w \in Events /\ t \in Seq(Events) /\ Elems(work) = {w} \cup Elems(t)
             /\ Follows(routed, w, Ahead) /\ Heads(routed, w, Ahead)
             /\ \A j \in DOMAIN t : /\ Follows(routed, t[j], Ahead \cup {w} \cup Upto(t, j))
                                    /\ Heads(routed, t[j], Ahead \cup {w} \cup Upto(t, j))
  <1> USE DEF SessionInv
  <1> DEFINE w == Head(work)
             t == Tail(work)
  <1>1. work \in Seq(Events)
    BY DEF TypeOK
  <1>2. /\ w \in Events /\ t \in Seq(Events) /\ Elems(work) = {w} \cup Elems(t)
        /\ 1 \in DOMAIN work /\ work[1] = w /\ Upto(work, 1) = {}
        /\ \A j \in DOMAIN t : /\ j + 1 \in DOMAIN work /\ t[j] = work[j + 1]
                               /\ Upto(work, j + 1) = {w} \cup Upto(t, j)
    BY <1>1, TailIs
  <1> HIDE DEF w, t
  <1>3. Follows(routed, w, Ahead) /\ Heads(routed, w, Ahead)
    <2>1. Behind(work[1], Ahead \cup Upto(work, 1))
      BY <1>2 DEF InOrder
    <2>2. Ahead \cup Upto(work, 1) = Ahead
      BY <1>2
    <2> QED
      BY <1>2, <2>1, <2>2 DEF Behind
  <1>4. ASSUME NEW j \in DOMAIN t
        PROVE  /\ Follows(routed, t[j], Ahead \cup {w} \cup Upto(t, j))
               /\ Heads(routed, t[j], Ahead \cup {w} \cup Upto(t, j))
    <2>1. Behind(work[j + 1], Ahead \cup Upto(work, j + 1))
      BY <1>2 DEF InOrder
    <2>2. Ahead \cup Upto(work, j + 1) = Ahead \cup {w} \cup Upto(t, j)
      BY <1>2
    <2> QED
      BY <1>2, <2>1, <2>2 DEF Behind
  <1> QED
    BY <1>2, <1>3, <1>4 DEF w, t

LEMMA SendStep ==
  ASSUME SessionInv, deliver, Send
  PROVE  SessionInv'
  <1> USE DEF SessionInv
  <1> DEFINE w == Head(work)
             t == Tail(work)
             q == Append(out.q, w)
  <1>1. /\ UNCHANGED <<sink, ring, stats, close_asked, recv, abandoned, seen, told, takes>>
        /\ UNCHANGED <<opens, next, flips, heard, routed, left>>
        /\ phase' \in {"exited", phase} /\ entries' \in {{}, entries}
        /\ work # <<>> /\ work' = t /\ sink = "attached" /\ out.open /\ Len(out.q) < OutCap
        /\ out' = [out EXCEPT !.q = q]
    BY DEF deliver, Send, source
  <1>2. out \in [open : BOOLEAN, q : Seq(Events)] /\ OutCap \in Nat
    BY BoundAssumption DEF TypeOK
  <1>3. out.q \in Seq(Events)
    BY <1>2
  <1>4. /\ w \in Events /\ t \in Seq(Events) /\ Elems(work) = {w} \cup Elems(t)
        /\ Follows(routed, w, Ahead) /\ Heads(routed, w, Ahead)
        /\ \A j \in DOMAIN t : /\ Follows(routed, t[j], Ahead \cup {w} \cup Upto(t, j))
                               /\ Heads(routed, t[j], Ahead \cup {w} \cup Upto(t, j))
    BY <1>1, WorkIs
  <1>5. /\ q \in Seq(Events) /\ Len(q) = Len(out.q) + 1 /\ Len(out.q) \in Nat
        /\ Elems(q) = Elems(out.q) \cup {w}
        /\ q[Len(out.q) + 1] = w /\ Upto(q, Len(out.q) + 1) = Elems(out.q)
        /\ \A j \in DOMAIN out.q : q[j] = out.q[j] /\ Upto(q, j) = Upto(out.q, j)
        /\ \A j \in DOMAIN q : j \in DOMAIN out.q \/ j = Len(out.q) + 1
    BY <1>3, <1>4, AppendIs
  <1> HIDE DEF w, t, q
  <1>6. out' \in [open : BOOLEAN, q : Seq(Events)] /\ out'.q = q /\ out'.open = out.open
    BY <1>1, <1>2, <1>5
  <1>7. Len(out'.q) <= OutCap
    BY <1>1, <1>2, <1>5, <1>6
  <1>8. TypeOK'
    BY <1>1, <1>4, <1>6, <1>7 DEF TypeOK
  <1>9. Shape'
    BY <1>1, <1>6 DEF Shape
  <1>10. /\ Settled' = Settled /\ Gaps' = Gaps /\ Ahead' = Ahead \cup {w}
         /\ (Elems(recv) \cup Held)' = Elems(recv) \cup Held
    BY <1>1, <1>4, <1>5, <1>6 DEF Settled, Gaps, Ahead, Held
  <1>11. NumberedNext'
    BY <1>1, <1>10 DEF NumberedNext
  <1>12. Follows(routed, w, Settled \cup Elems(out.q))
    <2>1. ring = EmptyRing
      BY <1>1 DEF Shape
    <2>2. ASSUME NEW x \in Ahead PROVE x \in Settled \cup Elems(out.q) \/ x = NoGap
      BY <2>1, EmptyRingIs DEF Ahead, Gaps, Elems
    <2>3. \A e \in Elems(routed) : ~Answers(NoGap, e)
      BY NoGapIs DEF NumberedNext
    <2>4. \A e \in Elems(routed) : Accounts(Ahead, e) => Accounts(Settled \cup Elems(out.q), e)
      BY <2>2, <2>3 DEF Accounts
    <2> QED
      BY <1>4, <2>4, Kept
  <1>13. InOrder'
    <2>1. ASSUME NEW j \in DOMAIN q PROVE Follows(routed, q[j], Settled \cup Upto(q, j))
      <3>1. CASE j \in DOMAIN out.q
        BY <1>5, <3>1 DEF InOrder
      <3>2. CASE j = Len(out.q) + 1
        BY <1>5, <1>12, <3>2
      <3> QED
        BY <1>5, <3>1, <3>2
    <2>2. \A j \in DOMAIN ring'.buf : Behind(ring.buf[j], Settled \cup Gaps \cup Upto(ring.buf, j))'
      BY <1>1, <1>10 DEF InOrder, Behind
    <2>3. \A j \in DOMAIN work' : Behind(work[j], Ahead \cup Upto(work, j))'
      BY <1>1, <1>4, <1>10 DEF Behind
    <2>4. /\ \A i \in DOMAIN recv' : Follows(routed', recv'[i], Upto(recv', i) \cup abandoned')
          /\ \A j \in DOMAIN out'.q : Follows(routed', out'.q[j], Settled' \cup Upto(out'.q, j))
          /\ \A i \in Instruments : Heads(routed', ring'.dropped[i], Settled')
      BY <1>1, <1>6, <1>10, <2>1 DEF InOrder
    <2>5. \A e \in Elems(routed') : Accounts(Ahead' \cup Elems(work'), e)
      <3>1. Ahead' \cup Elems(work') = Ahead \cup Elems(work)
        BY <1>1, <1>4, <1>10
      <3> QED
        BY <1>1, <3>1 DEF InOrder
    <2> QED
      BY <2>2, <2>3, <2>4, <2>5 DEF InOrder
  <1> QED
    BY <1>8, <1>9, <1>11, <1>13

(* What is right about a ring r that the session's ring becomes when it      *)
(* takes the event w, its gaps being G.                                     *)
Takes(r, w, G) ==
  /\ r \in [buf : Seq(Events), dropped : [Instruments -> Events \cup {NoGap}]]
  /\ Len(r.buf) <= RingCap /\ Elems(r.buf) \subseteq Elems(ring.buf) \cup {w}
  /\ \A i \in Instruments :
       /\ r.dropped[i] # NoGap => r.dropped[i].kind = "gap" /\ r.dropped[i].pair[1] = i
       /\ has_span(r.dropped[i]) => \E x \in Held :
            has_span(x) /\ x.pair = r.dropped[i].pair /\ x.open = r.dropped[i].open /\ x.seq = r.dropped[i].seq
       /\ Heads(routed, r.dropped[i], Settled)
  /\ \A e \in Elems(routed) : \A U :
       Accounts(Settled \cup Gaps \cup Elems(ring.buf) \cup {w} \cup U, e)
         => Accounts(Settled \cup G \cup Elems(r.buf) \cup U, e)
  /\ \A j \in DOMAIN r.buf :
       \/ r.buf[j] = w /\ \A e \in Elems(routed) :
            Accounts(Settled \cup Gaps \cup Elems(ring.buf), e) => Accounts(Settled \cup G \cup Upto(r.buf, j), e)
       \/ Behind(r.buf[j], Settled \cup G \cup Upto(r.buf, j))

(* The ring takes an event: at most one older one is evicted, into a gap.   *)
LEMMA PushIs ==
  ASSUME SessionInv, NEW w \in Events
  PROVE  Takes(push(ring, w), w, {push(ring, w).dropped[i] : i \in Instruments})
  <1> USE DEF SessionInv
  <1> DEFINE b == ring.buf
             d == ring.dropped
  <1>1. /\ ring \in [buf : Seq(Events), dropped : [Instruments -> Events \cup {NoGap}]] /\ Len(b) <= RingCap
        /\ RingCap \in Nat \ {0}
    BY BoundAssumption DEF TypeOK
  <1>2. b \in Seq(Events) /\ d \in [Instruments -> Events \cup {NoGap}]
    BY <1>1
  <1>3. CASE ~full(ring)
    <2> DEFINE a == Append(b, w)
               r == [ring EXCEPT !.buf = a]
    <2>1. push(ring, w) = r
      BY <1>3, Zenon DEF push
    <2>2. /\ a \in Seq(Events) /\ Len(a) = Len(b) + 1 /\ Len(b) \in Nat
          /\ Elems(a) = Elems(b) \cup {w}
          /\ a[Len(b) + 1] = w /\ Upto(a, Len(b) + 1) = Elems(b)
          /\ \A j \in DOMAIN b : a[j] = b[j] /\ Upto(a, j) = Upto(b, j)
          /\ \A j \in DOMAIN a : j \in DOMAIN b \/ j = Len(b) + 1
      BY <1>2, AppendIs
    <2>3. Len(a) <= RingCap
      BY <1>1, <1>3, <2>2 DEF full
    <2> HIDE DEF a
    <2>4. r \in [buf : Seq(Events), dropped : [Instruments -> Events \cup {NoGap}]] /\ r.buf = a /\ r.dropped = d
      BY <1>1, <2>2
    <2> HIDE DEF r
    <2>5. \A i \in Instruments : d[i] \in Held
      BY DEF Held
    <2>6. ASSUME NEW j \in DOMAIN a
          PROVE  \/ a[j] = w /\ Upto(a, j) = Elems(b)
                 \/ Behind(a[j], Settled \cup Gaps \cup Upto(a, j))
      BY <2>2 DEF InOrder
    <2>7. {r.dropped[i] : i \in Instruments} = Gaps
      BY <2>4 DEF Gaps
    <2>8. /\ \A i \in Instruments : d[i] # NoGap => d[i].kind = "gap" /\ d[i].pair[1] = i
          /\ \A i \in Instruments : Heads(routed, d[i], Settled)
      BY DEF Shape, InOrder
    <2>9. \A U : Settled \cup Gaps \cup Elems(b) \cup {w} \cup U = Settled \cup Gaps \cup Elems(a) \cup U
      BY <2>2
    <2> HIDE DEF b, d
    <2>10. \A j \in DOMAIN r.buf :
             \/ r.buf[j] = w /\ \A e \in Elems(routed) :
                  Accounts(Settled \cup Gaps \cup Elems(b), e) => Accounts(Settled \cup Gaps \cup Upto(r.buf, j), e)
             \/ Behind(r.buf[j], Settled \cup Gaps \cup Upto(r.buf, j))
      BY <2>4, <2>6
    <2>11. Takes(r, w, Gaps)
      <3>1. Elems(r.buf) \subseteq Elems(b) \cup {w}
        BY <2>2, <2>4
      <3>2. ASSUME NEW i \in Instruments, has_span(r.dropped[i])
            PROVE  \E x \in Held : has_span(x) /\ x.pair = r.dropped[i].pair /\ x.open = r.dropped[i].open
                                               /\ x.seq = r.dropped[i].seq
        BY <2>4, <2>5, <3>2
      <3>3. ASSUME NEW i \in Instruments
            PROVE  /\ r.dropped[i] # NoGap => r.dropped[i].kind = "gap" /\ r.dropped[i].pair[1] = i
                   /\ Heads(routed, r.dropped[i], Settled)
        BY <2>4, <2>8
      <3>4. ASSUME NEW e, NEW U, Accounts(Settled \cup Gaps \cup Elems(b) \cup {w} \cup U, e)
            PROVE  Accounts(Settled \cup Gaps \cup Elems(r.buf) \cup U, e)
        BY <2>4, <2>9, <3>4
      <3> QED
        BY <2>3, <2>4, <2>10, <3>1, <3>2, <3>3, <3>4 DEF Takes, b
    <2> QED
      BY <2>1, <2>7, <2>11
  <1>4. CASE full(ring)
    <2> DEFINE h == Head(b)
               t == Tail(b)
               n == note_drop(d, h)
               a == Append(t, w)
               N == {n[i] : i \in Instruments}
    <2>1. push(ring, w) = [buf |-> a, dropped |-> n]
      BY <1>4, Zenon DEF push
    <2>2. b # <<>>
      BY <1>1, <1>2, <1>4 DEF full
    <2>3. /\ h \in Events /\ t \in Seq(Events) /\ Len(t) = Len(b) - 1 /\ Len(b) \in Nat
          /\ 1 \in DOMAIN b /\ b[1] = h /\ Upto(b, 1) = {}
          /\ Elems(b) = {h} \cup Elems(t)
          /\ \A j \in DOMAIN t : /\ j + 1 \in DOMAIN b /\ t[j] = b[j + 1]
                                 /\ Upto(b, j + 1) = {h} \cup Upto(t, j)
      BY <1>2, <2>2, TailIs
    <2> HIDE DEF h, t
    <2>4. /\ a \in Seq(Events) /\ Len(a) = Len(t) + 1 /\ Len(t) \in Nat
          /\ Elems(a) = Elems(t) \cup {w}
          /\ a[Len(t) + 1] = w /\ Upto(a, Len(t) + 1) = Elems(t)
          /\ \A j \in DOMAIN t : a[j] = t[j] /\ Upto(a, j) = Upto(t, j)
          /\ \A j \in DOMAIN a : j \in DOMAIN t \/ j = Len(t) + 1
      BY <2>3, AppendIs
    <2>5. Len(a) <= RingCap
      BY <1>1, <2>3, <2>4
    <2>6. h \in Held /\ (has_span(h) => h.pair \in Pairs)
      BY <2>3 DEF Held, NumberedNext
    <2>7. Heads(routed, h, Settled \cup {d[i] : i \in Instruments})
      <3>1. Behind(b[1], Settled \cup Gaps \cup Upto(b, 1))
        BY <2>3 DEF InOrder
      <3>2. Settled \cup Gaps \cup Upto(b, 1) = Settled \cup {d[i] : i \in Instruments}
        BY <2>3 DEF Gaps
      <3> QED
        BY <2>3, <3>1, <3>2 DEF Behind
    <2>8. /\ \A i \in Instruments : d[i] # NoGap => d[i].kind = "gap" /\ d[i].pair[1] = i
          /\ \A i \in Instruments : Heads(routed, d[i], Settled)
          /\ \A e \in Elems(routed) : has_span(e)
          /\ Elems(routed) \subseteq Events
      BY HeldIs DEF Shape, InOrder, NumberedNext
    <2>9. ASSUME NEW U
          PROVE  /\ n \in [Instruments -> Events \cup {NoGap}]
                 /\ \A i \in Instruments : n[i] # NoGap => n[i].kind = "gap" /\ n[i].pair[1] = i
                 /\ \A i \in Instruments : Heads(routed, n[i], Settled)
                 /\ \A e \in Elems(routed) : Accounts(Settled \cup Gaps \cup {h} \cup U, e)
                                              => Accounts(Settled \cup N \cup U, e)
      <3>1. Gaps = {d[i] : i \in Instruments}
        BY DEF Gaps
      <3>2. Evictable(routed, d, h, Settled)
        BY <1>2, <2>3, <2>6, <2>7, <2>8 DEF Evictable
      <3>3. Absorbs(routed, d, h, Settled, n)
        BY <3>2, Evicted
      <3> HIDE DEF d, n
      <3> QED
        BY <3>1, <3>3 DEF Absorbs
    <2>10. ASSUME NEW i \in Instruments, has_span(n[i])
           PROVE  \E x \in Held : has_span(x) /\ x.pair = n[i].pair /\ x.open = n[i].open /\ x.seq = n[i].seq
      <3>1. d[i] \in Held
        BY DEF Held
      <3>2. CASE ~has_span(h)
        <4>1. n = d
          BY <3>2 DEF note_drop
        <4> QED
          BY <2>10, <3>1, <4>1
      <3>3. CASE has_span(h)
        <4> DEFINE k == h.pair[1]
        <4>1. /\ \A m \in Instruments : m # k => n[m] = d[m]
              /\ d[k] = NoGap => n[k].pair = h.pair /\ n[k].open = h.open /\ n[k].seq = h.seq
              /\ d[k] # NoGap => n[k].pair = d[k].pair /\ n[k].open = d[k].open /\ n[k].seq = d[k].seq
          <5> HIDE DEF d
          <5> QED
            BY <1>2, <2>3, <2>6, <2>8, <3>3, NoteDropIs
        <4> HIDE DEF n, k
        <4>2. d[i] # NoGap => has_span(d[i])
          BY <2>8 DEF has_span
        <4>3. CASE i # k
          BY <2>10, <3>1, <4>1, <4>3
        <4>4. CASE i = k
          BY <2>6, <3>1, <3>3, <4>1, <4>2, <4>4
        <4> QED
          BY <4>3, <4>4
      <3> QED
        BY <3>2, <3>3
    <2> HIDE DEF n, a, N
    <2>11. ASSUME NEW e \in Elems(routed), NEW U, Accounts(Settled \cup Gaps \cup Elems(b) \cup {w} \cup U, e)
           PROVE  Accounts(Settled \cup N \cup Elems(a) \cup U, e)
      <3> DEFINE V == Elems(t) \cup {w} \cup U
      <3>1. Settled \cup Gaps \cup Elems(b) \cup {w} \cup U = Settled \cup Gaps \cup {h} \cup V
        BY <2>3
      <3>2. Accounts(Settled \cup N \cup V, e)
        BY <2>9, <2>11, <3>1
      <3>3. Settled \cup N \cup V = Settled \cup N \cup Elems(a) \cup U
        BY <2>4
      <3> QED
        BY <3>2, <3>3
    <2>12. ASSUME NEW j \in DOMAIN a
           PROVE  \/ a[j] = w /\ \A e \in Elems(routed) :
                       Accounts(Settled \cup Gaps \cup Elems(b), e) => Accounts(Settled \cup N \cup Upto(a, j), e)
                  \/ Behind(a[j], Settled \cup N \cup Upto(a, j))
      <3>1. CASE j = Len(t) + 1
        <4>1. Settled \cup Gaps \cup Elems(b) = Settled \cup Gaps \cup {h} \cup Elems(t)
          BY <2>3
        <4>2. a[j] = w /\ Upto(a, j) = Elems(t)
          BY <2>4, <3>1
        <4> QED
          BY <2>9, <4>1, <4>2
      <3>2. CASE j \in DOMAIN t
        <4>1. Behind(b[j + 1], Settled \cup Gaps \cup Upto(b, j + 1))
          BY <2>3, <3>2 DEF InOrder
        <4>2. Settled \cup Gaps \cup Upto(b, j + 1) = Settled \cup Gaps \cup {h} \cup Upto(t, j)
          BY <2>3, <3>2
        <4>3. a[j] = b[j + 1] /\ Upto(a, j) = Upto(t, j)
          BY <2>3, <2>4, <3>2
        <4>4. \A e \in Elems(routed) : Accounts(Settled \cup Gaps \cup {h} \cup Upto(t, j), e)
                                         => Accounts(Settled \cup N \cup Upto(t, j), e)
          BY <2>9
        <4>5. Behind(a[j], Settled \cup N \cup Upto(t, j))
          BY <4>1, <4>2, <4>3, <4>4, Kept DEF Behind
        <4> QED
          BY <4>3, <4>5
      <3> QED
        BY <2>4, <3>1, <3>2
    <2>13. \A x \in Elems(a) : x \in Elems(b) \cup {w}
      BY <2>3, <2>4
    <2>14. /\ [buf |-> a, dropped |-> n] \in [buf : Seq(Events), dropped : [Instruments -> Events \cup {NoGap}]]
           /\ \A i \in Instruments : n[i] # NoGap => n[i].kind = "gap" /\ n[i].pair[1] = i
           /\ \A i \in Instruments : Heads(routed, n[i], Settled)
      BY <2>4, <2>9
    <2> DEFINE r == [buf |-> a, dropped |-> n]
    <2>15. r.buf = a /\ r.dropped = n
      OBVIOUS
    <2> HIDE DEF r
    <2>16. Takes(r, w, N)
      <3>1. ASSUME NEW i \in Instruments, has_span(r.dropped[i])
            PROVE  \E x \in Held : has_span(x) /\ x.pair = r.dropped[i].pair /\ x.open = r.dropped[i].open
                                               /\ x.seq = r.dropped[i].seq
        BY <2>10, <2>15, <3>1
      <3>2. r \in [buf : Seq(Events), dropped : [Instruments -> Events \cup {NoGap}]]
        BY <2>14 DEF r
      <3>3. ASSUME NEW i \in Instruments
            PROVE  /\ r.dropped[i] # NoGap => r.dropped[i].kind = "gap" /\ r.dropped[i].pair[1] = i
                   /\ Heads(routed, r.dropped[i], Settled)
        BY <2>14, <2>15
      <3>4. Elems(r.buf) \subseteq Elems(b) \cup {w} /\ Len(r.buf) <= RingCap
        BY <2>5, <2>13, <2>15
      <3>5. ASSUME NEW e \in Elems(routed), NEW U, Accounts(Settled \cup Gaps \cup Elems(b) \cup {w} \cup U, e)
            PROVE  Accounts(Settled \cup N \cup Elems(r.buf) \cup U, e)
        BY <2>11, <2>15, <3>5
      <3>6. ASSUME NEW j \in DOMAIN r.buf
            PROVE  \/ r.buf[j] = w /\ \A e \in Elems(routed) :
                        Accounts(Settled \cup Gaps \cup Elems(b), e) => Accounts(Settled \cup N \cup Upto(r.buf, j), e)
                   \/ Behind(r.buf[j], Settled \cup N \cup Upto(r.buf, j))
        BY <2>12, <2>15
      <3> QED
        BY <3>1, <3>2, <3>3, <3>4, <3>5, <3>6 DEF Takes
    <2> QED
      BY <2>1, <2>15, <2>16 DEF r, N
  <1> QED
    BY <1>3, <1>4

LEMMA BufferStep ==
  ASSUME SessionInv, deliver, Buffer
  PROVE  SessionInv'
  <1> USE DEF SessionInv
  <1> DEFINE w == Head(work)
             t == Tail(work)
             B == Settled \cup Gaps \cup Elems(ring.buf)
  <1>1. /\ UNCHANGED <<out, close_asked, recv, abandoned, seen, told, takes>>
        /\ UNCHANGED <<opens, next, flips, heard, routed, left>>
        /\ phase' \in {"exited", phase} /\ entries' \in {{}, entries}
        /\ work # <<>> /\ work' = t /\ sink' = "detached" /\ (sink = "detached" \/ ~out.open)
    BY DEF deliver, Buffer, source
  <1>2. /\ w \in Events /\ t \in Seq(Events) /\ Elems(work) = {w} \cup Elems(t)
        /\ Follows(routed, w, Ahead) /\ Heads(routed, w, Ahead)
        /\ \A j \in DOMAIN t : /\ Follows(routed, t[j], Ahead \cup {w} \cup Upto(t, j))
                               /\ Heads(routed, t[j], Ahead \cup {w} \cup Upto(t, j))
    BY <1>1, WorkIs
  <1>3. ~out.open /\ out.q = <<>> /\ Elems(out.q) = {}
    BY <1>1 DEF Shape, Elems
  <1>4. /\ ring' = push(ring, w)
        /\ stats' = [occupancy |-> Len(ring'.buf),
                     dropped_events |-> stats.dropped_events + IF full(ring) THEN 1 ELSE 0]
    <2> DEFINE r == IF sink = "attached" THEN EmptyRing ELSE ring
    <2>1. r = ring
      BY DEF Shape
    <2>2. /\ ring' = push(r, w)
          /\ stats' = [occupancy |-> Len(ring'.buf),
                       dropped_events |-> stats.dropped_events + IF full(r) THEN 1 ELSE 0]
      BY DEF Buffer
    <2> HIDE DEF r, w
    <2> QED
      BY <2>1, <2>2
  <1>5. Takes(ring', w, Gaps')
    <2>1. Gaps' = {push(ring, w).dropped[i] : i \in Instruments}
      BY <1>4 DEF Gaps
    <2> HIDE DEF w
    <2> QED
      BY <1>2, <1>4, <2>1, PushIs
  <1> HIDE DEF w, t
  <1>6. /\ ring' \in [buf : Seq(Events), dropped : [Instruments -> Events \cup {NoGap}]]
        /\ Len(ring'.buf) <= RingCap /\ Len(ring'.buf) \in Nat /\ Elems(ring'.buf) \subseteq Elems(ring.buf) \cup {w}
        /\ \A i \in Instruments :
             /\ ring'.dropped[i] # NoGap => ring'.dropped[i].kind = "gap" /\ ring'.dropped[i].pair[1] = i
             /\ Heads(routed, ring'.dropped[i], Settled)
    <2>1. /\ ring' \in [buf : Seq(Events), dropped : [Instruments -> Events \cup {NoGap}]]
          /\ Len(ring'.buf) <= RingCap /\ Elems(ring'.buf) \subseteq Elems(ring.buf) \cup {w}
      BY <1>5 DEF Takes
    <2>2. Len(ring'.buf) \in Nat
      <3>1. ring'.buf \in Seq(Events)
        BY <2>1
      <3> QED
        BY <3>1
    <2> QED
      BY <1>5, <2>1, <2>2 DEF Takes
  <1>7. TypeOK'
    <2>1. stats' \in [occupancy : Nat, dropped_events : Nat]
      <3>1. stats.dropped_events \in Nat
        BY DEF TypeOK
      <3>2. stats.dropped_events + (IF full(ring) THEN 1 ELSE 0) \in Nat
        BY <3>1
      <3> QED
        BY <1>4, <1>6, <3>2
    <2> QED
      BY <1>1, <1>2, <1>6, <2>1 DEF TypeOK
  <1>8. Shape'
    BY <1>1, <1>3, <1>6 DEF Shape
  <1>9. Settled' = Settled /\ Ahead = B /\ Ahead' = Settled \cup Gaps' \cup Elems(ring'.buf)
    BY <1>1, <1>3 DEF Settled, Ahead
  <1>10. NumberedNext'
    <2>1. ASSUME NEW x \in (Elems(recv) \cup Held)', has_span(x)
          PROVE  \E y \in Elems(recv) \cup Held : has_span(y) /\ y.pair = x.pair /\ y.open = x.open /\ y.seq = x.seq
      <3>1. CASE x \in Elems(recv) \cup Held
        BY <2>1, <3>1
      <3>2. CASE x \notin Elems(recv) \cup Held
        <4>1. PICK i \in Instruments : x = ring'.dropped[i]
          BY <1>1, <1>2, <1>6, <3>2 DEF Held
        <4>2. \E y \in Held : has_span(y) /\ y.pair = x.pair /\ y.open = x.open /\ y.seq = x.seq
          BY <1>5, <2>1, <4>1 DEF Takes
        <4> QED
          BY <4>2
      <3> QED
        BY <3>1, <3>2
    <2>2. \A e \in Elems(routed)' : has_span(e)
      BY <1>1 DEF NumberedNext
    <2>3. ASSUME NEW x \in (Elems(recv) \cup Held)', has_span(x)
          PROVE  /\ x.pair \in Pairs /\ x.open <= opens'[x.pair]
                 /\ x.open = opens'[x.pair] => x.seq < next'[x.pair]
      <3>1. PICK y \in Elems(recv) \cup Held : has_span(y) /\ y.pair = x.pair /\ y.open = x.open /\ y.seq = x.seq
        BY <2>1, <2>3
      <3>2. /\ y.pair \in Pairs /\ y.open <= opens[y.pair]
            /\ y.open = opens[y.pair] => y.seq < next[y.pair]
        BY <3>1 DEF NumberedNext
      <3> QED
        BY <1>1, <3>1, <3>2
    <2> QED
      BY <2>2, <2>3 DEF NumberedNext
  <1>11. \A e \in Elems(routed) : \A U : Accounts(B \cup {w} \cup U, e) => Accounts(Ahead' \cup U, e)
    BY <1>5, <1>9 DEF Takes
  <1>12. InOrder'
    <2>1. ASSUME NEW j \in DOMAIN ring'.buf
          PROVE  /\ Follows(routed, ring'.buf[j], Settled \cup Gaps' \cup Upto(ring'.buf, j))
                 /\ Heads(routed, ring'.buf[j], Settled \cup Gaps' \cup Upto(ring'.buf, j))
      <3> DEFINE T == Settled \cup Gaps' \cup Upto(ring'.buf, j)
      <3>1. CASE Behind(ring'.buf[j], T)
        BY <3>1 DEF Behind
      <3>2. CASE ~Behind(ring'.buf[j], T)
        <4>1. ring'.buf[j] = w /\ \A e \in Elems(routed) : Accounts(B, e) => Accounts(T, e)
          BY <1>5, <3>2 DEF Takes
        <4>2. Follows(routed, w, B) /\ Heads(routed, w, B)
          BY <1>2, <1>9
        <4> HIDE DEF B, T
        <4>3. Follows(routed, w, T) /\ Heads(routed, w, T)
          BY <4>1, <4>2, Kept
        <4> QED
          BY <4>1, <4>3 DEF T
      <3> QED
        BY <3>1, <3>2
    <2>2. ASSUME NEW j \in DOMAIN t
          PROVE  /\ Follows(routed, t[j], Ahead' \cup Upto(t, j))
                 /\ Heads(routed, t[j], Ahead' \cup Upto(t, j))
      <3> DEFINE S == B \cup {w} \cup Upto(t, j)
                 T == Ahead' \cup Upto(t, j)
      <3>1. Follows(routed, t[j], S) /\ Heads(routed, t[j], S)
        BY <1>2, <1>9
      <3>2. \A e \in Elems(routed) : Accounts(S, e) => Accounts(T, e)
        BY <1>11
      <3> HIDE DEF S, T
      <3>3. Follows(routed, t[j], T) /\ Heads(routed, t[j], T)
        BY <3>1, <3>2, Kept
      <3> QED
        BY <3>3 DEF T
    <2>3. \A e \in Elems(routed) : Accounts(Ahead' \cup Elems(t), e)
      <3>1. Ahead \cup Elems(work) = B \cup {w} \cup Elems(t)
        BY <1>2, <1>9
      <3>2. \A e \in Elems(routed) : Accounts(B \cup {w} \cup Elems(t), e)
        BY <3>1 DEF InOrder
      <3> QED
        BY <1>11, <3>2
    <2>4. \A j \in DOMAIN ring'.buf : Behind(ring.buf[j], Settled \cup Gaps \cup Upto(ring.buf, j))'
      BY <1>1, <1>9, <2>1 DEF Behind
    <2>5. \A j \in DOMAIN work' : Behind(work[j], Ahead \cup Upto(work, j))'
      BY <1>1, <2>2 DEF Behind
    <2>6. /\ \A i \in DOMAIN recv' : Follows(routed', recv'[i], Upto(recv', i) \cup abandoned')
          /\ \A j \in DOMAIN out'.q : Follows(routed', out'.q[j], Settled' \cup Upto(out'.q, j))
      BY <1>1, <1>9 DEF InOrder
    <2>7. \A i \in Instruments : Heads(routed', ring'.dropped[i], Settled')
      BY <1>1, <1>6, <1>9
    <2>8. \A e \in Elems(routed') : Accounts(Ahead' \cup Elems(work'), e)
      BY <1>1, <2>3
    <2> QED
      BY <2>4, <2>5, <2>6, <2>7, <2>8 DEF InOrder
  <1> QED
    BY <1>7, <1>8, <1>10, <1>12


(* Two sequences, one after the other.                                      *)
LEMMA ConcatIs ==
  ASSUME NEW g \in Seq(Events), NEW b \in Seq(Events)
  PROVE  /\ g \o b \in Seq(Events) /\ Elems(g \o b) = Elems(g) \cup Elems(b)
         /\ \A j \in DOMAIN (g \o b) :
              \/ j \in DOMAIN g /\ (g \o b)[j] = g[j]
              \/ \E k \in DOMAIN b : (g \o b)[j] = b[k] /\ Upto(g \o b, j) = Elems(g) \cup Upto(b, k)
  <1> DEFINE c == g \o b
             K == Len(g)
  <1>1. /\ c \in Seq(Events) /\ Len(c) = K + Len(b)
        /\ \A i \in 1 .. (K + Len(b)) : c[i] = IF i <= K THEN g[i] ELSE b[i - K]
    BY ConcatProperties
  <1>2. /\ K \in Nat /\ Len(b) \in Nat /\ DOMAIN g = 1 .. K /\ DOMAIN b = 1 .. Len(b)
        /\ DOMAIN c = 1 .. (K + Len(b))
    BY <1>1
  <1> HIDE DEF c, K
  <1>3. \A k \in DOMAIN g : k \in DOMAIN c /\ c[k] = g[k]
    BY <1>1, <1>2
  <1>4. \A k \in DOMAIN b : K + k \in DOMAIN c /\ c[K + k] = b[k]
    BY <1>1, <1>2
  <1>5. ASSUME NEW j \in DOMAIN c
        PROVE  \/ j \in DOMAIN g /\ c[j] = g[j]
               \/ j - K \in DOMAIN b /\ c[j] = b[j - K]
    <2>1. j \in 1 .. (K + Len(b)) /\ j \in Int
      BY <1>2
    <2>2. c[j] = IF j <= K THEN g[j] ELSE b[j - K]
      BY <1>1, <2>1
    <2>3. CASE j <= K
      <3>1. j \in 1 .. K
        BY <1>2, <2>1, <2>3
      <3> QED
        BY <1>2, <2>2, <2>3, <3>1
    <2>4. CASE ~(j <= K)
      <3>1. j - K \in 1 .. Len(b)
        BY <1>2, <2>1, <2>4
      <3> QED
        BY <1>2, <2>2, <2>4, <3>1
    <2> QED
      BY <2>3, <2>4
  <1>6. Elems(c) = Elems(g) \cup Elems(b)
    BY <1>3, <1>4, <1>5 DEF Elems
  <1>7. ASSUME NEW j \in DOMAIN c, j - K \in DOMAIN b
        PROVE  Upto(c, j) = Elems(g) \cup Upto(b, j - K)
    <2>1. j \in Nat /\ j > K
      BY <1>2, <1>7
    <2>2. \A i \in 1 .. (j - 1) : i \in DOMAIN g \/ i - K \in 1 .. ((j - K) - 1)
      BY <1>2, <2>1
    <2>3. ASSUME NEW i \in 1 .. (j - 1)
          PROVE  /\ i \in DOMAIN g => c[i] = g[i]
                 /\ i - K \in 1 .. ((j - K) - 1) => c[i] = b[i - K]
      <3>1. i \in Int /\ i \in 1 .. (K + Len(b))
        BY <1>2, <2>1
      <3>2. c[i] = IF i <= K THEN g[i] ELSE b[i - K]
        BY <1>1, <3>1
      <3>3. i - K \in 1 .. ((j - K) - 1) => ~(i <= K)
        BY <1>2, <3>1
      <3> QED
        BY <1>2, <3>2, <3>3
    <2>4. \A i \in DOMAIN g : i \in 1 .. (j - 1)
      BY <1>2, <2>1
    <2>5. ASSUME NEW k \in 1 .. ((j - K) - 1)
          PROVE  K + k \in 1 .. (j - 1) /\ c[K + k] = b[k]
      <3>1. k \in Int /\ k >= 1 /\ K + k < j
        BY <1>2, <2>1
      <3>2. K + k \in 1 .. (j - 1)
        BY <1>2, <2>1, <3>1
      <3>3. k \in 1 .. Len(b)
        BY <1>2, <1>7, <2>1, <3>1
      <3> QED
        BY <1>2, <1>4, <3>2, <3>3
    <2> QED
      BY <1>3, <2>2, <2>3, <2>4, <2>5 DEF Upto, Elems
  <1> QED
    BY <1>1, <1>5, <1>6, <1>7 DEF c

(* What a take hands the new stream from the ring: its gaps, then its       *)
(* survivors, each behind what it followed in the ring.                     *)
LEMMA FlushIs ==
  ASSUME SessionInv, NEW o \in GapOrders(ring)
  PROVE  LET f == into_parts(ring, o)
         IN  /\ f \in Seq(Events) /\ Elems(f) = (Gaps \ {NoGap}) \cup Elems(ring.buf)
             /\ \A j \in DOMAIN f : /\ Follows(routed, f[j], Settled \cup Upto(f, j))
                                    /\ Heads(routed, f[j], Settled \cup Upto(f, j))
  <1> USE DEF SessionInv
  <1> DEFINE b == ring.buf
             d == ring.dropped
             gaps == {i \in Instruments : d[i] # NoGap}
             K == Cardinality(gaps)
             g == [n \in DOMAIN o |-> d[o[n]]]
             f == into_parts(ring, o)
  <1>1. b \in Seq(Events) /\ d \in [Instruments -> Events \cup {NoGap}]
    BY DEF TypeOK
  <1>2. K \in Nat
    <2> DEFINE s == [p \in Pairs |-> p[1]]
    <2>1. s \in Surjection(Pairs, Instruments)
      BY DEF Surjection, Instruments
    <2>2. IsFiniteSet(Instruments)
      <3> HIDE DEF s
      <3> QED
        BY <2>1, FS_Surjection, PairsAssumption
    <2>3. gaps \in SUBSET Instruments
      OBVIOUS
    <2> HIDE DEF gaps
    <2>4. IsFiniteSet(gaps)
      BY <2>2, <2>3, FS_Subset
    <2> QED
      BY <2>4, FS_CardinalityType
  <1>3. /\ o \in [1 .. K -> gaps] /\ \A i \in gaps : \E n \in DOMAIN o : o[n] = i
    BY DEF GapOrders
  <1> HIDE DEF K
  <1>4. DOMAIN o = 1 .. K /\ \A n \in 1 .. K : o[n] \in Instruments /\ d[o[n]] # NoGap /\ d[o[n]] \in Events
    BY <1>1, <1>3
  <1>5. g \in [1 .. K -> Events] /\ DOMAIN g = 1 .. K /\ \A n \in 1 .. K : g[n] = d[o[n]]
    BY <1>4
  <1>6. f = g \o b
    BY DEF into_parts
  <1> HIDE DEF g, f
  <1>7. g \in Seq(Events)
    BY <1>2, <1>5, SeqDef
  <1>8. Elems(g) = Gaps \ {NoGap}
    <2>1. \A n \in 1 .. K : g[n] \in Gaps \ {NoGap}
      BY <1>4, <1>5 DEF Gaps
    <2>2. ASSUME NEW x \in Gaps, x # NoGap PROVE \E n \in 1 .. K : g[n] = x
      <3>1. PICK i \in Instruments : x = d[i]
        BY DEF Gaps
      <3>2. i \in gaps
        BY <2>2, <3>1
      <3> HIDE DEF gaps, d
      <3> QED
        BY <1>3, <1>4, <1>5, <3>1, <3>2
    <2> QED
      BY <1>5, <2>1, <2>2 DEF Elems
  <1>9. /\ f \in Seq(Events) /\ Elems(f) = Elems(g) \cup Elems(b)
        /\ \A j \in DOMAIN f :
             \/ j \in DOMAIN g /\ f[j] = g[j]
             \/ \E k \in DOMAIN b : f[j] = b[k] /\ Upto(f, j) = Elems(g) \cup Upto(b, k)
    <2> HIDE DEF b
    <2>1. /\ g \o b \in Seq(Events) /\ Elems(g \o b) = Elems(g) \cup Elems(b)
          /\ \A j \in DOMAIN (g \o b) :
               \/ j \in DOMAIN g /\ (g \o b)[j] = g[j]
               \/ \E k \in DOMAIN b : (g \o b)[j] = b[k] /\ Upto(g \o b, j) = Elems(g) \cup Upto(b, k)
      BY <1>1, <1>7, ConcatIs
    <2> QED
      BY <1>6, <2>1
  <1>10. ASSUME NEW j \in DOMAIN f
         PROVE  /\ Follows(routed, f[j], Settled \cup Upto(f, j))
                /\ Heads(routed, f[j], Settled \cup Upto(f, j))
    <2>1. CASE j \in DOMAIN g /\ f[j] = g[j]
      <3>1. PICK i \in Instruments : f[j] = d[i] /\ d[i] # NoGap
        BY <1>4, <1>5, <2>1
      <3>2. f[j].kind = "gap"
        BY <3>1 DEF Shape
      <3>3. Heads(routed, f[j], Settled)
        BY <3>1 DEF InOrder
      <3>4. Heads(routed, f[j], Settled \cup Upto(f, j))
        BY <3>3, Grows
      <3> QED
        BY <3>2, <3>4 DEF Follows
    <2>2. ASSUME NEW k \in DOMAIN b, f[j] = b[k], Upto(f, j) = Elems(g) \cup Upto(b, k)
          PROVE  /\ Follows(routed, f[j], Settled \cup Upto(f, j))
                 /\ Heads(routed, f[j], Settled \cup Upto(f, j))
      <3> DEFINE S == Settled \cup Gaps \cup Upto(b, k)
                 T == Settled \cup Upto(f, j)
      <3>1. Follows(routed, f[j], S) /\ Heads(routed, f[j], S)
        BY <2>2 DEF InOrder, Behind
      <3>2. \A e \in Elems(routed) : ~Answers(NoGap, e)
        BY NoGapIs DEF NumberedNext
      <3>3. \A x \in S : x = NoGap \/ x \in T
        BY <1>8, <2>2
      <3> HIDE DEF S, T
      <3>4. \A e \in Elems(routed) : Accounts(S, e) => Accounts(T, e)
        BY <3>2, <3>3 DEF Accounts
      <3>5. Follows(routed, f[j], T) /\ Heads(routed, f[j], T)
        BY <3>1, <3>4, Kept
      <3> QED
        BY <3>5 DEF T
    <2> QED
      BY <1>9, <2>1, <2>2
  <1> QED
    BY <1>8, <1>9, <1>10 DEF f


LEMMA TakeStep ==
  ASSUME SessionInv, NEW held \in BOOLEAN, take_events(held)
  PROVE  SessionInv'
  <1> USE DEF SessionInv
  <1>1. /\ UNCHANGED <<phase, close_asked, entries, recv, abandoned, seen, told>>
        /\ UNCHANGED <<opens, next, flips, heard, routed, left>>
        /\ work = <<>> /\ (sink = "detached" \/ ~out.open) /\ takes' = takes + 1
        /\ sink' = "attached" /\ out' = [open |-> held, q |-> <<>>]
        /\ stats' = [stats EXCEPT !.occupancy = 0] /\ ring' = EmptyRing
    BY DEF take_events, source, Idle
  <1>2. out.q = <<>> /\ Elems(out.q) = {} /\ Elems(work) = {}
    BY <1>1 DEF Shape, Elems
  <1>3. /\ work' \in Seq(Events) /\ Elems(work') = (Gaps \ {NoGap}) \cup Elems(ring.buf)
        /\ \A j \in DOMAIN work' : /\ Follows(routed, work'[j], Settled \cup Upto(work', j))
                                   /\ Heads(routed, work'[j], Settled \cup Upto(work', j))
    <2>1. CASE sink = "detached"
      <3>1. PICK o \in GapOrders(ring) : work' = into_parts(ring, o)
        BY <2>1 DEF take_events
      <3> DEFINE f == into_parts(ring, o)
      <3>2. /\ f \in Seq(Events) /\ Elems(f) = (Gaps \ {NoGap}) \cup Elems(ring.buf)
            /\ \A j \in DOMAIN f : /\ Follows(routed, f[j], Settled \cup Upto(f, j))
                                   /\ Heads(routed, f[j], Settled \cup Upto(f, j))
        BY FlushIs
      <3> HIDE DEF f
      <3>3. work' = f
        BY <3>1 DEF f
      <3> QED
        BY <3>2, <3>3
    <2>2. CASE sink # "detached"
      <3>1. work' = <<>>
        BY <1>1, <2>2 DEF take_events
      <3>2. ring = EmptyRing
        BY <2>2 DEF Shape, TypeOK
      <3>3. Elems(ring.buf) = {} /\ Gaps \ {NoGap} = {}
        BY <3>2, EmptyRingIs DEF Elems, Gaps
      <3> QED
        BY <3>1, <3>3 DEF Elems
    <2> QED
      BY <2>1, <2>2
  <1>4. /\ out' \in [open : BOOLEAN, q : Seq(Events)] /\ out'.q = <<>> /\ Elems(out'.q) = {} /\ Len(out'.q) = 0
        /\ ring'.buf = <<>> /\ Elems(ring'.buf) = {} /\ Len(ring'.buf) = 0
        /\ \A i \in Instruments : ring'.dropped[i] = NoGap
    BY <1>1, EmptyRingIs DEF Elems
  <1>5. TypeOK'
    <2>1. stats' \in [occupancy : Nat, dropped_events : Nat] /\ takes' \in Nat
      <3>1. stats \in [occupancy : Nat, dropped_events : Nat] /\ takes \in Nat
        BY DEF TypeOK
      <3> QED
        BY <1>1, <3>1
    <2>2. OutCap \in Nat /\ RingCap \in Nat /\ 0 <= OutCap /\ 0 <= RingCap
      BY BoundAssumption
    <2> QED
      BY <1>1, <1>3, <1>4, <2>1, <2>2, EmptyRingIs DEF TypeOK
  <1>6. Shape'
    BY <1>1, <1>4 DEF Shape
  <1>7. Settled' = Settled /\ Settled \subseteq Ahead'
    BY <1>1 DEF Settled, Ahead
  <1>8. NumberedNext'
    <2>1. ASSUME NEW x \in (Elems(recv) \cup Held)', has_span(x)
          PROVE  x \in Elems(recv) \cup Held
      <3>1. x # NoGap
        BY <2>1, NoGapIs
      <3> QED
        BY <1>1, <1>3, <1>4, <3>1 DEF Held, Gaps
    <2>2. \A e \in Elems(routed)' : has_span(e)
      BY <1>1 DEF NumberedNext
    <2> QED
      BY <1>1, <2>1, <2>2 DEF NumberedNext
  <1>9. InOrder'
    <2>1. ASSUME NEW j \in DOMAIN work'
          PROVE  /\ Follows(routed, work'[j], Ahead' \cup Upto(work', j))
                 /\ Heads(routed, work'[j], Ahead' \cup Upto(work', j))
      <3> DEFINE S == Settled \cup Upto(work', j)
                 T == Ahead' \cup Upto(work', j)
      <3>1. Follows(routed, work'[j], S) /\ Heads(routed, work'[j], S)
        BY <1>3
      <3>2. S \subseteq T
        BY <1>7
      <3> HIDE DEF S, T
      <3>3. Follows(routed, work'[j], T) /\ Heads(routed, work'[j], T)
        BY <3>1, <3>2, Grows
      <3> QED
        BY <3>3 DEF T
    <2>2. ASSUME NEW e \in Elems(routed)
          PROVE  Accounts(Ahead' \cup Elems(work'), e)
      <3>1. PICK x \in Ahead \cup Elems(work) : Answers(x, e)
        BY DEF InOrder, Accounts
      <3>2. x # NoGap
        BY <3>1, NoGapIs DEF NumberedNext
      <3>3. x \in Settled \cup Elems(work')
        BY <1>2, <1>3, <3>2 DEF Ahead
      <3> QED
        BY <1>7, <3>1, <3>3 DEF Accounts
    <2>3. \A i \in Instruments : Heads(routed', ring'.dropped[i], Settled')
      BY <1>4, NoGapIs DEF Heads
    <2>4. \A j \in DOMAIN work' : Behind(work[j], Ahead \cup Upto(work, j))'
      BY <1>1, <2>1 DEF Behind
    <2>5. \A j \in DOMAIN ring'.buf : Behind(ring.buf[j], Settled \cup Gaps \cup Upto(ring.buf, j))'
      BY <1>4
    <2>6. /\ \A i \in DOMAIN recv' : Follows(routed', recv'[i], Upto(recv', i) \cup abandoned')
          /\ \A j \in DOMAIN out'.q : Follows(routed', out'.q[j], Settled' \cup Upto(out'.q, j))
      BY <1>1, <1>4 DEF InOrder
    <2>7. \A e \in Elems(routed') : Accounts(Ahead' \cup Elems(work'), e)
      BY <1>1, <2>2
    <2> QED
      BY <2>3, <2>4, <2>5, <2>6, <2>7 DEF InOrder
  <1> QED
    BY <1>5, <1>6, <1>8, <1>9

-----------------------------------------------------------------------------
LEMMA SessionInit ==
  ASSUME Init
  PROVE  SessionInv
  <1>1. /\ ring = EmptyRing /\ Elems(ring.buf) = {} /\ ring.buf = <<>> /\ Len(ring.buf) = 0
        /\ \A i \in Instruments : ring.dropped[i] = NoGap
    BY EmptyRingIs DEF Init, Elems
  <1>2. /\ Elems(routed) = {} /\ Elems(recv) = {} /\ Elems(out.q) = {} /\ Elems(work) = {}
        /\ out.q = <<>> /\ work = <<>> /\ recv = <<>> /\ Len(out.q) = 0
    BY DEF Init, Elems
  <1>3. TypeOK
    <2>1. 0 <= OutCap /\ 0 <= RingCap
      BY BoundAssumption
    <2>2. out \in [open : BOOLEAN, q : Seq(Events)] /\ stats \in [occupancy : Nat, dropped_events : Nat]
      BY DEF Init
    <2>3. opens \in [Pairs -> Nat] /\ next \in [Pairs -> Nat] /\ heard \in [Pairs -> Nat]
      BY DEF Init
    <2>4. /\ work \in Seq(Events) /\ recv \in Seq(Events) /\ routed \in Seq(Events)
          /\ told \in Seq({"connected", "disconnected"})
      BY DEF Init
    <2> QED
      BY <1>1, <1>2, <2>1, <2>2, <2>3, <2>4, EmptyRingIs DEF Init, TypeOK
  <1>4. Shape
    BY <1>1 DEF Init, Shape
  <1>5. NumberedNext
    <2>1. ASSUME NEW x \in Elems(recv) \cup Held PROVE ~has_span(x)
      BY <1>1, <1>2, NoGapIs DEF Held
    <2> QED
      BY <1>2, <2>1 DEF NumberedNext
  <1>6. InOrder
    BY <1>1, <1>2, NoGapIs DEF InOrder, Heads
  <1> QED
    BY <1>3, <1>4, <1>5, <1>6 DEF SessionInv

LEMMA SessionStep ==
  ASSUME SessionInv, [Next]_vars
  PROVE  SessionInv'
  <1>1. CASE deliver
    BY <1>1, SendStep, BufferStep DEF deliver
  <1>2. ASSUME NEW p \in Pairs, NEW t \in Times, RouteData(p, t)
        PROVE  SessionInv'
    <2> DEFINE ev == Event("data", p, opens[p], next[p], t, t + 1)
    <2>1. opens[p] \in Nat /\ next[p] \in Nat /\ t \in Int /\ t + 1 \in Int
      BY BoundAssumption DEF SessionInv, TypeOK
    <2>2. /\ ev \in Events /\ has_span(ev) /\ ev.pair = p /\ ev.open = opens[p] /\ ev.seq = next[p]
      BY <2>1 DEF Event, Events, has_span
    <2>3. RouteEvent(p, ev)
      BY <1>2 DEF RouteData
    <2> HIDE DEF ev
    <2> QED
      BY <2>2, <2>3, RouteStep
  <1>3. ASSUME NEW p \in Pairs, NEW f \in Times, NEW t \in Times, RouteGap(p, f, t + 1)
        PROVE  SessionInv'
    <2> DEFINE ev == Event("gap", p, opens[p], next[p], f, t + 1)
    <2>1. opens[p] \in Nat /\ next[p] \in Nat /\ f \in Int /\ t + 1 \in Int
      BY BoundAssumption DEF SessionInv, TypeOK
    <2>2. /\ ev \in Events /\ has_span(ev) /\ ev.pair = p /\ ev.open = opens[p] /\ ev.seq = next[p]
      BY <2>1 DEF Event, Events, has_span
    <2>3. RouteEvent(p, ev)
      BY <1>3 DEF RouteGap
    <2> HIDE DEF ev
    <2> QED
      BY <2>2, <2>3, RouteStep
  <1>4. ASSUME NEW p \in Pairs, RouteConn(p) \/ handle_substream_end(p) \/ subscribe(p) \/ unsubscribe(p)
        PROVE  SessionInv'
    BY <1>4, CommandStep DEF handle_substream_end, unsubscribe
  <1>5. CASE ProviderFlips \/ AskClose \/ emit_session_closing
    BY <1>5, QuietStep
  <1>6. ASSUME NEW held \in BOOLEAN, take_events(held)
        PROVE  SessionInv'
    BY <1>6, TakeStep
  <1>7. CASE Recv \/ DropStream
    BY <1>7, RecvStep, DropStep
  <1>8. CASE UNCHANGED vars
    <2>1. /\ UNCHANGED <<recv, out, ring, abandoned, routed, sink, stats, work, opens, next>>
          /\ UNCHANGED <<phase, close_asked, entries, seen, flips, heard, takes, told, left>>
      BY <1>8 DEF vars, delivery, source
    <2>2. TypeOK'
      BY <2>1 DEF SessionInv, TypeOK
    <2>3. Shape' /\ NumberedNext' /\ InOrder'
      BY <2>1, QuietKeeps
    <2> QED
      BY <2>2, <2>3 DEF SessionInv
  <1> QED
    BY <1>1, <1>2, <1>3, <1>4, <1>5, <1>6, <1>7, <1>8 DEF Next, Substream


(***************************************************************************)
(* The session's inductive invariant: every event on the way to the        *)
(* consumer has what it follows ahead of it (client.rs, push, note_drop,   *)
(* flush_ring, deliver).                                                   *)
(***************************************************************************)
THEOREM SessionCorrect == Spec => []SessionInv
  <1> QED
    BY SessionInit, SessionStep, PTL DEF Spec

(***************************************************************************)
(* Loss is in-band and in order: no data event reaches the consumer over a *)
(* hole it was not told of, or did not make by dropping its stream.        *)
(***************************************************************************)
THEOREM NoSilentHoleCorrect == Spec => []NoSilentHole
  <1>1. ASSUME SessionInv PROVE NoSilentHole
    BY <1>1 DEF SessionInv, InOrder, NoSilentHole, HolelessBut, Follows, Accounts, Upto
  <1> QED
    BY <1>1, SessionCorrect, PTL

(***************************************************************************)
(* No event is lost without account, wherever it or a gap that covers it   *)
(* now is (client.rs, deliver, push, note_drop, flush_ring).               *)
(***************************************************************************)
THEOREM LossAccountedCorrect == Spec => []LossAccounted
  <1>1. ASSUME SessionInv PROVE LossAccounted
    BY <1>1 DEF SessionInv, InOrder, LossAccounted, Accounts, Ahead, Settled, Gaps, Held
  <1> QED
    BY <1>1, SessionCorrect, PTL

-----------------------------------------------------------------------------
(* The order of the consumer's stream.                                      *)

(* A chain grows by an event that comes after all of it, shrinks by its      *)
(* first event, and two chains in a row are one.                             *)
LEMMA ChainAppend ==
  ASSUME NEW S, NEW s \in Seq(Events), NEW x \in Events, Chained(S, s),
         \A y \in S \cup Elems(s) : Before(y, x)
  PROVE  Chained(S, Append(s, x))
  <1> DEFINE a == Append(s, x)
  <1>1. /\ Len(s) \in Nat /\ DOMAIN s = 1 .. Len(s) /\ DOMAIN a = 1 .. (Len(s) + 1)
        /\ Elems(a) = Elems(s) \cup {x} /\ a[Len(s) + 1] = x /\ \A j \in DOMAIN s : a[j] = s[j]
    BY AppendIs
  <1> HIDE DEF a
  <1>2. ASSUME NEW i \in DOMAIN a, NEW k \in DOMAIN a, i < k
        PROVE  Before(a[i], a[k])
    <2>1. i \in DOMAIN s /\ (k \in DOMAIN s \/ k = Len(s) + 1)
      BY <1>1, <1>2
    <2>2. s[i] \in Elems(s)
      BY <2>1 DEF Elems
    <2> QED
      BY <1>1, <1>2, <2>1, <2>2 DEF Chained, Sorted
  <1>3. \A z \in S, y \in Elems(a) : Before(z, y)
    BY <1>1 DEF Chained
  <1> QED
    BY <1>2, <1>3 DEF Chained, Sorted, a

LEMMA ChainTail ==
  ASSUME NEW S, NEW s \in Seq(Events), s # <<>>, Chained(S, s)
  PROVE  Chained(S \cup {Head(s)}, Tail(s)) /\ \A y \in S : Before(y, Head(s))
  <1> DEFINE t == Tail(s)
  <1>1. /\ t \in Seq(Events) /\ 1 \in DOMAIN s /\ s[1] = Head(s) /\ Elems(s) = {Head(s)} \cup Elems(t)
        /\ \A j \in DOMAIN t : j + 1 \in DOMAIN s /\ t[j] = s[j + 1]
    BY TailIs
  <1>2. DOMAIN t \subseteq Nat \ {0}
    <2> HIDE DEF t
    <2> QED
      BY <1>1
  <1> HIDE DEF t
  <1>3. ASSUME NEW i \in DOMAIN t, NEW k \in DOMAIN t, i < k
        PROVE  Before(t[i], t[k])
    <2>1. i + 1 < k + 1
      BY <1>2, <1>3
    <2> QED
      BY <1>1, <2>1 DEF Chained, Sorted
  <1>4. ASSUME NEW j \in DOMAIN t
        PROVE  Before(Head(s), t[j])
    <2>1. 1 < j + 1
      BY <1>2
    <2> QED
      BY <1>1, <2>1 DEF Chained, Sorted
  <1>5. \A y \in Elems(t) : Before(Head(s), y)
    BY <1>4 DEF Elems
  <1> QED
    BY <1>1, <1>3, <1>5 DEF Chained, Sorted, t

LEMMA ChainConcat ==
  ASSUME NEW S, NEW g \in Seq(Events), NEW b \in Seq(Events), Chained(S, g), Chained(S \cup Elems(g), b)
  PROVE  Chained(S, g \o b)
  <1> DEFINE c == g \o b
  <1>1. /\ Len(g) \in Nat /\ Len(b) \in Nat /\ DOMAIN g = 1 .. Len(g) /\ DOMAIN b = 1 .. Len(b)
        /\ c \in Seq(Events) /\ DOMAIN c = 1 .. (Len(g) + Len(b))
        /\ \A j \in 1 .. (Len(g) + Len(b)) : c[j] = IF j <= Len(g) THEN g[j] ELSE b[j - Len(g)]
    OBVIOUS
  <1>2. Elems(c) = Elems(g) \cup Elems(b)
    BY ConcatIs
  <1> HIDE DEF c
  <1>3. ASSUME NEW i \in DOMAIN c, NEW k \in DOMAIN c, i < k
        PROVE  Before(c[i], c[k])
    <2>1. CASE k <= Len(g)
      <3>1. i \in DOMAIN g /\ k \in DOMAIN g /\ c[i] = g[i] /\ c[k] = g[k]
        BY <1>1, <1>3, <2>1
      <3> QED
        BY <1>3, <3>1 DEF Chained, Sorted
    <2>2. CASE i <= Len(g) /\ ~(k <= Len(g))
      <3>1. i \in DOMAIN g /\ k - Len(g) \in DOMAIN b /\ c[i] = g[i] /\ c[k] = b[k - Len(g)]
        BY <1>1, <1>3, <2>2
      <3>2. c[i] \in Elems(g) /\ c[k] \in Elems(b)
        BY <3>1 DEF Elems
      <3> QED
        BY <3>2 DEF Chained
    <2>3. CASE ~(i <= Len(g))
      <3>1. /\ i - Len(g) \in DOMAIN b /\ k - Len(g) \in DOMAIN b /\ i - Len(g) < k - Len(g)
            /\ c[i] = b[i - Len(g)] /\ c[k] = b[k - Len(g)]
        BY <1>1, <1>3, <2>3
      <3> QED
        BY <3>1 DEF Chained, Sorted
    <2> QED
      BY <2>1, <2>2, <2>3
  <1>4. \A z \in S, y \in Elems(c) : Before(z, y)
    BY <1>2 DEF Chained
  <1> QED
    BY <1>3, <1>4 DEF Chained, Sorted, c

(* What has no span has no place in the order, and nothing is before or      *)
(* after an empty stream.                                                    *)
LEMMA ChainControl ==
  ASSUME NEW S, NEW kind \in {"sub", "conn", "closing"}
  PROVE  Chained(S, <<Control(kind)>>) /\ Chained(S, <<>>)
  <1> DEFINE c == Control(kind)
  <1>1. ~has_span(c)
    BY ControlIs
  <1> HIDE DEF c
  <1>2. DOMAIN <<c>> = {1} /\ Elems(<<c>>) = {c} /\ Elems(<<>>) = {}
    BY DEF Elems
  <1> QED
    BY <1>1, <1>2 DEF Chained, Sorted, Before, c

LEMMA ChainGrows ==
  ASSUME NEW S, NEW T, NEW s, Chained(T, s), \A x \in S : has_span(x) => x \in T
  PROVE  Chained(S, s)
  BY DEF Chained, Before

(* Steps that move no event, and a newly drawn event, which has the largest  *)
(* number of its subscription.                                               *)
LEMMA SortedQuiet ==
  ASSUME SortedInv, UNCHANGED <<recv, out, ring>>,
         work' = work \/ \E kind \in {"sub", "conn", "closing"} : work' = <<Control(kind)>>
  PROVE  SortedInv'
  <1>1. Gaps' = Gaps
    BY DEF Gaps
  <1>2. Chained(Elems(recv) \cup Elems(out.q) \cup Gaps \cup Elems(ring.buf), work')
    <2>1. ASSUME NEW kind \in {"sub", "conn", "closing"}, work' = <<Control(kind)>>
          PROVE  Chained(Elems(recv) \cup Elems(out.q) \cup Gaps \cup Elems(ring.buf), work')
      BY <2>1, ChainControl
    <2> QED
      BY <2>1 DEF SortedInv
  <1> QED
    BY <1>1, <1>2 DEF SortedInv

LEMMA SortedRoute ==
  ASSUME SessionInv, SortedInv, NEW p \in Pairs, NEW ev \in Events,
         ev.pair = p, ev.open = opens[p], ev.seq = next[p], RouteEvent(p, ev)
  PROVE  SortedInv'
  <1>1. UNCHANGED <<recv, out, ring>> /\ work' = <<ev>> /\ Gaps' = Gaps
    BY DEF RouteEvent, delivery, Gaps
  <1> DEFINE S == Elems(recv) \cup Elems(out.q) \cup Gaps \cup Elems(ring.buf)
  <1>2. ASSUME NEW x \in S
        PROVE  Before(x, ev)
    <2>1. x \in Elems(recv) \cup Held
      BY DEF Held, Gaps
    <2> QED
      BY <2>1 DEF SessionInv, NumberedNext, Before
  <1>3. Chained(S, <<ev>>)
    <2>1. DOMAIN <<ev>> = {1} /\ Elems(<<ev>>) = {ev}
      BY DEF Elems
    <2> HIDE DEF S
    <2> QED
      BY <1>2, <2>1 DEF Chained, Sorted
  <1> QED
    BY <1>1, <1>3 DEF SortedInv

(* The consumer takes the head of its stream, or drops the stream.           *)
LEMMA SortedRecv ==
  ASSUME SessionInv, SortedInv, Recv
  PROVE  SortedInv'
  <1> DEFINE x == Head(out.q)
             t == Tail(out.q)
  <1>1. /\ UNCHANGED <<work, ring>> /\ out.q # <<>> /\ recv' = Append(recv, x) /\ out' = [out EXCEPT !.q = t]
    BY DEF Recv
  <1>2. recv \in Seq(Events) /\ out \in [open : BOOLEAN, q : Seq(Events)]
    BY DEF SessionInv, TypeOK
  <1>3. /\ x \in Events /\ t \in Seq(Events) /\ Elems(out.q) = {x} \cup Elems(t)
        /\ Chained(Elems(recv) \cup {x}, t) /\ \A y \in Elems(recv) : Before(y, x)
    BY <1>1, <1>2, TailIs, ChainTail DEF SortedInv
  <1>4. Chained({}, recv)
    BY DEF SortedInv, Chained
  <1>5. Sorted(recv') /\ Elems(recv') = Elems(recv) \cup {x}
    <2> HIDE DEF x
    <2>1. Chained({}, Append(recv, x))
      BY <1>2, <1>3, <1>4, ChainAppend
    <2>2. Elems(Append(recv, x)) = Elems(recv) \cup {x}
      BY <1>2, <1>3, AppendIs
    <2> QED
      BY <1>1, <2>1, <2>2 DEF Chained
  <1> HIDE DEF x, t
  <1>6. out'.q = t
    BY <1>1, <1>2
  <1>7. Elems(recv') \cup Elems(out'.q) = Elems(recv) \cup Elems(out.q) /\ Gaps' = Gaps /\ ring' = ring /\ work' = work
    BY <1>1, <1>3, <1>5, <1>6 DEF Gaps
  <1> QED
    BY <1>3, <1>5, <1>6, <1>7 DEF SortedInv

LEMMA SortedDrop ==
  ASSUME SortedInv, DropStream
  PROVE  SortedInv'
  <1>1. UNCHANGED <<recv, work, ring>> /\ out'.q = <<>>
    BY DEF DropStream
  <1>2. Elems(out'.q) = {} /\ Gaps' = Gaps /\ Chained(Elems(recv), out'.q)
    BY <1>1 DEF Elems, Gaps, Chained, Sorted
  <1> QED
    BY <1>1, <1>2 DEF SortedInv, Chained

(* The head of the work goes to the stream, whose ring is empty.             *)
LEMMA SortedSend ==
  ASSUME SessionInv, SortedInv, deliver, Send
  PROVE  SortedInv'
  <1> DEFINE w == Head(work)
             t == Tail(work)
             R == Elems(recv)
             Q == Elems(out.q)
             B == Gaps \cup Elems(ring.buf)
  <1>1. UNCHANGED <<recv, ring>> /\ work # <<>> /\ work' = t /\ out' = [out EXCEPT !.q = Append(out.q, w)]
    BY DEF deliver, Send
  <1>2. work \in Seq(Events) /\ out \in [open : BOOLEAN, q : Seq(Events)]
    BY DEF SessionInv, TypeOK
  <1>3. w \in Events /\ Elems(work) = {w} \cup Elems(t)
    BY <1>1, <1>2, TailIs
  <1>4. Chained(R \cup Q \cup B \cup {w}, t) /\ \A y \in R \cup Q \cup B : Before(y, w)
    <2>1. R \cup Q \cup B = R \cup Q \cup Gaps \cup Elems(ring.buf)
      OBVIOUS
    <2>2. Chained(R \cup Q \cup B, work)
      BY <2>1 DEF SortedInv
    <2> HIDE DEF R, Q, B
    <2> QED
      BY <1>1, <1>2, <2>2, ChainTail
  <1>5. ring = EmptyRing
    BY DEF Send, SessionInv, Shape
  <1>6. \A g \in Gaps : ~has_span(g)
    BY <1>5, EmptyRingIs, NoGapIs DEF Gaps
  <1>7. ring.buf = <<>> /\ Elems(ring.buf) = {}
    BY <1>5, EmptyRingIs DEF Elems
  <1> HIDE DEF w, t
  <1>8. out'.q = Append(out.q, w) /\ Elems(out'.q) = Q \cup {w} /\ Gaps' = Gaps
    BY <1>1, <1>2, <1>3, AppendIs DEF Gaps
  <1>9. Chained(R, out'.q)
    BY <1>2, <1>3, <1>4, <1>8, ChainAppend DEF SortedInv
  <1>10. \A S : Chained(S, ring'.buf)
    BY <1>1, <1>7 DEF Chained, Sorted, Elems
  <1>11. Chained(R \cup (Q \cup {w}) \cup Gaps \cup Elems(ring.buf), t)
    <2> R \cup (Q \cup {w}) \cup Gaps \cup Elems(ring.buf) = R \cup Q \cup B \cup {w}
      OBVIOUS
    <2> QED
      BY <1>4
  <1>12. \A x, g : g \in Gaps => Before(x, g)
    BY <1>6 DEF Before
  <1> QED
    BY <1>1, <1>8, <1>9, <1>10, <1>11, <1>12 DEF SortedInv

(* An eviction leaves gaps with the numbers of old gaps or of the evicted    *)
(* event, so they stand where those stood.                                   *)
LEMMA GapStands ==
  ASSUME SessionInv, NEW h \in Elems(ring.buf), NEW i \in Instruments,
         has_span(note_drop(ring.dropped, h)[i])
  PROVE  \E y \in Gaps \cup {h} :
           /\ has_span(y) /\ y.pair = note_drop(ring.dropped, h)[i].pair
           /\ y.open = note_drop(ring.dropped, h)[i].open /\ y.seq = note_drop(ring.dropped, h)[i].seq
  <1> DEFINE d == ring.dropped
             n == note_drop(d, h)
  <1>1. d \in [Instruments -> Events \cup {NoGap}] /\ \A k \in Instruments : d[k] \in Gaps
    BY DEF SessionInv, TypeOK, Gaps
  <1>2. \A k \in Instruments : d[k] # NoGap => d[k].kind = "gap" /\ d[k].pair[1] = k
    BY DEF SessionInv, Shape
  <1>3. has_span(h) => h \in Events /\ h.pair \in Pairs
    <2>1. h \in Elems(recv) \cup Held
      BY DEF Held
    <2> QED
      BY <2>1, HeldIs DEF SessionInv, NumberedNext
  <1>4. CASE has_span(h)
    <2> DEFINE j == h.pair[1]
    <2> HIDE DEF d
    <2>1. /\ j \in Instruments /\ \A k \in Instruments : k # j => n[k] = d[k]
          /\ d[j] = NoGap => n[j].pair = h.pair /\ n[j].open = h.open /\ n[j].seq = h.seq
          /\ d[j] # NoGap => n[j].pair = d[j].pair /\ n[j].open = d[j].open /\ n[j].seq = d[j].seq
      BY <1>1, <1>2, <1>3, <1>4, NoteDropIs
    <2> HIDE DEF n, j
    <2>2. d[j] # NoGap => has_span(d[j])
      BY <1>2, <2>1 DEF has_span
    <2>3. has_span(n[i])
      BY DEF n, d
    <2>4. \E y \in Gaps \cup {h} : has_span(y) /\ y.pair = n[i].pair /\ y.open = n[i].open /\ y.seq = n[i].seq
      <3>1. CASE i # j
        BY <1>1, <2>1, <2>3, <3>1
      <3>2. CASE i = j /\ d[j] = NoGap
        BY <1>4, <2>1, <3>2
      <3>3. CASE i = j /\ d[j] # NoGap
        BY <1>1, <2>1, <2>2, <3>3
      <3> QED
        BY <3>1, <3>2, <3>3
    <2> QED
      BY <2>4 DEF n, d
  <1>5. CASE ~has_span(h)
    <2>1. n = d
      BY <1>5 DEF note_drop
    <2> QED
      BY <1>1, <2>1
  <1> QED
    BY <1>4, <1>5

(* The head of the work goes to the ring.                                    *)
LEMMA SortedBuffer ==
  ASSUME SessionInv, SortedInv, deliver, Buffer
  PROVE  SortedInv'
  <1> DEFINE w == Head(work)
             t == Tail(work)
             A == Elems(recv) \cup Elems(out.q)
             b == ring.buf
             d == ring.dropped
  <1>1. UNCHANGED <<recv, out>> /\ work # <<>> /\ work' = t
    BY DEF deliver, Buffer
  <1>2. /\ work \in Seq(Events) /\ b \in Seq(Events) /\ d \in [Instruments -> Events \cup {NoGap}]
        /\ ring \in [buf : Seq(Events), dropped : [Instruments -> Events \cup {NoGap}]]
    BY DEF SessionInv, TypeOK
  <1>3. w \in Events
    BY <1>1, <1>2, TailIs
  <1>4. Chained(A \cup Gaps \cup Elems(b) \cup {w}, t) /\ \A y \in A \cup Gaps \cup Elems(b) : Before(y, w)
    <2>1. Chained(A \cup Gaps \cup Elems(b), work)
      BY DEF SortedInv
    <2> HIDE DEF A, b
    <2> QED
      BY <1>1, <1>2, <2>1, ChainTail
  <1>5. ring' = push(ring, w)
    <2> DEFINE r == IF sink = "attached" THEN EmptyRing ELSE ring
    <2>1. r = ring
      BY DEF SessionInv, Shape
    <2>2. ring' = push(r, w)
      BY DEF Buffer
    <2> HIDE DEF r, w
    <2> QED
      BY <2>1, <2>2
  <1>6. Chained(A \cup Gaps, b) /\ \A x \in A, g \in Gaps : Before(x, g)
    BY DEF SortedInv
  <1> HIDE DEF w, t
  <1>7. CASE ~full(ring)
    <2>1. ring'.buf = Append(b, w) /\ ring'.dropped = d
      BY <1>2, <1>5, <1>7 DEF push
    <2> HIDE DEF b, A
    <2>2. Elems(ring'.buf) = Elems(b) \cup {w} /\ Chained(A \cup Gaps, ring'.buf)
      BY <1>2, <1>3, <1>4, <1>6, <2>1, AppendIs, ChainAppend
    <2>3. Gaps' = Gaps
      BY <2>1 DEF Gaps
    <2>4. A \cup Gaps \cup (Elems(b) \cup {w}) = A \cup Gaps \cup Elems(b) \cup {w}
      OBVIOUS
    <2>5. A' = A
      BY <1>1 DEF A
    <2> QED
      BY <1>1, <1>4, <1>6, <2>2, <2>3, <2>4, <2>5 DEF SortedInv, A
  <1>8. CASE full(ring)
    <2> DEFINE h == Head(b)
               u == Tail(b)
               n == note_drop(d, h)
    <2>1. b # <<>>
      BY <1>2, <1>8, BoundAssumption DEF full
    <2>2. ring'.buf = Append(u, w) /\ ring'.dropped = n
      BY <1>5, <1>8 DEF push
    <2> HIDE DEF b, A, d
    <2>3. h \in Events /\ u \in Seq(Events) /\ Elems(b) = {h} \cup Elems(u)
      BY <1>2, <2>1, TailIs
    <2>4. Chained(A \cup Gaps \cup {h}, u) /\ \A y \in A \cup Gaps : Before(y, h)
      BY <1>2, <1>6, <2>1, ChainTail
    <2> HIDE DEF h, u
    <2>5. ASSUME NEW g \in Gaps', has_span(g)
          PROVE  \E y \in Gaps \cup {h} : has_span(y) /\ y.pair = g.pair /\ y.open = g.open /\ y.seq = g.seq
      <3>1. PICK i \in Instruments : g = n[i]
        BY <2>2, <2>5 DEF Gaps
      <3>2. h \in Elems(ring.buf)
        BY <2>3 DEF b
      <3>3. has_span(note_drop(ring.dropped, h)[i])
        BY <2>5, <3>1 DEF d
      <3> QED
        BY <3>1, <3>2, <3>3, GapStands DEF d
    <2> HIDE DEF n
    <2>6. \A x \in A, g \in Gaps' : Before(x, g)
      BY <1>6, <2>4, <2>5 DEF Before
    <2>7. ASSUME NEW z, \A y \in Gaps \cup {h} : Before(y, z)
          PROVE  \A g \in Gaps' : Before(g, z)
      BY <2>5, <2>7 DEF Before
    <2>8. Chained(A \cup Gaps', u)
      BY <2>4, <2>7 DEF Chained
    <2>9. \A y \in A \cup Gaps' \cup Elems(u) : Before(y, w)
      BY <1>4, <2>3, <2>7
    <2>10. Chained(A \cup Gaps', ring'.buf) /\ Elems(ring'.buf) = Elems(u) \cup {w}
      BY <1>3, <2>2, <2>3, <2>8, <2>9, AppendIs, ChainAppend
    <2>11. Chained(A \cup Gaps' \cup Elems(ring'.buf), t)
      BY <1>4, <2>3, <2>7, <2>10 DEF Chained
    <2>12. A' = A
      BY <1>1 DEF A
    <2> QED
      BY <1>1, <2>6, <2>10, <2>11, <2>12, SortedInv DEF SortedInv, A
  <1> QED
    BY <1>7, <1>8

(* A flush: the gaps, of which no two are of one instrument, then the ring.  *)
LEMMA SortedFlush ==
  ASSUME SessionInv, SortedInv, NEW o \in GapOrders(ring)
  PROVE  Chained(Elems(recv), into_parts(ring, o))
  <1> DEFINE b == ring.buf
             d == ring.dropped
             gaps == {i \in Instruments : d[i] # NoGap}
             K == Cardinality(gaps)
             g == [n \in DOMAIN o |-> d[o[n]]]
  <1>1. /\ b \in Seq(Events) /\ d \in [Instruments -> Events \cup {NoGap}]
        /\ \A i \in Instruments : d[i] \in Gaps /\ (d[i] # NoGap => d[i].pair[1] = i)
    BY DEF SessionInv, TypeOK, Shape, Gaps
  <1>2. IsFiniteSet(gaps) /\ K \in Nat
    <2> DEFINE s == [p \in Pairs |-> p[1]]
    <2>1. s \in Surjection(Pairs, Instruments)
      BY DEF Surjection, Instruments
    <2>2. IsFiniteSet(Instruments)
      <3> HIDE DEF s
      <3> QED
        BY <2>1, FS_Surjection, PairsAssumption
    <2>3. gaps \in SUBSET Instruments
      OBVIOUS
    <2> HIDE DEF gaps
    <2>4. IsFiniteSet(gaps)
      BY <2>2, <2>3, FS_Subset
    <2> QED
      BY <2>4, FS_CardinalityType
  <1>3. o \in [1 .. K -> gaps] /\ \A i \in gaps : \E n \in DOMAIN o : o[n] = i
    BY DEF GapOrders
  <1>4. into_parts(ring, o) = g \o b
    BY DEF into_parts
  <1>5. \A m, n \in 1 .. K : o[m] = o[n] => m = n
    <2>1. IsFiniteSet(1 .. K) /\ Cardinality(1 .. K) = K
      <3> HIDE DEF K
      <3> QED
        BY <1>2, FS_Interval
    <2>2. o \in Surjection(1 .. K, gaps)
      <3> HIDE DEF K, gaps
      <3> QED
        BY <1>3 DEF Surjection
    <2>3. Cardinality(1 .. K) = Cardinality(gaps)
      BY <2>1
    <2> HIDE DEF K, gaps
    <2>4. o \in Injection(1 .. K, gaps)
      BY <2>1, <2>2, <2>3, FS_SurjSameCardinalityImpliesInj
    <2> QED
      BY <2>4 DEF Injection, IsInjective
  <1> HIDE DEF K
  <1>6. DOMAIN o = 1 .. K /\ \A n \in 1 .. K : o[n] \in Instruments /\ d[o[n]] # NoGap /\ d[o[n]] \in Events
    BY <1>1, <1>3
  <1>7. /\ g \in [1 .. K -> Events] /\ DOMAIN g = 1 .. K
        /\ \A n \in 1 .. K : g[n] = d[o[n]] /\ g[n] \in Gaps /\ g[n].pair[1] = o[n]
    BY <1>1, <1>6
  <1> HIDE DEF g
  <1>8. g \in Seq(Events)
    BY <1>2, <1>7, SeqDef
  <1>9. Elems(g) \subseteq Gaps
    BY <1>7 DEF Elems
  <1>10. Sorted(g)
    <2>1. ASSUME NEW m \in 1 .. K, NEW n \in 1 .. K, m < n
          PROVE  g[m].pair # g[n].pair
      <3>1. m # n
        BY <1>2, <2>1
      <3> QED
        BY <1>5, <1>7, <3>1
    <2> QED
      BY <1>7, <2>1 DEF Sorted, Before
  <1>11. Chained(Elems(recv), g)
    BY <1>9, <1>10 DEF SortedInv, Chained
  <1>12. Chained(Elems(recv) \cup Elems(g), b)
    BY <1>9 DEF SortedInv, Chained
  <1> QED
    BY <1>1, <1>4, <1>8, <1>11, <1>12, ChainConcat

LEMMA SortedTake ==
  ASSUME SessionInv, SortedInv, NEW held \in BOOLEAN, take_events(held)
  PROVE  SortedInv'
  <1>1. /\ UNCHANGED recv /\ out'.q = <<>> /\ ring' = EmptyRing /\ work = <<>>
    BY DEF take_events, Idle
  <1>2. Chained(Elems(recv), work')
    <2>1. CASE sink = "detached"
      <3>1. PICK o \in GapOrders(ring) : work' = into_parts(ring, o)
        BY <2>1 DEF take_events
      <3> QED
        BY <3>1, SortedFlush
    <2>2. CASE sink # "detached"
      <3>1. work' = <<>>
        BY <1>1, <2>2 DEF take_events
      <3> QED
        BY <3>1, ChainControl
    <2> QED
      BY <2>1, <2>2
  <1>3. Elems(out'.q) = {} /\ Elems(ring'.buf) = {} /\ ring'.buf = <<>> /\ \A g \in Gaps' : ~has_span(g)
    BY <1>1, EmptyRingIs, NoGapIs DEF Elems, Gaps
  <1>4. \A S : Chained(S, out'.q) /\ Chained(S, ring'.buf)
    BY <1>1, <1>3, ChainControl
  <1>5. Chained((Elems(recv) \cup Elems(out.q) \cup Gaps \cup Elems(ring.buf))', work')
    BY <1>1, <1>2, <1>3, ChainGrows
  <1>6. \A x, g : g \in Gaps' => Before(x, g)
    BY <1>3 DEF Before
  <1> QED
    BY <1>1, <1>4, <1>5, <1>6 DEF SortedInv

LEMMA SortedStep ==
  ASSUME SessionInv, SortedInv, [Next]_vars
  PROVE  SortedInv'
  <1>1. CASE deliver
    BY <1>1, SortedSend, SortedBuffer DEF deliver
  <1>2. ASSUME NEW p \in Pairs, NEW t \in Times, RouteData(p, t)
        PROVE  SortedInv'
    <2> DEFINE ev == Event("data", p, opens[p], next[p], t, t + 1)
    <2>1. opens[p] \in Nat /\ next[p] \in Nat /\ t \in Int /\ t + 1 \in Int
      BY BoundAssumption DEF SessionInv, TypeOK
    <2>2. ev \in Events /\ ev.pair = p /\ ev.open = opens[p] /\ ev.seq = next[p]
      BY <2>1 DEF Event, Events
    <2>3. RouteEvent(p, ev)
      BY <1>2 DEF RouteData
    <2> HIDE DEF ev
    <2> QED
      BY <2>2, <2>3, SortedRoute
  <1>3. ASSUME NEW p \in Pairs, NEW f \in Times, NEW t \in Times, RouteGap(p, f, t + 1)
        PROVE  SortedInv'
    <2> DEFINE ev == Event("gap", p, opens[p], next[p], f, t + 1)
    <2>1. opens[p] \in Nat /\ next[p] \in Nat /\ f \in Int /\ t + 1 \in Int
      BY BoundAssumption DEF SessionInv, TypeOK
    <2>2. ev \in Events /\ ev.pair = p /\ ev.open = opens[p] /\ ev.seq = next[p]
      BY <2>1 DEF Event, Events
    <2>3. RouteEvent(p, ev)
      BY <1>3 DEF RouteGap
    <2> HIDE DEF ev
    <2> QED
      BY <2>2, <2>3, SortedRoute
  <1>4. ASSUME NEW p \in Pairs, RouteConn(p) \/ handle_substream_end(p) \/ subscribe(p) \/ unsubscribe(p)
        PROVE  SortedInv'
    <2>1. /\ UNCHANGED <<recv, out, ring>>
          /\ work' = work \/ \E kind \in {"sub", "conn", "closing"} : work' = <<Control(kind)>>
      BY <1>4 DEF RouteConn, handle_substream_end, subscribe, unsubscribe, Leave, delivery
    <2> QED
      BY <2>1, SortedQuiet
  <1>5. CASE ProviderFlips \/ AskClose \/ emit_session_closing \/ UNCHANGED vars
    <2>1. /\ UNCHANGED <<recv, out, ring>>
          /\ work' = work \/ \E kind \in {"sub", "conn", "closing"} : work' = <<Control(kind)>>
      BY <1>5 DEF ProviderFlips, AskClose, emit_session_closing, vars, delivery
    <2> QED
      BY <2>1, SortedQuiet
  <1>6. ASSUME NEW held \in BOOLEAN, take_events(held)
        PROVE  SortedInv'
    BY <1>6, SortedTake
  <1>7. CASE Recv \/ DropStream
    BY <1>7, SortedRecv, SortedDrop
  <1> QED
    BY <1>1, <1>2, <1>3, <1>4, <1>5, <1>6, <1>7 DEF Next, Substream

LEMMA SortedInit ==
  ASSUME Init
  PROVE  SortedInv
  <1>1. recv = <<>> /\ out.q = <<>> /\ ring.buf = <<>> /\ work = <<>> /\ \A g \in Gaps : ~has_span(g)
    BY EmptyRingIs, NoGapIs DEF Init, Gaps
  <1>2. \A S : Chained(S, <<>>)
    BY ChainControl
  <1>3. Elems(recv) = {} /\ Elems(out.q) = {}
    BY <1>1 DEF Elems
  <1> QED
    BY <1>1, <1>2, <1>3 DEF SortedInv, Chained

(***************************************************************************)
(* Within one subscription the consumer sees increasing numbers, gaps      *)
(* included, whatever it takes and drops (client.rs, push, into_parts,     *)
(* flush_ring).                                                            *)
(***************************************************************************)
THEOREM OrderedPerPairCorrect == Spec => []OrderedPerPair
  <1>1. Init => SortedInv
    BY SortedInit
  <1>2. SessionInv /\ SortedInv /\ [Next]_vars => SortedInv'
    BY SortedStep
  <1>3. SortedInv => OrderedPerPair
    BY DEF SortedInv, OrderedPerPair
  <1> QED
    BY <1>1, <1>2, <1>3, SessionCorrect, PTL DEF Spec

==============================================================================

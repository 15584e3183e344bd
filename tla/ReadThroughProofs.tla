-------------------------- MODULE ReadThroughProofs --------------------------
(***************************************************************************)
(* Machine-checked proofs about Coverage and ReadThrough.  The first part   *)
(* shows, for coverage documents and requests of any size, that the folds   *)
(* of storage/coverage.rs and of tile compute what set arithmetic says; the *)
(* second that the read-through cache keeps its promises for any sessions,  *)
(* ranges, market and faults.                                               *)
(*                                                                          *)
(* The library's induction theorems take an operator as a parameter; a set  *)
(* of natural numbers serves as well and is what SetInduction takes.        *)
(***************************************************************************)
EXTENDS ReadThrough, FiniteSetTheorems, WellFoundedInduction, TLAPS

-----------------------------------------------------------------------------
(* Induction up to a number, over a set of numbers.                         *)

LEMMA SetInduction ==
  ASSUME NEW S, NEW k \in Nat, 0 \in S, \A i \in 0 .. k - 1 : i \in S => i + 1 \in S
  PROVE  \A i \in 0 .. k : i \in S
  <1> DEFINE Missing == {i \in 0 .. k : i \notin S}
  <1>1. SUFFICES Missing = {}
    OBVIOUS
  <1>2. SUFFICES ASSUME Missing # {} PROVE FALSE
    OBVIOUS
  <1>3. PICK m \in Missing : \A y \in Missing : ~(<<y, m>> \in OpToRel(<, Nat))
    <2>1. Missing \subseteq Nat
      OBVIOUS
    <2> HIDE DEF Missing
    <2> QED
      BY <1>2, <2>1, NatLessThanWellFounded, WFMin
  <1>4. m # 0 /\ m \in Nat /\ m - 1 \in Nat /\ m - 1 \in 0 .. k - 1 /\ m - 1 < m
    OBVIOUS
  <1>5. <<m - 1, m>> \in OpToRel(<, Nat)
    BY <1>4 DEF OpToRel
  <1>6. m - 1 \notin Missing
    BY <1>3, <1>5
  <1> QED
    BY <1>4, <1>6

LEMMA LessTransitive ==
  ASSUME NEW x \in Int, NEW y \in Int, NEW z \in Int, x < y, y < z
  PROVE  x < z /\ x <= z
  OBVIOUS

(* The greatest of a non-empty set of numbers up to n is one of them.       *)
LEMMA MaxUpTo ==
  ASSUME NEW n \in Nat, NEW s, s \subseteq 1 .. n, s # {}
  PROVE  Max(s) \in s /\ \A y \in s : y <= Max(s)
  <1> DEFINE Fine == {i \in 0 .. n : \A z \in SUBSET (1 .. i) :
                        z # {} => \E x \in z : \A y \in z : x >= y}
  <1>1. 0 \in Fine
    <2>1. \A z \in SUBSET (1 .. 0) : z # {} => \E x \in z : \A y \in z : x >= y
      <3>1. \A z \in SUBSET (1 .. 0) : z = {}
        OBVIOUS
      <3> QED
        BY <3>1, Zenon
    <2>2. 0 \in 0 .. n
      OBVIOUS
    <2> QED
      BY <2>1, <2>2, Zenon
  <1>2. ASSUME NEW i \in 0 .. n - 1, i \in Fine PROVE i + 1 \in Fine
    <2> SUFFICES ASSUME NEW z \in SUBSET (1 .. i + 1), z # {}
                 PROVE  \E x \in z : \A y \in z : x >= y
      OBVIOUS
    <2>1. CASE i + 1 \in z
      BY <2>1
    <2>2. CASE i + 1 \notin z
      <3>1. z \in SUBSET (1 .. i)
        BY <2>2
      <3> QED
        BY <1>2, <3>1
    <2> QED
      BY <2>1, <2>2
  <1>3. n \in Fine
    <2> HIDE DEF Fine
    <2> QED
      BY <1>1, <1>2, SetInduction
  <1>4. \E x \in s : \A y \in s : x >= y
    BY <1>3
  <1>5. Max(s) \in s /\ \A y \in s : Max(s) >= y
    BY <1>4 DEF Max
  <1> QED
    BY <1>5

-----------------------------------------------------------------------------
(* The folds of Coverage, one element at a time.                            *)

(* One step of the fold named: its parameters in par, the accumulator so    *)
(* far, and the next element.                                               *)
FoldStep(fold, par, acc, seg) ==
  CASE fold = "merge" -> MergeStep(acc, seg)
    [] fold = "intersect" -> IntersectStep(par[1], par[2], acc, seg)
    [] fold = "gaps" -> GapStep(par, acc, seg)
    [] fold = "tile" -> TileStep(acc, seg)

(* The recursive function a left fold is defined by, on the subsets of the  *)
(* first n positions, and what it is to be one.                             *)
FoldBody(fold, par, base, segs, n, it) ==
  [s \in SUBSET (1 .. n) |->
     IF s = {} THEN base ELSE FoldStep(fold, par, it[s \ {Max(s)}], segs[Max(s)])]

(* The function exists, whatever the step.                                  *)
LEMMA FoldExists ==
  ASSUME NEW fold, NEW par, NEW base, NEW segs, NEW k \in Nat
  PROVE  \E it : it = FoldBody(fold, par, base, segs, k, it)
  <1> DEFINE Fine == {n \in 0 .. k : \E it : it = FoldBody(fold, par, base, segs, n, it)}
  <1>1. 0 \in Fine
    <2>1. [s \in SUBSET (1 .. 0) |-> base] = FoldBody(fold, par, base, segs, 0, [s \in SUBSET (1 .. 0) |-> base])
      <3>1. \A s \in SUBSET (1 .. 0) : s = {}
        OBVIOUS
      <3> QED
        BY <3>1 DEF FoldBody
    <2> QED
      BY <2>1
  <1>2. ASSUME NEW n \in 0 .. k - 1, n \in Fine PROVE n + 1 \in Fine
    <2>1. PICK it : it = FoldBody(fold, par, base, segs, n, it)
      BY <1>2
    <2> DEFINE jt == [s \in SUBSET (1 .. n + 1) |->
                        IF n + 1 \in s THEN FoldStep(fold, par, it[s \ {n + 1}], segs[n + 1])
                        ELSE it[s]]
    <2>2. ASSUME NEW s \in SUBSET (1 .. n + 1)
          PROVE  jt[s] = IF s = {} THEN base
                         ELSE FoldStep(fold, par, jt[s \ {Max(s)}], segs[Max(s)])
      <3>1. CASE n + 1 \in s
        <4>1. Max(s) \in s /\ \A y \in s : y <= Max(s)
          <5>1. n + 1 \in Nat /\ s \subseteq 1 .. (n + 1) /\ s # {}
            BY <3>1
          <5> QED
            BY <5>1, MaxUpTo
        <4>2. Max(s) = n + 1
          <5>1. Max(s) \in 1 .. (n + 1)
            BY <4>1
          <5>2. n + 1 <= Max(s)
            BY <3>1, <4>1
          <5> QED
            BY <5>1, <5>2
        <4>3. s \ {n + 1} \in SUBSET (1 .. n + 1) /\ n + 1 \notin s \ {n + 1}
          OBVIOUS
        <4> QED
          BY <3>1, <4>2, <4>3
      <3>2. CASE n + 1 \notin s
        <4>1. s \in SUBSET (1 .. n) /\ jt[s] = it[s]
          BY <3>2
        <4>2. it[s] = IF s = {} THEN base
                      ELSE FoldStep(fold, par, it[s \ {Max(s)}], segs[Max(s)])
          BY <2>1, <4>1 DEF FoldBody
        <4>3. /\ s \ {Max(s)} \in SUBSET (1 .. n + 1) 
              /\ n + 1 \notin s \ {Max(s)}
          BY <3>2
        <4>4. jt[s \ {Max(s)}] = it[s \ {Max(s)}]
          BY <4>3
        <4> QED
          BY <4>1, <4>2, <4>4
      <3> QED
        BY <3>1, <3>2
    <2>3. jt = FoldBody(fold, par, base, segs, n + 1, jt)
      <3> HIDE DEF jt
      <3>1. jt = [s \in SUBSET (1 .. n + 1) |-> jt[s]]
        BY DEF jt
      <3> QED
        BY <2>2, <3>1 DEF FoldBody
    <2> QED
      BY <2>3
  <1>3. k \in Fine
    <2> HIDE DEF Fine
    <2> QED
      BY <1>1, <1>2, SetInduction
  <1> QED
    BY <1>3

(* Its values on the initial segments are the accumulators, step by step.   *)
LEMMA FoldUnfolds ==
  ASSUME NEW fold, NEW par, NEW base, NEW segs, NEW k \in Nat, NEW it,
         it = FoldBody(fold, par, base, segs, k, it)
  PROVE  /\ it[1 .. 0] = base
         /\ \A i \in 1 .. k : it[1 .. i] = FoldStep(fold, par, it[1 .. (i - 1)], segs[i])
  <1>1. it[1 .. 0] = base
    <2>1. 1 .. 0 = {} /\ 1 .. 0 \in SUBSET (1 .. k)
      OBVIOUS
    <2> QED
      BY <2>1 DEF FoldBody
  <1>2. ASSUME NEW i \in 1 .. k
        PROVE  it[1 .. i] = FoldStep(fold, par, it[1 .. (i - 1)], segs[i])
    <2>1. 1 .. i \in SUBSET (1 .. k) /\ 1 .. i # {}
      OBVIOUS
    <2>2. Max(1 .. i) = i
      <3>1. Max(1 .. i) \in 1 .. i /\ \A y \in 1 .. i : y <= Max(1 .. i)
        BY <2>1, MaxUpTo
      <3> QED
        BY <3>1
    <2>3. (1 .. i) \ {i} = 1 .. (i - 1)
      OBVIOUS
    <2> QED
      BY <2>1, <2>2, <2>3 DEF FoldBody
  <1> QED
    BY <1>1, <1>2

(* Each fold over a sequence of length k goes through k + 1 accumulators.   *)
Steps(fold, par, base, segs, g) ==
  /\ g[0] = base
  /\ \A i \in 1 .. Len(segs) : g[i] = FoldStep(fold, par, g[i - 1], segs[i])

LEMMA FoldSteps ==
  ASSUME NEW fold, NEW par, NEW base, NEW segs, NEW k \in Nat, k = Len(segs), NEW it,
         it = FoldBody(fold, par, base, segs, k, it)
  PROVE  \E g : Steps(fold, par, base, segs, g) /\ g[k] = it[1 .. k]
  <1> DEFINE g == [i \in 0 .. k |-> it[1 .. i]]
  <1>1. /\ it[1 .. 0] = base
        /\ \A i \in 1 .. k : it[1 .. i] = FoldStep(fold, par, it[1 .. (i - 1)], segs[i])
    BY FoldUnfolds
  <1>2. g[0] = base /\ g[k] = it[1 .. k]
    BY <1>1
  <1>3. ASSUME NEW i \in 1 .. k PROVE g[i] = FoldStep(fold, par, g[i - 1], segs[i])
    <2>1. i \in 0 .. k /\ i - 1 \in 0 .. k
      OBVIOUS
    <2> QED
      BY <1>1, <2>1
  <1> HIDE DEF g
  <1> QED
    BY <1>2, <1>3 DEF Steps

GapEnd(t, base, segs) == FoldLeft(LAMBDA a, s : GapStep(t, a, s), base, segs)

LEMMA GapFold ==
  ASSUME NEW segs \in Seq(Int \X Int), NEW t, NEW base
  PROVE  \E g : Steps("gaps", t, base, segs, g) /\ GapEnd(t, base, segs) = g[Len(segs)]
  <1> DEFINE it == CHOOSE it : it = [s \in SUBSET DOMAIN segs |->
                     IF s = {} THEN base ELSE GapStep(t, it[s \ {Max(s)}], segs[Max(s)])]
  <1>1. GapEnd(t, base, segs) = it[DOMAIN segs]
    BY DEF FoldLeft, MapThenFoldSet, GapEnd
  <1>2. DOMAIN segs = 1 .. Len(segs) /\ Len(segs) \in Nat
    OBVIOUS
  <1>3. ASSUME NEW f
        PROVE  FoldBody("gaps", t, base, segs, Len(segs), f) =
                 [s \in SUBSET DOMAIN segs |->
                    IF s = {} THEN base ELSE GapStep(t, f[s \ {Max(s)}], segs[Max(s)])]
    <2>1. \A a, s : FoldStep("gaps", t, a, s) = GapStep(t, a, s)
      BY DEF FoldStep
    <2> QED
      BY <1>2, <2>1 DEF FoldBody
  <1>4. PICK j : j = FoldBody("gaps", t, base, segs, Len(segs), j)
    BY <1>2, FoldExists
  <1>5. it = [s \in SUBSET DOMAIN segs |->
                     IF s = {} THEN base ELSE GapStep(t, it[s \ {Max(s)}], segs[Max(s)])]
    <2>1. j = [s \in SUBSET DOMAIN segs |->
                 IF s = {} THEN base ELSE GapStep(t, j[s \ {Max(s)}], segs[Max(s)])]
      BY <1>3, <1>4
    <2> QED
      BY <2>1, Zenon
  <1> HIDE DEF it
  <1>6. it = FoldBody("gaps", t, base, segs, Len(segs), it)
    BY <1>3, <1>5
  <1>7. PICK g : Steps("gaps", t, base, segs, g) /\ g[Len(segs)] = it[1 .. Len(segs)]
    BY <1>2, <1>6, FoldSteps
  <1> QED
    BY <1>1, <1>2, <1>7

MergeEnd(base, segs) == FoldLeft(MergeStep, base, segs)

LEMMA MergeFold ==
  ASSUME NEW segs \in Seq(Int \X Int), NEW base
  PROVE  \E g : Steps("merge", 0, base, segs, g) /\ MergeEnd(base, segs) = g[Len(segs)]
  <1> DEFINE it == CHOOSE it : it = [s \in SUBSET DOMAIN segs |->
                     IF s = {} THEN base ELSE MergeStep(it[s \ {Max(s)}], segs[Max(s)])]
  <1>1. MergeEnd(base, segs) = it[DOMAIN segs]
    BY DEF FoldLeft, MapThenFoldSet, MergeEnd
  <1>2. DOMAIN segs = 1 .. Len(segs) /\ Len(segs) \in Nat
    OBVIOUS
  <1>3. ASSUME NEW f
        PROVE  FoldBody("merge", 0, base, segs, Len(segs), f) =
                 [s \in SUBSET DOMAIN segs |->
                    IF s = {} THEN base ELSE MergeStep(f[s \ {Max(s)}], segs[Max(s)])]
    <2>1. \A a, s : FoldStep("merge", 0, a, s) = MergeStep(a, s)
      BY DEF FoldStep
    <2> QED
      BY <1>2, <2>1 DEF FoldBody
  <1>4. PICK j : j = FoldBody("merge", 0, base, segs, Len(segs), j)
    BY <1>2, FoldExists
  <1>5. it = [s \in SUBSET DOMAIN segs |->
                     IF s = {} THEN base ELSE MergeStep(it[s \ {Max(s)}], segs[Max(s)])]
    <2>1. j = [s \in SUBSET DOMAIN segs |->
                 IF s = {} THEN base ELSE MergeStep(j[s \ {Max(s)}], segs[Max(s)])]
      BY <1>3, <1>4
    <2> QED
      BY <2>1, Zenon
  <1> HIDE DEF it
  <1>6. it = FoldBody("merge", 0, base, segs, Len(segs), it)
    BY <1>3, <1>5
  <1>7. PICK g : Steps("merge", 0, base, segs, g) /\ g[Len(segs)] = it[1 .. Len(segs)]
    BY <1>2, <1>6, FoldSteps
  <1> QED
    BY <1>1, <1>2, <1>7

TileEnd(base, segs) == FoldLeft(TileStep, base, segs)

LEMMA TileFold ==
  ASSUME NEW segs \in Seq(Int \X Int), NEW base
  PROVE  \E g : Steps("tile", 0, base, segs, g) /\ TileEnd(base, segs) = g[Len(segs)]
  <1> DEFINE it == CHOOSE it : it = [s \in SUBSET DOMAIN segs |->
                     IF s = {} THEN base ELSE TileStep(it[s \ {Max(s)}], segs[Max(s)])]
  <1>1. TileEnd(base, segs) = it[DOMAIN segs]
    BY DEF FoldLeft, MapThenFoldSet, TileEnd
  <1>2. DOMAIN segs = 1 .. Len(segs) /\ Len(segs) \in Nat
    OBVIOUS
  <1>3. ASSUME NEW f
        PROVE  FoldBody("tile", 0, base, segs, Len(segs), f) =
                 [s \in SUBSET DOMAIN segs |->
                    IF s = {} THEN base ELSE TileStep(f[s \ {Max(s)}], segs[Max(s)])]
    <2>1. \A a, s : FoldStep("tile", 0, a, s) = TileStep(a, s)
      BY DEF FoldStep
    <2> QED
      BY <1>2, <2>1 DEF FoldBody
  <1>4. PICK j : j = FoldBody("tile", 0, base, segs, Len(segs), j)
    BY <1>2, FoldExists
  <1>5. it = [s \in SUBSET DOMAIN segs |->
                     IF s = {} THEN base ELSE TileStep(it[s \ {Max(s)}], segs[Max(s)])]
    <2>1. j = [s \in SUBSET DOMAIN segs |->
                 IF s = {} THEN base ELSE TileStep(j[s \ {Max(s)}], segs[Max(s)])]
      BY <1>3, <1>4
    <2> QED
      BY <2>1, Zenon
  <1> HIDE DEF it
  <1>6. it = FoldBody("tile", 0, base, segs, Len(segs), it)
    BY <1>3, <1>5
  <1>7. PICK g : Steps("tile", 0, base, segs, g) /\ g[Len(segs)] = it[1 .. Len(segs)]
    BY <1>2, <1>6, FoldSteps
  <1> QED
    BY <1>1, <1>2, <1>7

IntersectEnd(f, t, base, segs) == FoldLeft(LAMBDA b, s : IntersectStep(f, t, b, s), base, segs)

LEMMA IntersectFold ==
  ASSUME NEW segs \in Seq(Int \X Int), NEW f, NEW t, NEW base
  PROVE  \E g : /\ Steps("intersect", <<f, t>>, base, segs, g)
                /\ IntersectEnd(f, t, base, segs) = g[Len(segs)]
  <1> DEFINE it == CHOOSE it : it = [s \in SUBSET DOMAIN segs |->
                     IF s = {} THEN base ELSE IntersectStep(f, t, it[s \ {Max(s)}], segs[Max(s)])]
  <1>1. IntersectEnd(f, t, base, segs) = it[DOMAIN segs]
    BY DEF FoldLeft, MapThenFoldSet, IntersectEnd
  <1>2. DOMAIN segs = 1 .. Len(segs) /\ Len(segs) \in Nat
    OBVIOUS
  <1>3. ASSUME NEW h
        PROVE  FoldBody("intersect", <<f, t>>, base, segs, Len(segs), h) =
                 [s \in SUBSET DOMAIN segs |->
                    IF s = {} THEN base ELSE IntersectStep(f, t, h[s \ {Max(s)}], segs[Max(s)])]
    <2>1. \A a, s : FoldStep("intersect", <<f, t>>, a, s) = IntersectStep(f, t, a, s)
      BY DEF FoldStep
    <2> QED
      BY <1>2, <2>1 DEF FoldBody
  <1>4. PICK j : j = FoldBody("intersect", <<f, t>>, base, segs, Len(segs), j)
    BY <1>2, FoldExists
  <1>5. it = [s \in SUBSET DOMAIN segs |->
                     IF s = {} THEN base ELSE IntersectStep(f, t, it[s \ {Max(s)}], segs[Max(s)])]
    <2>1. j = [s \in SUBSET DOMAIN segs |->
                 IF s = {} THEN base ELSE IntersectStep(f, t, j[s \ {Max(s)}], segs[Max(s)])]
      BY <1>3, <1>4
    <2> QED
      BY <2>1, Zenon
  <1> HIDE DEF it
  <1>6. it = FoldBody("intersect", <<f, t>>, base, segs, Len(segs), it)
    BY <1>3, <1>5
  <1>7. PICK g : Steps("intersect", <<f, t>>, base, segs, g) /\ g[Len(segs)] = it[1 .. Len(segs)]
    BY <1>2, <1>6, FoldSteps
  <1> QED
    BY <1>1, <1>2, <1>7

-----------------------------------------------------------------------------
(* Coverage documents: sequences of intervals.                              *)

Intervals == Seq(Int \X Int)

(* Tick x lies in one of the first i intervals; in one of all of them.      *)
InUpTo(x, segs, i) == \E j \in 1 .. i : segs[j][1] <= x /\ x < segs[j][2]
In(x, segs) == InUpTo(x, segs, Len(segs))

LEMMA SpansIn ==
  ASSUME NEW segs \in Intervals
  PROVE  \A x : x \in Spans(segs) <=> x \in Int /\ In(x, segs)
  <1>1. DOMAIN segs = 1 .. Len(segs) /\ \A j \in 1 .. Len(segs) : segs[j] \in Int \X Int
    BY DEF Intervals
  <1>2. ASSUME NEW a \in Int, NEW b \in Int, NEW x
        PROVE  x \in Span(a, b) <=> x \in Int /\ a <= x /\ x < b
    BY DEF Span
  <1>3. \A j \in 1 .. Len(segs) : segs[j][1] \in Int /\ segs[j][2] \in Int
    BY <1>1
  <1>4. \A x : x \in Spans(segs) <=> \E j \in 1 .. Len(segs) : x \in Span(segs[j][1], segs[j][2])
    BY <1>1 DEF Spans
  <1> QED
    BY <1>2, <1>3, <1>4 DEF In, InUpTo

(* The part of a canonical document before a position lies before what      *)
(* follows.                                                                 *)
LEMMA CanonicalIs ==
  ASSUME NEW segs \in Intervals
  PROVE  /\ Len(segs) \in Nat
         /\ \A i \in 1 .. Len(segs) : segs[i] = <<segs[i][1], segs[i][2]>> /\ segs[i][1] \in Int /\ segs[i][2] \in Int
         /\ Canonical(segs) <=>
              /\ \A i \in 1 .. Len(segs) : segs[i][1] < segs[i][2]
              /\ \A i, j \in 1 .. Len(segs) : i < j => segs[i][2] < segs[j][1]
  <1>1. Len(segs) \in Nat /\ DOMAIN segs = 1 .. Len(segs)
    BY DEF Intervals
  <1>2. \A i \in 1 .. Len(segs) : segs[i] \in Int \X Int
    BY DEF Intervals
  <1> QED
    BY <1>1, <1>2 DEF Canonical

(* An interval behind all the others extends a canonical document.          *)
LEMMA CanonicalAppend ==
  ASSUME NEW segs \in Intervals, Canonical(segs), NEW a \in Int, NEW b \in Int, a < b,
         \A i \in 1 .. Len(segs) : segs[i][2] < a
  PROVE  /\ Append(segs, <<a, b>>) \in Intervals
         /\ Len(Append(segs, <<a, b>>)) = Len(segs) + 1
         /\ Append(segs, <<a, b>>)[Len(segs) + 1] = <<a, b>>
         /\ \A i \in 1 .. Len(segs) : Append(segs, <<a, b>>)[i] = segs[i]
         /\ Canonical(Append(segs, <<a, b>>))
         /\ \A x \in Int : In(x, Append(segs, <<a, b>>)) <=> In(x, segs) \/ (a <= x /\ x < b)
  <1> DEFINE app == Append(segs, <<a, b>>)
  <1>1. app \in Intervals /\ Len(segs) \in Nat /\ Len(app) = Len(segs) + 1
    BY DEF Intervals
  <1>2. app[Len(segs) + 1] = <<a, b>> /\ \A i \in 1 .. Len(segs) : app[i] = segs[i]
    BY DEF Intervals
  <1>3. \A i \in 1 .. Len(app) : i = Len(segs) + 1 \/ i \in 1 .. Len(segs)
    BY <1>1
  <1> HIDE DEF app
  <1>4. <<a, b>>[1] = a /\ <<a, b>>[2] = b
    OBVIOUS
  <1>5. Canonical(app)
    <2>1. \A i \in 1 .. Len(app) : app[i][1] < app[i][2]
      BY <1>1, <1>2, <1>3, <1>4, CanonicalIs
    <2>2. ASSUME NEW i \in 1 .. Len(app), NEW j \in 1 .. Len(app), i < j
          PROVE  app[i][2] < app[j][1]
      <3>1. i \in 1 .. Len(segs)
        BY <1>1, <2>2
      <3>2. CASE j = Len(segs) + 1
        BY <1>2, <1>4, <3>1, <3>2
      <3>3. CASE j \in 1 .. Len(segs)
        BY <1>2, <2>2, <3>1, <3>3, CanonicalIs
      <3> QED
        BY <1>3, <3>2, <3>3
    <2> QED
      BY <1>1, <2>1, <2>2, CanonicalIs
  <1>6. ASSUME NEW x \in Int
        PROVE  In(x, app) <=> In(x, segs) \/ (a <= x /\ x < b)
    BY <1>1, <1>2, <1>3, <1>4 DEF In, InUpTo
  <1> QED
    BY <1>1, <1>2, <1>5, <1>6 DEF app

LEMMA CanonicalEmpty ==
  /\ << >> \in Intervals /\ Canonical(<< >>) /\ Len(<< >>) = 0
  /\ \A x : ~In(x, << >>)
  BY DEF Intervals, Canonical, In, InUpTo

LEMMA InNext ==
  ASSUME NEW i \in Nat \ {0}, NEW segs, NEW x
  PROVE  InUpTo(x, segs, i) <=> InUpTo(x, segs, i - 1) \/ (segs[i][1] <= x /\ x < segs[i][2])
  BY DEF InUpTo

-----------------------------------------------------------------------------
(* gaps_within.                                                             *)

(* What holds of its accumulator after the first i segments.                *)
GapInv(segs, f, t, i, acc) ==
  /\ acc.gaps \in Intervals /\ acc.cursor \in Int /\ f <= acc.cursor
  /\ Canonical(acc.gaps)
  /\ \A j \in 1 .. Len(acc.gaps) :
        f <= acc.gaps[j][1] /\ acc.gaps[j][2] <= t /\ acc.gaps[j][2] < acc.cursor
  /\ f < acc.cursor => \A j \in i + 1 .. Len(segs) : acc.cursor < segs[j][1]
  /\ \A x \in Int : In(x, acc.gaps)
        <=> f <= x /\ x < t /\ x < acc.cursor /\ ~InUpTo(x, segs, i)
  /\ \A x \in Int : acc.cursor <= x /\ x < t => ~InUpTo(x, segs, i)

LEMMA GapInvStep ==
  ASSUME NEW segs \in Intervals, Canonical(segs), NEW f \in Int, NEW t \in Int, f < t,
         NEW i \in 1 .. Len(segs), NEW acc, GapInv(segs, f, t, i - 1, acc)
  PROVE  GapInv(segs, f, t, i, GapStep(t, acc, segs[i]))
  <1> DEFINE a == segs[i][1]
             b == segs[i][2]
             c == acc.cursor
  <1>1. /\ a \in Int /\ b \in Int /\ a < b
        /\ \A j \in i + 1 .. Len(segs) : b < segs[j][1] /\ a < segs[j][1] /\ segs[j][1] \in Int
        /\ Len(segs) \in Nat
    BY CanonicalIs
  <1>2. /\ acc.gaps \in Intervals /\ c \in Int /\ f <= c /\ Canonical(acc.gaps)
        /\ \A j \in 1 .. Len(acc.gaps) :
              f <= acc.gaps[j][1] /\ acc.gaps[j][2] <= t /\ acc.gaps[j][2] < c
        /\ f < c => c < a /\ \A j \in i + 1 .. Len(segs) : c < segs[j][1]
        /\ \A x \in Int : In(x, acc.gaps)
              <=> f <= x /\ x < t /\ x < c /\ ~InUpTo(x, segs, i - 1)
        /\ \A x \in Int : c <= x /\ x < t => ~InUpTo(x, segs, i - 1)
    <2>1. i \in (i - 1) + 1 .. Len(segs) /\ i + 1 .. Len(segs) \subseteq (i - 1) + 1 .. Len(segs)
      OBVIOUS
    <2> QED
      BY <2>1 DEF GapInv
  <1>3. \A x : InUpTo(x, segs, i) <=> InUpTo(x, segs, i - 1) \/ (a <= x /\ x < b)
    BY InNext
  <1> HIDE DEF a, b, c
  <1>4. CASE b <= c \/ a >= t \/ c >= t
    <2>1. GapStep(t, acc, segs[i]) = acc
      BY <1>4 DEF GapStep, a, b, c
    <2>2. ASSUME NEW x \in Int, f <= x, x < t, x < c PROVE ~(a <= x /\ x < b)
      BY <1>1, <1>2, <1>4, <2>2
    <2>3. ASSUME NEW x \in Int, c <= x, x < t PROVE ~(a <= x /\ x < b)
      BY <1>1, <1>2, <1>4, <2>3
    <2> QED
      BY <1>2, <1>3, <2>1, <2>2, <2>3 DEF GapInv, c
  <1>5. CASE ~(b <= c \/ a >= t \/ c >= t)
    <2>1. b > c /\ a < t /\ c < t
      BY <1>1, <1>2, <1>5
    <2> DEFINE gaps == IF a > c THEN Append(acc.gaps, <<c, a>>) ELSE acc.gaps
    <2>2. GapStep(t, acc, segs[i]) = [gaps |-> gaps, cursor |-> b]
      <3>1. Lower(a, t) = a /\ Upper(c, b) = b
        BY <1>1, <1>2, <2>1 DEF Lower, Upper
      <3>2. GapStep(t, acc, segs[i]) =
              [gaps |-> IF a > c THEN Append(acc.gaps, <<c, Lower(a, t)>>) ELSE acc.gaps,
               cursor |-> Upper(c, b)]
        BY <1>5 DEF GapStep, a, b, c
      <3> QED
        BY <3>1, <3>2
    <2>3. a > c =>
            /\ Append(acc.gaps, <<c, a>>) \in Intervals
            /\ Len(Append(acc.gaps, <<c, a>>)) = Len(acc.gaps) + 1
            /\ Append(acc.gaps, <<c, a>>)[Len(acc.gaps) + 1] = <<c, a>>
            /\ \A j \in 1 .. Len(acc.gaps) : Append(acc.gaps, <<c, a>>)[j] = acc.gaps[j]
            /\ Canonical(Append(acc.gaps, <<c, a>>))
            /\ \A x \in Int : In(x, Append(acc.gaps, <<c, a>>))
                                <=> In(x, acc.gaps) \/ (c <= x /\ x < a)
      BY <1>1, <1>2, CanonicalAppend
    <2>4. Len(acc.gaps) \in Nat /\ \A j \in 1 .. Len(acc.gaps) : acc.gaps[j][1] \in Int /\ acc.gaps[j][2] \in Int
      BY <1>2, CanonicalIs
    <2>5. gaps \in Intervals /\ Canonical(gaps)
      BY <1>2, <2>3
    <2>6. ASSUME NEW j \in 1 .. Len(gaps)
          PROVE  f <= gaps[j][1] /\ gaps[j][2] <= t /\ gaps[j][2] < b
      <3>1. CASE a > c
        <4>1. CASE j \in 1 .. Len(acc.gaps)
          <5>1. gaps[j] = acc.gaps[j]
            BY <2>3, <3>1, <4>1
          <5>2. /\ f <= acc.gaps[j][1] /\ acc.gaps[j][2] <= t /\ acc.gaps[j][2] < c
                /\ acc.gaps[j][2] \in Int /\ b \in Int /\ c \in Int /\ c < b
            BY <1>1, <1>2, <2>1, <2>4, <4>1
          <5> QED
            BY <5>1, <5>2
        <4>2. CASE j = Len(acc.gaps) + 1
          <5>1. gaps[j] = <<c, a>>
            BY <2>3, <3>1, <4>2
          <5>2. f <= c /\ a <= t /\ a < b
            BY <1>1, <1>2, <2>1
          <5> QED
            BY <5>1, <5>2
        <4>3. j \in 1 .. Len(acc.gaps) \/ j = Len(acc.gaps) + 1
          BY <2>3, <2>4, <3>1
        <4> QED
          BY <4>1, <4>2, <4>3
      <3>2. CASE ~(a > c)
        BY <1>1, <1>2, <2>1, <2>4, <3>2
      <3> QED
        BY <3>1, <3>2
    <2>7. ASSUME NEW x \in Int
          PROVE  In(x, gaps) <=> f <= x /\ x < t /\ x < b /\ ~InUpTo(x, segs, i)
      <3>1. In(x, gaps) <=> In(x, acc.gaps) \/ (a > c /\ c <= x /\ x < a)
        BY <1>1, <1>2, <2>3
      <3>2. CASE x < c
        <4>1. ~(a <= x /\ x < b) \/ c = f
          BY <1>1, <1>2, <3>2
        <4> QED
          BY <1>1, <1>2, <1>3, <2>1, <3>1, <3>2, <4>1
      <3>3. CASE x >= c
        BY <1>1, <1>2, <1>3, <2>1, <3>1, <3>3
      <3> QED
        BY <1>2, <3>2, <3>3
    <2>8. ASSUME NEW x \in Int, b <= x, x < t PROVE ~InUpTo(x, segs, i)
      BY <1>1, <1>2, <1>3, <2>1, <2>8
    <2>9. f <= b
      BY <1>1, <1>2, <2>1
    <2> HIDE DEF gaps
    <2>10. PICK acc2 : acc2 = GapStep(t, acc, segs[i]) /\ acc2.gaps = gaps /\ acc2.cursor = b
      BY <2>2
    <2>11. GapInv(segs, f, t, i, acc2)
      BY <1>1, <2>5, <2>6, <2>7, <2>8, <2>9, <2>10 DEF GapInv
    <2> QED
      BY <2>10, <2>11
  <1> QED
    BY <1>4, <1>5

LEMMA GapsWithinIs ==
  ASSUME NEW segs, NEW f, NEW t
  PROVE  gaps_within(segs, f, t) =
           LET end == GapEnd(t, [gaps |-> << >>, cursor |-> f], segs)
           IN  IF f >= t THEN << >>
               ELSE IF end.cursor < t THEN Append(end.gaps, <<end.cursor, t>>) ELSE end.gaps
  BY Zenon DEF gaps_within, GapEnd

(***************************************************************************)
(* gaps_within returns, in canonical form, exactly the ticks of the request *)
(* that no segment covers, for every canonical document and every request.  *)
(***************************************************************************)
THEOREM GapsWithinExact ==
  ASSUME NEW segs \in Intervals, Canonical(segs), NEW f \in Int, NEW t \in Int
  PROVE  /\ gaps_within(segs, f, t) \in Intervals
         /\ Canonical(gaps_within(segs, f, t))
         /\ Spans(gaps_within(segs, f, t)) = Span(f, t) \ Spans(segs)
  <1> DEFINE base == [gaps |-> << >>, cursor |-> f]
             end == GapEnd(t, base, segs)
             gaps == gaps_within(segs, f, t)
  <1> HIDE DEF end
  <1>1. gaps = IF f >= t THEN << >>
               ELSE IF end.cursor < t THEN Append(end.gaps, <<end.cursor, t>>) ELSE end.gaps
    BY GapsWithinIs, Zenon DEF end
  <1> HIDE DEF gaps
  <1>2. CASE f >= t
    <2>1. gaps = << >> /\ Span(f, t) = {}
      BY <1>1, <1>2 DEF Span
    <2> QED
      BY <2>1, CanonicalEmpty, SpansIn DEF gaps
  <1>3. CASE f < t
    <2>1. Len(segs) \in Nat
      BY DEF Intervals
    <2>2. PICK g : Steps("gaps", t, base, segs, g) /\ end = g[Len(segs)]
      <3>1. segs \in Seq(Int \X Int)
        BY DEF Intervals
      <3> QED
        BY <3>1, GapFold DEF end
    <2> DEFINE Fine == {i \in 0 .. Len(segs) : GapInv(segs, f, t, i, g[i])}
    <2>3. 0 \in Fine
      <3>1. base.gaps = << >> /\ base.cursor = f
        OBVIOUS
      <3>2. \A x : ~InUpTo(x, segs, 0)
        BY DEF InUpTo
      <3>3. GapInv(segs, f, t, 0, base)
        BY <3>1, <3>2, CanonicalEmpty DEF GapInv
      <3>4. g[0] = base
        BY <2>2 DEF Steps
      <3> HIDE DEF base
      <3> QED
        BY <2>1, <3>3, <3>4
    <2>4. ASSUME NEW i \in 0 .. Len(segs) - 1, i \in Fine PROVE i + 1 \in Fine
      <3>1. i + 1 \in 1 .. Len(segs) /\ (i + 1) - 1 = i
        BY <2>1
      <3>2. g[i + 1] = GapStep(t, g[i], segs[i + 1])
        BY <2>2, <3>1 DEF Steps, FoldStep
      <3>3. GapInv(segs, f, t, (i + 1) - 1, g[i])
        BY <2>4, <3>1
      <3>4. GapInv(segs, f, t, i + 1, GapStep(t, g[i], segs[i + 1]))
        BY <1>3, <3>1, <3>3, GapInvStep
      <3> QED
        BY <2>1, <3>1, <3>2, <3>4
    <2>5. GapInv(segs, f, t, Len(segs), end)
      <3> HIDE DEF Fine
      <3>1. \A i \in 0 .. Len(segs) : i \in Fine
        BY <2>1, <2>3, <2>4, SetInduction
      <3> QED
        BY <2>2, <3>1 DEF Fine
    <2>6. gaps = IF end.cursor < t THEN Append(end.gaps, <<end.cursor, t>>) ELSE end.gaps
      BY <1>1, <1>3
    <2> HIDE DEF base
    <2>7. /\ end.gaps \in Intervals /\ end.cursor \in Int /\ f <= end.cursor
          /\ Canonical(end.gaps)
          /\ \A j \in 1 .. Len(end.gaps) : end.gaps[j][2] < end.cursor
          /\ \A x \in Int : In(x, end.gaps) <=> f <= x /\ x < t /\ x < end.cursor /\ ~In(x, segs)
          /\ \A x \in Int : end.cursor <= x /\ x < t => ~In(x, segs)
      BY <2>5 DEF GapInv, In
    <2>8. /\ gaps \in Intervals /\ Canonical(gaps)
          /\ \A x \in Int : In(x, gaps) <=> f <= x /\ x < t /\ ~In(x, segs)
      <3>1. CASE end.cursor < t
        <4>1. /\ gaps = Append(end.gaps, <<end.cursor, t>>)
              /\ gaps \in Intervals /\ Canonical(gaps)
              /\ \A x \in Int : In(x, gaps) <=> In(x, end.gaps) \/ (end.cursor <= x /\ x < t)
          <5>1. gaps = Append(end.gaps, <<end.cursor, t>>)
            BY <2>6, <3>1
          <5> QED
            BY <2>7, <3>1, <5>1, CanonicalAppend
        <4>2. ASSUME NEW x \in Int
              PROVE  In(x, gaps) <=> f <= x /\ x < t /\ ~In(x, segs)
          BY <2>7, <3>1, <4>1
        <4> QED
          BY <4>1, <4>2
      <3>2. CASE ~(end.cursor < t)
        BY <2>6, <2>7, <3>2
      <3> QED
        BY <3>1, <3>2
    <2>9. \A x : x \in Span(f, t) <=> x \in Int /\ f <= x /\ x < t
      BY DEF Span
    <2>10. Spans(gaps) = Span(f, t) \ Spans(segs)
      BY <2>8, <2>9, SpansIn
    <2> QED
      BY <2>8, <2>10 DEF gaps
  <1> QED
    BY <1>2, <1>3

-----------------------------------------------------------------------------
(* merge_in.                                                                *)

MergeAcc == [out : Intervals, new : Int \X Int, pushed : BOOLEAN]

(* What holds of its accumulator after the first i segments.                *)
MergeInv(segs, f, t, i, acc) ==
  /\ acc \in MergeAcc /\ acc.new[1] < acc.new[2] /\ Canonical(acc.out)
  /\ \A j \in 1 .. Len(acc.out), k \in i + 1 .. Len(segs) : acc.out[j][2] < segs[k][1]
  /\ ~acc.pushed => \A j \in 1 .. Len(acc.out) : acc.out[j][2] < acc.new[1]
  /\ acc.pushed => \A k \in i + 1 .. Len(segs) : acc.new[2] < segs[k][1]
  /\ \A x \in Int :
        In(x, acc.out) \/ (~acc.pushed /\ acc.new[1] <= x /\ x < acc.new[2])
          <=> InUpTo(x, segs, i) \/ (f <= x /\ x < t)

LEMMA MergeInvStep ==
  ASSUME NEW segs \in Intervals, Canonical(segs), NEW f \in Int, NEW t \in Int,
         NEW i \in 1 .. Len(segs), NEW acc, MergeInv(segs, f, t, i - 1, acc)
  PROVE  MergeInv(segs, f, t, i, MergeStep(acc, segs[i]))
  <1> DEFINE a == acc.new[1]
             b == acc.new[2]
             c == segs[i][1]
             d == segs[i][2]
  <1>1. /\ c \in Int /\ d \in Int /\ c < d /\ segs[i] = <<c, d>>
        /\ \A k \in i + 1 .. Len(segs) : d < segs[k][1] /\ segs[k][1] \in Int
        /\ Len(segs) \in Nat
    BY CanonicalIs
  <1>2. /\ acc \in MergeAcc /\ a < b /\ Canonical(acc.out)
        /\ \A j \in 1 .. Len(acc.out) : acc.out[j][2] < c
        /\ ~acc.pushed => \A j \in 1 .. Len(acc.out) : acc.out[j][2] < a
        /\ acc.pushed => b < c
        /\ \A x \in Int :
              In(x, acc.out) \/ (~acc.pushed /\ a <= x /\ x < b)
                <=> InUpTo(x, segs, i - 1) \/ (f <= x /\ x < t)
    <2>1. i \in (i - 1) + 1 .. Len(segs)
      OBVIOUS
    <2> QED
      BY <2>1 DEF MergeInv
  <1>3. /\ acc.out \in Intervals /\ a \in Int /\ b \in Int /\ acc.new = <<a, b>>
        /\ acc.pushed \in BOOLEAN /\ Len(acc.out) \in Nat
        /\ \A j \in 1 .. Len(acc.out) : acc.out[j][2] \in Int
        /\ \A j \in 1 .. Len(acc.out) : acc.out[j][1] \in Int
    <2>1. acc.out \in Intervals /\ acc.new \in Int \X Int /\ acc.pushed \in BOOLEAN
      BY <1>2 DEF MergeAcc
    <2> QED
      BY <2>1, CanonicalIs
  <1>4. \A x : InUpTo(x, segs, i) <=> InUpTo(x, segs, i - 1) \/ (c <= x /\ x < d)
    BY InNext
  <1> HIDE DEF a, b, c, d
  <1>5. CASE d < a
    <2>1. MergeStep(acc, segs[i]) = [acc EXCEPT !.out = Append(@, <<c, d>>)]
      BY <1>1, <1>5 DEF MergeStep, a, d
    <2>2. ~acc.pushed
      BY <1>1, <1>2, <1>3, <1>5
    <2> DEFINE app == Append(acc.out, <<c, d>>)
    <2>3. /\ app \in Intervals
          /\ Len(app) = Len(acc.out) + 1
          /\ app[Len(acc.out) + 1] = <<c, d>>
          /\ \A j \in 1 .. Len(acc.out) : app[j] = acc.out[j]
          /\ Canonical(app)
          /\ \A x \in Int : In(x, app) <=> In(x, acc.out) \/ (c <= x /\ x < d)
      <3>1. \A j \in 1 .. Len(acc.out) : acc.out[j][2] < c
        BY <1>2
      <3>2. acc.out \in Intervals /\ Canonical(acc.out) /\ c \in Int /\ d \in Int /\ c < d
        BY <1>1, <1>2, <1>3
      <3> HIDE DEF app
      <3>3. app = Append(acc.out, <<c, d>>)
        BY DEF app
      <3>4. app \in Intervals /\ Canonical(app)
        BY <3>1, <3>2, <3>3, CanonicalAppend
      <3>5. Len(app) = Len(acc.out) + 1 /\ app[Len(acc.out) + 1] = <<c, d>>
        BY <3>1, <3>2, <3>3, CanonicalAppend
      <3>6. \A j \in 1 .. Len(acc.out) : app[j] = acc.out[j]
        BY <3>1, <3>2, <3>3, CanonicalAppend
      <3>7. \A x \in Int : In(x, app) <=> In(x, acc.out) \/ (c <= x /\ x < d)
        BY <3>1, <3>2, <3>3, CanonicalAppend
      <3> QED
        BY <3>4, <3>5, <3>6, <3>7
    <2>4. PICK new : new = MergeStep(acc, segs[i]) /\ new \in MergeAcc
                     /\ new.out = app /\ new.new = acc.new /\ new.pushed = FALSE
      BY <1>2, <1>3, <2>1, <2>2, <2>3 DEF MergeAcc
    <2> HIDE DEF app
    <2>5. ASSUME NEW j \in 1 .. Len(app)
          PROVE  app[j][2] <= d /\ app[j][2] < a /\ app[j][2] \in Int
      <3>1. CASE j = Len(acc.out) + 1
        BY <1>1, <1>5, <2>3, <3>1
      <3>2. CASE j \in 1 .. Len(acc.out)
        <4>1. app[j] = acc.out[j] /\ acc.out[j][2] < a /\ acc.out[j][2] < c /\ acc.out[j][2] \in Int
          BY <1>2, <1>3, <2>2, <2>3, <3>2
        <4> QED
          BY <1>1, <4>1
      <3>3. j \in 1 .. Len(acc.out) \/ j = Len(acc.out) + 1
        BY <1>3, <2>3
      <3> QED
        BY <3>1, <3>2, <3>3
    <2>6. ASSUME NEW j \in 1 .. Len(app), NEW k \in i + 1 .. Len(segs)
          PROVE  app[j][2] < segs[k][1]
      <3>1. app[j][2] \in Int /\ app[j][2] <= d
        BY <2>5
      <3>2. d \in Int /\ segs[k][1] \in Int /\ d < segs[k][1]
        BY <1>1
      <3> QED
        BY <3>1, <3>2
    <2>7. ASSUME NEW x \in Int
          PROVE  In(x, app) \/ (a <= x /\ x < b) <=> InUpTo(x, segs, i) \/ (f <= x /\ x < t)
      BY <1>2, <1>4, <2>2, <2>3
    <2>8. MergeInv(segs, f, t, i, new)
      BY <1>2, <2>3, <2>4, <2>5, <2>6, <2>7 DEF MergeInv, a, b
    <2> QED
      BY <2>4, <2>8
  <1>6. CASE ~(d < a) /\ c > b
    <2> DEFINE mid == IF acc.pushed THEN acc.out ELSE Append(acc.out, <<a, b>>)
               app == Append(mid, <<c, d>>)
    <2>1. MergeStep(acc, segs[i]) = [acc EXCEPT !.out = app, !.pushed = TRUE]
      BY <1>1, <1>2, <1>3, <1>6 DEF MergeStep, MergeAcc, a, b, c, d
    <2>2. /\ mid \in Intervals /\ Canonical(mid)
          /\ \A j \in 1 .. Len(mid) : mid[j][2] < c
          /\ \A x \in Int : In(x, mid) <=> InUpTo(x, segs, i - 1) \/ (f <= x /\ x < t)
      <3>1. CASE acc.pushed
        BY <1>2, <1>3, <3>1
      <3>2. CASE ~acc.pushed
        <4>1. /\ mid \in Intervals
              /\ Len(mid) = Len(acc.out) + 1
              /\ mid[Len(acc.out) + 1] = <<a, b>>
              /\ \A j \in 1 .. Len(acc.out) : mid[j] = acc.out[j]
              /\ Canonical(mid)
              /\ \A x \in Int : In(x, mid) <=> In(x, acc.out) \/ (a <= x /\ x < b)
          <5>1. mid = Append(acc.out, <<a, b>>)
            BY <3>2
          <5> HIDE DEF mid
          <5>2. \A j \in 1 .. Len(acc.out) : acc.out[j][2] < a
            BY <1>2, <3>2
          <5>3. acc.out \in Intervals /\ Canonical(acc.out) /\ a \in Int /\ b \in Int /\ a < b
            BY <1>2, <1>3
          <5>4. mid \in Intervals /\ Canonical(mid)
            BY <5>1, <5>2, <5>3, CanonicalAppend
          <5>5. Len(mid) = Len(acc.out) + 1 /\ mid[Len(acc.out) + 1] = <<a, b>>
            BY <5>1, <5>2, <5>3, CanonicalAppend
          <5>6. \A j \in 1 .. Len(acc.out) : mid[j] = acc.out[j]
            BY <5>1, <5>2, <5>3, CanonicalAppend
          <5>7. \A x \in Int : In(x, mid) <=> In(x, acc.out) \/ (a <= x /\ x < b)
            BY <5>1, <5>2, <5>3, CanonicalAppend
          <5> QED
            BY <5>4, <5>5, <5>6, <5>7
        <4> HIDE DEF mid
        <4>2. ASSUME NEW j \in 1 .. Len(mid) PROVE mid[j][2] < c
          <5>1. CASE j = Len(acc.out) + 1
            BY <1>3, <1>6, <4>1, <5>1
          <5>2. CASE j \in 1 .. Len(acc.out)
            BY <1>2, <4>1, <5>2
          <5>3. j \in 1 .. Len(acc.out) \/ j = Len(acc.out) + 1
            BY <1>3, <4>1
          <5> QED
            BY <5>1, <5>2, <5>3
        <4> QED
          BY <1>2, <3>2, <4>1, <4>2
      <3> QED
        BY <3>1, <3>2
    <2> HIDE DEF mid
    <2>3. /\ app \in Intervals /\ Canonical(app) /\ Len(app) = Len(mid) + 1
          /\ app[Len(mid) + 1] = <<c, d>>
          /\ \A j \in 1 .. Len(mid) : app[j] = mid[j]
          /\ \A x \in Int : In(x, app) <=> In(x, mid) \/ (c <= x /\ x < d)
      BY <1>1, <2>2, CanonicalAppend
    <2>4. PICK new : new = MergeStep(acc, segs[i]) /\ new \in MergeAcc
                     /\ new.out = app /\ new.new = acc.new /\ new.pushed = TRUE
      BY <1>2, <2>1, <2>3 DEF MergeAcc
    <2> HIDE DEF app
    <2>5. Len(mid) \in Nat /\ \A j \in 1 .. Len(mid) : mid[j][2] \in Int
      BY <2>2, CanonicalIs
    <2>6. ASSUME NEW j \in 1 .. Len(app) PROVE app[j][2] <= d /\ app[j][2] \in Int
      <3>1. CASE j = Len(mid) + 1
        BY <1>1, <2>3, <3>1
      <3>2. CASE j \in 1 .. Len(mid)
        <4>1. app[j] = mid[j] /\ mid[j][2] < c /\ mid[j][2] \in Int
          BY <2>2, <2>3, <2>5, <3>2
        <4>2. c \in Int /\ d \in Int /\ c < d
          BY <1>1
        <4> QED
          BY <4>1, <4>2
      <3>3. j \in 1 .. Len(mid) \/ j = Len(mid) + 1
        BY <2>3, <2>5
      <3> QED
        BY <3>1, <3>2, <3>3
    <2>7. ASSUME NEW j \in 1 .. Len(app), NEW k \in i + 1 .. Len(segs)
          PROVE  app[j][2] < segs[k][1]
      <3>1. app[j][2] \in Int /\ app[j][2] <= d
        BY <2>6
      <3>2. d \in Int /\ segs[k][1] \in Int /\ d < segs[k][1]
        BY <1>1
      <3> QED
        BY <3>1, <3>2
    <2>8. \A k \in i + 1 .. Len(segs) : b < segs[k][1]
      BY <1>1, <1>3, <1>6
    <2>9. ASSUME NEW x \in Int
          PROVE  In(x, app) <=> InUpTo(x, segs, i) \/ (f <= x /\ x < t)
      BY <1>4, <2>2, <2>3
    <2>10. MergeInv(segs, f, t, i, new)
      BY <1>2, <2>3, <2>4, <2>7, <2>8, <2>9 DEF MergeInv, a, b
    <2> QED
      BY <2>4, <2>10
  <1>7. CASE ~(d < a) /\ ~(c > b)
    <2> DEFINE lo == Lower(a, c)
               hi == Upper(b, d)
    <2>1. MergeStep(acc, segs[i]) = [acc EXCEPT !.new = <<lo, hi>>]
      BY <1>1, <1>3, <1>7 DEF MergeStep, a, b, c, d
    <2>2. ~acc.pushed
      BY <1>2, <1>3, <1>7
    <2>3. /\ lo \in Int /\ hi \in Int /\ lo < hi /\ lo \in {a, c}
          /\ \A x \in Int : lo <= x /\ x < hi <=> (a <= x /\ x < b) \/ (c <= x /\ x < d)
      <3>1. a \in Int /\ b \in Int /\ c \in Int /\ d \in Int /\ a < b /\ c < d /\ a <= d /\ c <= b
        BY <1>1, <1>2, <1>3, <1>7
      <3>2. lo = (IF a <= c THEN a ELSE c) /\ hi = (IF b >= d THEN b ELSE d)
        BY DEF Lower, Upper
      <3> HIDE DEF lo, hi
      <3> QED
        BY <3>1, <3>2
    <2> HIDE DEF lo, hi
    <2>4. PICK new : new = MergeStep(acc, segs[i]) /\ new \in MergeAcc
                     /\ new.out = acc.out /\ new.new = <<lo, hi>> /\ new.pushed = FALSE
      BY <1>2, <1>3, <2>1, <2>2, <2>3 DEF MergeAcc
    <2>5. new.new[1] = lo /\ new.new[2] = hi
      BY <2>4
    <2>6. \A j \in 1 .. Len(acc.out) : acc.out[j][2] < lo
      BY <1>2, <2>2, <2>3
    <2>7. ASSUME NEW j \in 1 .. Len(acc.out), NEW k \in i + 1 .. Len(segs)
          PROVE  acc.out[j][2] < segs[k][1]
      <3>1. c \in Int /\ c < segs[k][1] /\ segs[k][1] \in Int
        BY <1>1
      <3>2. acc.out[j][2] \in Int /\ acc.out[j][2] < c
        BY <1>2, <1>3
      <3> QED
        BY <3>1, <3>2, LessTransitive, Zenon
    <2>8. ASSUME NEW x \in Int
          PROVE  In(x, acc.out) \/ (lo <= x /\ x < hi)
                   <=> InUpTo(x, segs, i) \/ (f <= x /\ x < t)
      BY <1>2, <1>4, <2>2, <2>3
    <2>9. MergeInv(segs, f, t, i, new)
      BY <1>2, <2>3, <2>4, <2>5, <2>6, <2>7, <2>8 DEF MergeInv
    <2> QED
      BY <2>4, <2>9
  <1> QED
    BY <1>5, <1>6, <1>7

LEMMA MergeInIs ==
  ASSUME NEW segs, NEW f, NEW t
  PROVE  merge_in(segs, f, t) =
           LET end == MergeEnd([out |-> << >>, new |-> <<f, t>>, pushed |-> FALSE], segs)
           IN  IF t <= f THEN segs
               ELSE IF end.pushed THEN end.out ELSE Append(end.out, end.new)
  BY Zenon DEF merge_in, MergeEnd

(***************************************************************************)
(* merge_in keeps a document canonical and adds to it exactly the interval  *)
(* it is given, for every canonical document and every interval.            *)
(***************************************************************************)
THEOREM MergeInExact ==
  ASSUME NEW segs \in Intervals, Canonical(segs), NEW f \in Int, NEW t \in Int
  PROVE  /\ merge_in(segs, f, t) \in Intervals
         /\ Canonical(merge_in(segs, f, t))
         /\ Spans(merge_in(segs, f, t)) = Spans(segs) \cup Span(f, t)
  <1> DEFINE base == [out |-> << >>, new |-> <<f, t>>, pushed |-> FALSE]
             end == MergeEnd(base, segs)
             merged == merge_in(segs, f, t)
  <1> HIDE DEF end
  <1>1. merged = IF t <= f THEN segs
                 ELSE IF end.pushed THEN end.out ELSE Append(end.out, end.new)
    BY MergeInIs, Zenon DEF end
  <1>2. \A x : x \in Span(f, t) <=> x \in Int /\ f <= x /\ x < t
    BY DEF Span
  <1> HIDE DEF merged
  <1>3. CASE t <= f
    <2>1. merged = segs /\ Span(f, t) = {}
      BY <1>1, <1>3 DEF Span
    <2> QED
      BY <2>1 DEF merged
  <1>4. CASE f < t
    <2>1. Len(segs) \in Nat
      BY DEF Intervals
    <2>2. PICK g : Steps("merge", 0, base, segs, g) /\ end = g[Len(segs)]
      <3>1. segs \in Seq(Int \X Int)
        BY DEF Intervals
      <3> QED
        BY <3>1, MergeFold DEF end
    <2> DEFINE Fine == {i \in 0 .. Len(segs) : MergeInv(segs, f, t, i, g[i])}
    <2>3. 0 \in Fine
      <3>1. /\ base \in MergeAcc /\ base.out = << >> /\ base.new[1] = f /\ base.new[2] = t
            /\ base.pushed = FALSE
        BY CanonicalEmpty DEF MergeAcc
      <3>2. \A x : ~InUpTo(x, segs, 0)
        BY DEF InUpTo
      <3>3. g[0] = base
        BY <2>2 DEF Steps
      <3> HIDE DEF base
      <3>4. MergeInv(segs, f, t, 0, base)
        BY <1>4, <3>1, <3>2, CanonicalEmpty DEF MergeInv
      <3> QED
        BY <2>1, <3>3, <3>4
    <2>4. ASSUME NEW i \in 0 .. Len(segs) - 1, i \in Fine PROVE i + 1 \in Fine
      <3>1. i + 1 \in 1 .. Len(segs) /\ (i + 1) - 1 = i
        BY <2>1
      <3>2. g[i + 1] = MergeStep(g[i], segs[i + 1])
        BY <2>2, <3>1 DEF Steps, FoldStep
      <3>3. MergeInv(segs, f, t, (i + 1) - 1, g[i])
        BY <2>4, <3>1
      <3>4. MergeInv(segs, f, t, i + 1, MergeStep(g[i], segs[i + 1]))
        BY <3>1, <3>3, MergeInvStep
      <3> QED
        BY <2>1, <3>1, <3>2, <3>4
    <2>5. MergeInv(segs, f, t, Len(segs), end)
      <3> HIDE DEF Fine
      <3>1. \A i \in 0 .. Len(segs) : i \in Fine
        BY <2>1, <2>3, <2>4, SetInduction
      <3> QED
        BY <2>1, <2>2, <3>1 DEF Fine
    <2>6. merged = IF end.pushed THEN end.out ELSE Append(end.out, end.new)
      BY <1>1, <1>4
    <2>7. /\ end \in MergeAcc /\ end.new[1] < end.new[2] /\ Canonical(end.out)
          /\ ~end.pushed => \A j \in 1 .. Len(end.out) : end.out[j][2] < end.new[1]
          /\ \A x \in Int :
                In(x, end.out) \/ (~end.pushed /\ end.new[1] <= x /\ x < end.new[2])
                  <=> In(x, segs) \/ (f <= x /\ x < t)
      BY <2>5 DEF MergeInv, In
    <2>8. /\ end.out \in Intervals /\ end.pushed \in BOOLEAN /\ end.new = <<end.new[1], end.new[2]>>
          /\ end.new[1] \in Int /\ end.new[2] \in Int
      BY <2>7 DEF MergeAcc
    <2>9. /\ merged \in Intervals /\ Canonical(merged)
          /\ \A x \in Int : In(x, merged) <=> In(x, segs) \/ (f <= x /\ x < t)
      <3>1. CASE end.pushed
        BY <2>6, <2>7, <2>8, <3>1
      <3>2. CASE ~end.pushed
        <4>1. /\ merged = Append(end.out, <<end.new[1], end.new[2]>>)
              /\ merged \in Intervals /\ Canonical(merged)
              /\ \A x \in Int : In(x, merged)
                    <=> In(x, end.out) \/ (end.new[1] <= x /\ x < end.new[2])
          <5>1. merged = Append(end.out, <<end.new[1], end.new[2]>>)
            BY <2>6, <2>8, <3>2
          <5>2. \A j \in 1 .. Len(end.out) : end.out[j][2] < end.new[1]
            BY <2>7, <3>2
          <5>3. /\ end.out \in Intervals /\ Canonical(end.out)
                /\ end.new[1] \in Int /\ end.new[2] \in Int /\ end.new[1] < end.new[2]
            BY <2>7, <2>8
          <5> QED
            BY <5>1, <5>2, <5>3, CanonicalAppend
        <4> QED
          BY <2>7, <3>2, <4>1
      <3> QED
        BY <3>1, <3>2
    <2>10. Spans(merged) = Spans(segs) \cup Span(f, t)
      BY <1>2, <2>9, SpansIn
    <2> QED
      BY <2>9, <2>10 DEF merged
  <1> QED
    BY <1>3, <1>4

-----------------------------------------------------------------------------
(* tile.                                                                    *)

Piece == [kind : {"covered", "gap"}, from : Int, to : Int]

(* A gap of the tiling is one of the request's gaps; a covered piece meets  *)
(* none of them.                                                            *)
PieceOK(p, gaps) ==
  /\ p.kind = "gap" => \E m \in 1 .. Len(gaps) : gaps[m][1] = p.from /\ gaps[m][2] = p.to
  /\ p.kind = "covered" => \A x \in Int : p.from <= x /\ x < p.to => ~In(x, gaps)

(* The pieces of out tile [f, c) in order.                                  *)
Tiles(out, f, c, gaps) ==
  /\ out \in Seq(Piece) /\ c \in Int /\ f <= c
  /\ Len(out) = 0 => c = f
  /\ Len(out) > 0 => out[1].from = f /\ out[Len(out)].to = c
  /\ \A j \in 1 .. Len(out) :
        f <= out[j].from /\ out[j].from < out[j].to /\ out[j].to <= c /\ PieceOK(out[j], gaps)
  /\ \A j, k \in 1 .. Len(out) : j < k => out[j].to <= out[k].from
  /\ \A j \in 1 .. Len(out) - 1 : out[j].to = out[j + 1].from
  /\ \A x \in Int : f <= x /\ x < c => \E j \in 1 .. Len(out) : out[j].from <= x /\ x < out[j].to

LEMMA TilesAppend ==
  ASSUME NEW gaps, NEW f \in Int, NEW c, NEW d \in Int, NEW k \in {"covered", "gap"}, NEW out,
         Tiles(out, f, c, gaps), c < d, PieceOK(Segment(k, c, d), gaps),
         NEW app, app = Append(out, Segment(k, c, d))
  PROVE  Tiles(app, f, d, gaps)
  <1> DEFINE p == Segment(k, c, d)
             n == Len(out)
  <1>1. /\ out \in Seq(Piece) /\ c \in Int /\ f <= c /\ n \in Nat
        /\ n = 0 => c = f
        /\ n > 0 => out[1].from = f /\ out[n].to = c
        /\ \A j \in 1 .. n :
              f <= out[j].from /\ out[j].from < out[j].to /\ out[j].to <= c /\ PieceOK(out[j], gaps)
        /\ \A j, m \in 1 .. n : j < m => out[j].to <= out[m].from
        /\ \A j \in 1 .. n - 1 : out[j].to = out[j + 1].from
        /\ \A x \in Int : f <= x /\ x < c => \E j \in 1 .. n : out[j].from <= x /\ x < out[j].to
    BY DEF Tiles
  <1>2. p \in Piece /\ p.kind = k /\ p.from = c /\ p.to = d
    BY <1>1 DEF Segment, Piece
  <1>3. /\ app \in Seq(Piece) /\ Len(app) = n + 1 /\ app[n + 1] = p
        /\ \A j \in 1 .. n : app[j] = out[j]
    BY <1>1, <1>2
  <1>4. \A j \in 1 .. n : out[j] \in Piece /\ out[j].from \in Int /\ out[j].to \in Int
    <2>1. ASSUME NEW j \in 1 .. n PROVE out[j] \in Piece
      BY <1>1
    <2>2. ASSUME NEW q \in Piece PROVE q.from \in Int /\ q.to \in Int
      BY DEF Piece
    <2> QED
      BY <2>1, <2>2
  <1>5. PieceOK(p, gaps)
    OBVIOUS
  <1> HIDE DEF p, n
  <1>6. \A j \in 1 .. n + 1 : j = n + 1 \/ j \in 1 .. n
    BY <1>1
  <1>7. app[1].from = f /\ app[n + 1].to = d
    <2>1. CASE n = 0
      BY <1>1, <1>2, <1>3, <2>1
    <2>2. CASE n > 0
      <3>1. 1 \in 1 .. n
        BY <1>1, <2>2
      <3> QED
        BY <1>1, <1>2, <1>3, <2>2, <3>1
    <2>3. n = 0 \/ n > 0
      BY <1>1
    <2> QED
      BY <2>1, <2>2, <2>3
  <1>8. ASSUME NEW j \in 1 .. n + 1
        PROVE  f <= app[j].from /\ app[j].from < app[j].to /\ app[j].to <= d /\ PieceOK(app[j], gaps)
    <2>1. CASE j = n + 1
      BY <1>1, <1>2, <1>3, <1>5, <2>1
    <2>2. CASE j \in 1 .. n
      BY <1>1, <1>3, <1>4, <2>2
    <2> QED
      BY <1>6, <2>1, <2>2
  <1>9. ASSUME NEW j \in 1 .. n + 1, NEW m \in 1 .. n + 1, j < m
        PROVE  app[j].to <= app[m].from
    <2>1. j \in 1 .. n
      BY <1>1, <1>9
    <2>2. CASE m = n + 1
      BY <1>1, <1>2, <1>3, <2>1, <2>2
    <2>3. CASE m \in 1 .. n
      BY <1>1, <1>3, <1>9, <2>1, <2>3
    <2> QED
      BY <1>6, <2>2, <2>3
  <1>10. ASSUME NEW j \in 1 .. n PROVE app[j].to = app[j + 1].from
    <2>1. CASE j = n
      BY <1>1, <1>2, <1>3, <2>1
    <2>2. CASE j # n
      <3>1. j \in 1 .. n - 1 /\ j + 1 \in 1 .. n
        BY <1>1, <2>2
      <3> QED
        BY <1>1, <1>3, <3>1
    <2> QED
      BY <2>1, <2>2
  <1>11. ASSUME NEW x \in Int, f <= x, x < d
         PROVE  \E j \in 1 .. n + 1 : app[j].from <= x /\ x < app[j].to
    <2>1. CASE x < c
      <3>1. PICK j \in 1 .. n : out[j].from <= x /\ x < out[j].to
        BY <1>1, <1>11, <2>1
      <3>2. j \in 1 .. n + 1
        BY <1>1
      <3> QED
        BY <1>3, <3>1, <3>2
    <2>2. CASE ~(x < c)
      <3>1. n + 1 \in 1 .. n + 1 /\ c <= x
        BY <1>1, <2>2
      <3> QED
        BY <1>2, <1>3, <1>11, <3>1
    <2> QED
      BY <2>1, <2>2
  <1>12. f <= d /\ n + 1 > 0 /\ n + 1 # 0 /\ (n + 1) - 1 = n
    BY <1>1
  <1> QED
    BY <1>3, <1>7, <1>8, <1>9, <1>10, <1>11, <1>12 DEF Tiles

LEMMA TilesWide ==
  ASSUME NEW gaps, NEW f \in Int, NEW c, NEW d \in Int, NEW k \in {"covered", "gap"}, NEW out,
         Tiles(out, f, c, gaps), c <= d, c < d => PieceOK(Segment(k, c, d), gaps)
  PROVE  Tiles(out \o WhenWide(Segment(k, c, d)), f, d, gaps)
  <1>1. out \in Seq(Piece) /\ c \in Int
    BY DEF Tiles
  <1>2. Segment(k, c, d).from = c /\ Segment(k, c, d).to = d /\ Segment(k, c, d) \in Piece
    BY <1>1 DEF Segment, Piece
  <1>3. CASE c < d
    <2>1. WhenWide(Segment(k, c, d)) = <<Segment(k, c, d)>>
      BY <1>1, <1>2, <1>3 DEF WhenWide
    <2>2. out \o <<Segment(k, c, d)>> = Append(out, Segment(k, c, d))
      BY <1>1, <1>2
    <2> QED
      BY <1>3, <2>1, <2>2, TilesAppend
  <1>4. CASE c = d
    <2>1. WhenWide(Segment(k, c, d)) = << >>
      BY <1>1, <1>2, <1>4 DEF WhenWide
    <2>2. out \o << >> = out
      BY <1>1
    <2> QED
      BY <1>4, <2>1, <2>2
  <1> QED
    BY <1>1, <1>3, <1>4

(* What holds of tile's accumulator after the first i gaps.                 *)
TileInv(gaps, f, i, acc) ==
  Tiles(acc.out, f, acc.cursor, gaps) /\ acc.cursor = IF i = 0 THEN f ELSE gaps[i][2]

LEMMA TileInvStep ==
  ASSUME NEW gaps \in Intervals, Canonical(gaps), NEW f \in Int,
         \A j \in 1 .. Len(gaps) : f <= gaps[j][1],
         NEW i \in 1 .. Len(gaps), NEW acc, TileInv(gaps, f, i - 1, acc)
  PROVE  TileInv(gaps, f, i, TileStep(acc, gaps[i]))
  <1> DEFINE a == gaps[i][1]
             b == gaps[i][2]
             c == acc.cursor
             mid == acc.out \o WhenWide(Segment("covered", c, a))
             app == mid \o WhenWide(Segment("gap", a, b))
  <1>1. /\ a \in Int /\ b \in Int /\ a < b /\ f <= a /\ Len(gaps) \in Nat
        /\ \A j \in 1 .. Len(gaps) : gaps[j][1] \in Int /\ gaps[j][2] \in Int /\ gaps[j][1] < gaps[j][2]
        /\ \A j, m \in 1 .. Len(gaps) : j < m => gaps[j][2] < gaps[m][1]
    BY CanonicalIs
  <1>2. c \in Int /\ Tiles(acc.out, f, c, gaps) /\ c = IF i = 1 THEN f ELSE gaps[i - 1][2]
    BY DEF TileInv, Tiles
  <1>3. c <= a
    <2>1. CASE i = 1
      BY <1>1, <1>2, <2>1
    <2>2. CASE i # 1
      <3>1. i - 1 \in 1 .. Len(gaps) /\ i - 1 < i
        BY <1>1, <2>2
      <3> QED
        BY <1>1, <1>2, <2>2, <3>1
    <2> QED
      BY <2>1, <2>2
  <1>4. PieceOK(Segment("covered", c, a), gaps)
    <2>1. ASSUME NEW x \in Int, c <= x, x < a, NEW j \in 1 .. Len(gaps)
          PROVE  ~(gaps[j][1] <= x /\ x < gaps[j][2])
      <3>1. CASE j >= i
        <4>1. a <= gaps[j][1]
          BY <1>1, <3>1
        <4> QED
          BY <1>1, <2>1, <4>1
      <3>2. CASE j < i
        <4>1. i - 1 \in 1 .. Len(gaps) /\ i # 1 /\ (j = i - 1 \/ j < i - 1)
          BY <1>1, <3>2
        <4>2. gaps[j][2] <= c
          <5>1. c = gaps[i - 1][2]
            BY <1>2, <4>1
          <5>2. j < i - 1 => gaps[j][2] < gaps[i - 1][1]
            BY <1>1, <4>1
          <5>3. gaps[i - 1][1] < gaps[i - 1][2] /\ gaps[i - 1][1] \in Int /\ gaps[j][2] \in Int
            BY <1>1, <4>1
          <5>4. CASE j = i - 1
            BY <5>1, <5>3, <5>4
          <5>5. CASE j < i - 1
            BY <1>2, <5>1, <5>2, <5>3, <5>5, LessTransitive, Zenon
          <5> QED
            BY <4>1, <5>4, <5>5
        <4>3. gaps[j][2] \in Int
          BY <1>1
        <4> QED
          BY <1>2, <2>1, <4>2, <4>3
      <3> QED
        BY <3>1, <3>2
    <2>2. ASSUME NEW x \in Int, c <= x, x < a PROVE ~In(x, gaps)
      BY <2>1, <2>2 DEF In, InUpTo
    <2> HIDE DEF a, c
    <2> QED
      BY <2>2 DEF PieceOK, Segment
  <1>5. PieceOK(Segment("gap", a, b), gaps)
    BY DEF PieceOK, Segment
  <1>6. Tiles(mid, f, a, gaps)
    BY <1>1, <1>2, <1>3, <1>4, TilesWide
  <1>7. Tiles(app, f, b, gaps)
    <2> HIDE DEF mid, a, b
    <2>1. a <= b
      BY <1>1
    <2> QED
      BY <1>1, <1>5, <1>6, <2>1, TilesWide
  <1>8. Upper(c, b) = b
    BY <1>1, <1>2, <1>3 DEF Upper
  <1>9. TileStep(acc, gaps[i]) = [out |-> app, cursor |-> b]
    BY <1>8 DEF TileStep
  <1> HIDE DEF app, a, c
  <1>10. i # 0
    OBVIOUS
  <1> QED
    BY <1>7, <1>9, <1>10 DEF TileInv

LEMMA TileIs ==
  ASSUME NEW gaps, NEW f, NEW t
  PROVE  tile(f, t, gaps) =
           LET end == TileEnd([out |-> << >>, cursor |-> f], gaps)
           IN  end.out \o WhenWide(Segment("covered", end.cursor, t))
  BY Zenon DEF tile, TileEnd

(***************************************************************************)
(* tile cuts any request into an unbroken, ordered sequence of non-empty    *)
(* pieces from its beginning to its end: its gaps are the gaps it is given, *)
(* its covered pieces meet none of them.                                    *)
(***************************************************************************)
THEOREM TileExact ==
  ASSUME NEW gaps \in Intervals, Canonical(gaps), NEW f \in Int, NEW t \in Int, f <= t,
         \A j \in 1 .. Len(gaps) : f <= gaps[j][1] /\ gaps[j][2] <= t
  PROVE  Tiles(tile(f, t, gaps), f, t, gaps)
  <1> DEFINE base == [out |-> << >>, cursor |-> f]
             end == TileEnd(base, gaps)
  <1> HIDE DEF end
  <1>1. tile(f, t, gaps) = end.out \o WhenWide(Segment("covered", end.cursor, t))
    BY TileIs, Zenon DEF end
  <1>2. Len(gaps) \in Nat
    BY DEF Intervals
  <1>3. PICK g : Steps("tile", 0, base, gaps, g) /\ end = g[Len(gaps)]
    <2>1. gaps \in Seq(Int \X Int)
      BY DEF Intervals
    <2> QED
      BY <2>1, TileFold DEF end
  <1> DEFINE Fine == {i \in 0 .. Len(gaps) : TileInv(gaps, f, i, g[i])}
  <1>4. 0 \in Fine
    <2>1. Tiles(<< >>, f, f, gaps)
      BY DEF Tiles
    <2>2. base.out = << >> /\ base.cursor = f
      OBVIOUS
    <2>3. g[0] = base
      BY <1>3 DEF Steps
    <2> HIDE DEF base
    <2>4. TileInv(gaps, f, 0, base)
      BY <2>1, <2>2 DEF TileInv
    <2> QED
      BY <1>2, <2>3, <2>4
  <1>5. ASSUME NEW i \in 0 .. Len(gaps) - 1, i \in Fine PROVE i + 1 \in Fine
    <2>1. i + 1 \in 1 .. Len(gaps) /\ (i + 1) - 1 = i
      BY <1>2
    <2>2. g[i + 1] = TileStep(g[i], gaps[i + 1])
      BY <1>3, <2>1 DEF Steps, FoldStep
    <2>3. TileInv(gaps, f, (i + 1) - 1, g[i])
      BY <1>5, <2>1
    <2>4. TileInv(gaps, f, i + 1, TileStep(g[i], gaps[i + 1]))
      BY <2>1, <2>3, TileInvStep
    <2> QED
      BY <1>2, <2>1, <2>2, <2>4
  <1>6. TileInv(gaps, f, Len(gaps), end)
    <2> HIDE DEF Fine
    <2>1. \A i \in 0 .. Len(gaps) : i \in Fine
      BY <1>2, <1>4, <1>5, SetInduction
    <2> QED
      BY <1>2, <1>3, <2>1 DEF Fine
  <1>7. end.cursor \in Int /\ end.cursor <= t /\ Tiles(end.out, f, end.cursor, gaps)
    <2>1. Len(gaps) = 0 \/ Len(gaps) \in 1 .. Len(gaps)
      BY <1>2
    <2> QED
      BY <1>6, <2>1 DEF TileInv, Tiles
  <1>8. PieceOK(Segment("covered", end.cursor, t), gaps)
    <2>1. ASSUME NEW x \in Int, end.cursor <= x, NEW j \in 1 .. Len(gaps)
          PROVE  ~(gaps[j][1] <= x /\ x < gaps[j][2])
      <3>1. gaps[j][2] <= end.cursor
        <4>1. end.cursor = gaps[Len(gaps)][2]
          BY <1>2, <1>6 DEF TileInv
        <4>2. j = Len(gaps) \/ (j < Len(gaps) /\ Len(gaps) \in 1 .. Len(gaps))
          BY <1>2
        <4> QED
          BY <4>1, <4>2, CanonicalIs
      <3> QED
        BY <1>7, <2>1, <3>1, CanonicalIs
    <2>2. ASSUME NEW x \in Int, end.cursor <= x PROVE ~In(x, gaps)
      BY <2>1, <2>2 DEF In, InUpTo
    <2> QED
      BY <2>2 DEF PieceOK, Segment
  <1> QED
    BY <1>1, <1>7, <1>8, TilesWide

-----------------------------------------------------------------------------
(* intersect.                                                               *)

(* The overlap of a segment with [f, t), and its width.                     *)
OverlapFrom(seg, f) == Upper(seg[1], f)
OverlapTo(seg, t) == Lower(seg[2], t)
OverlapWidth(seg, f, t) == OverlapTo(seg, t) - OverlapFrom(seg, f)

(* best is the widest of the overlaps of the first i segments.              *)
IntersectInv(segs, f, t, i, best) ==
  \/ best = << >> /\ \A j \in 1 .. i : OverlapWidth(segs[j], f, t) <= 0
  \/ \E j \in 1 .. i :
       /\ best = <<OverlapFrom(segs[j], f), OverlapTo(segs[j], t)>>
       /\ 0 < OverlapWidth(segs[j], f, t)
       /\ \A k \in 1 .. i : OverlapWidth(segs[k], f, t) <= OverlapWidth(segs[j], f, t)

LEMMA OverlapIs ==
  ASSUME NEW segs \in Intervals, NEW f \in Int, NEW t \in Int, NEW j \in 1 .. Len(segs)
  PROVE  /\ OverlapFrom(segs[j], f) \in Int /\ OverlapTo(segs[j], t) \in Int
         /\ OverlapWidth(segs[j], f, t) \in Int
         /\ OverlapWidth(segs[j], f, t) = OverlapTo(segs[j], t) - OverlapFrom(segs[j], f)
         /\ \A x \in Int : OverlapFrom(segs[j], f) <= x /\ x < OverlapTo(segs[j], t)
              <=> segs[j][1] <= x /\ x < segs[j][2] /\ f <= x /\ x < t
  <1>1. segs[j][1] \in Int /\ segs[j][2] \in Int
    BY CanonicalIs
  <1> QED
    BY <1>1 DEF OverlapFrom, OverlapTo, OverlapWidth, Upper, Lower

LEMMA IntersectInvStep ==
  ASSUME NEW segs \in Intervals, NEW f \in Int, NEW t \in Int,
         NEW i \in 1 .. Len(segs), NEW best, IntersectInv(segs, f, t, i - 1, best)
  PROVE  IntersectInv(segs, f, t, i, IntersectStep(f, t, best, segs[i]))
  <1> DEFINE lo == OverlapFrom(segs[i], f)
             hi == OverlapTo(segs[i], t)
             next == IntersectStep(f, t, best, segs[i])
             W(j) == OverlapWidth(segs[j], f, t)
  <1>1. Len(segs) \in Nat
    BY CanonicalIs
  <1>2. \A j \in 1 .. Len(segs) :
          /\ OverlapFrom(segs[j], f) \in Int /\ OverlapTo(segs[j], t) \in Int /\ W(j) \in Int
          /\ W(j) = OverlapTo(segs[j], t) - OverlapFrom(segs[j], f)
    BY OverlapIs
  <1>3. next = IF lo < hi /\ (best = << >> \/ hi - lo > best[2] - best[1]) THEN <<lo, hi>> ELSE best
    BY DEF IntersectStep, OverlapFrom, OverlapTo
  <1>4. lo \in Int /\ hi \in Int /\ W(i) = hi - lo /\ i \in 1 .. i
    BY <1>1, <1>2
  <1>5. \A j \in 1 .. i : j \in 1 .. Len(segs) /\ (j \in 1 .. (i - 1) \/ j = i)
    BY <1>1
  <1>6. \A j \in 1 .. (i - 1) : j \in 1 .. i
    BY <1>1
  <1> HIDE DEF lo, hi, next, W
  <1>7. CASE best = << >> /\ \A j \in 1 .. (i - 1) : W(j) <= 0
    <2>1. CASE lo < hi
      <3>1. next = <<lo, hi>> /\ 0 < W(i)
        BY <1>3, <1>4, <1>7, <2>1
      <3>2. ASSUME NEW k \in 1 .. i PROVE W(k) <= W(i)
        <4>1. k \in 1 .. Len(segs) /\ W(k) \in Int /\ W(i) \in Int
          BY <1>2, <1>5
        <4>2. k = i \/ W(k) <= 0
          BY <1>5, <1>7
        <4> QED
          BY <3>1, <4>1, <4>2
      <3> QED
        BY <1>4, <3>1, <3>2 DEF IntersectInv, W, lo, hi, next
    <2>2. CASE ~(lo < hi)
      <3>1. next = << >> /\ \A k \in 1 .. i : W(k) <= 0
        BY <1>2, <1>3, <1>4, <1>5, <1>7, <2>2
      <3> QED
        BY <3>1 DEF IntersectInv, W, next
    <2> QED
      BY <2>1, <2>2
  <1>8. CASE \E j \in 1 .. (i - 1) :
                /\ best = <<OverlapFrom(segs[j], f), OverlapTo(segs[j], t)>>
                /\ 0 < W(j)
                /\ \A k \in 1 .. (i - 1) : W(k) <= W(j)
    <2>1. PICK j \in 1 .. (i - 1) :
                /\ best = <<OverlapFrom(segs[j], f), OverlapTo(segs[j], t)>>
                /\ 0 < W(j)
                /\ \A k \in 1 .. (i - 1) : W(k) <= W(j)
      BY <1>8
    <2>2. best # << >> /\ best[2] - best[1] = W(j)
      BY <1>2, <1>5, <1>6, <2>1
    <2>3. W(j) \in Int /\ W(i) \in Int
      BY <1>2, <1>4, <1>5, <1>6
    <2>4. CASE W(i) > W(j)
      <3>1. next = <<lo, hi>> /\ 0 < W(i)
        <4>1. lo < hi /\ hi - lo > best[2] - best[1] /\ 0 < W(i)
          BY <1>4, <2>1, <2>2, <2>3, <2>4
        <4> QED
          BY <1>3, <4>1
      <3>2. ASSUME NEW k \in 1 .. i PROVE W(k) <= W(i)
        <4>1. W(k) \in Int /\ (k = i \/ W(k) <= W(j))
          BY <1>2, <1>5, <2>1
        <4> QED
          BY <1>4, <2>3, <2>4, <4>1
      <3> QED
        BY <1>4, <3>1, <3>2 DEF IntersectInv, W, lo, hi, next
    <2>5. CASE ~(W(i) > W(j))
      <3>1. next = best
        BY <1>2, <1>3, <1>4, <1>5, <1>6, <2>1, <2>2, <2>5
      <3>2. ASSUME NEW k \in 1 .. i PROVE W(k) <= W(j)
        <4>1. W(k) \in Int /\ (k = i \/ W(k) <= W(j))
          BY <1>2, <1>5, <2>1
        <4> QED
          BY <1>4, <2>3, <2>5, <4>1
      <3>3. j \in 1 .. i
        BY <1>6
      <3> QED
        BY <2>1, <3>1, <3>2, <3>3 DEF IntersectInv, W, next
    <2> QED
      BY <2>4, <2>5
  <1> QED
    BY <1>7, <1>8 DEF IntersectInv, W

LEMMA IntersectIs ==
  ASSUME NEW segs, NEW f, NEW t
  PROVE  intersect(segs, f, t) = IntersectEnd(f, t, << >>, segs)
  BY Zenon DEF intersect, IntersectEnd

(***************************************************************************)
(* intersect finds an overlap exactly when the request meets the coverage,  *)
(* what it finds is covered and within the request, and no segment overlaps *)
(* the request more.                                                        *)
(***************************************************************************)
THEOREM IntersectExact ==
  ASSUME NEW segs \in Intervals, NEW f \in Int, NEW t \in Int, NEW best,
         best = intersect(segs, f, t)
  PROVE  /\ best = << >> <=> Span(f, t) \cap Spans(segs) = {}
         /\ best # << >> =>
              /\ best[1] \in Int /\ best[2] \in Int /\ best[1] < best[2]
              /\ Span(best[1], best[2]) \subseteq Span(f, t) \cap Spans(segs)
              /\ \A j \in 1 .. Len(segs) : OverlapWidth(segs[j], f, t) <= best[2] - best[1]
  <1>1. Len(segs) \in Nat
    BY CanonicalIs
  <1>2. PICK g : Steps("intersect", <<f, t>>, << >>, segs, g) /\ best = g[Len(segs)]
    <2>1. segs \in Seq(Int \X Int)
      BY DEF Intervals
    <2> QED
      BY <2>1, IntersectFold, IntersectIs
  <1> DEFINE Fine == {i \in 0 .. Len(segs) : IntersectInv(segs, f, t, i, g[i])}
  <1>3. 0 \in Fine
    <2>1. g[0] = << >>
      BY <1>2 DEF Steps
    <2> QED
      BY <1>1, <2>1 DEF IntersectInv
  <1>4. ASSUME NEW i \in 0 .. Len(segs) - 1, i \in Fine PROVE i + 1 \in Fine
    <2>1. i + 1 \in 1 .. Len(segs) /\ (i + 1) - 1 = i /\ i + 1 \in 0 .. Len(segs)
      BY <1>1
    <2>2. g[i + 1] = IntersectStep(f, t, g[i], segs[i + 1])
      BY <1>2, <2>1 DEF Steps, FoldStep
    <2>3. IntersectInv(segs, f, t, (i + 1) - 1, g[i])
      BY <1>4, <2>1
    <2>4. IntersectInv(segs, f, t, i + 1, IntersectStep(f, t, g[i], segs[i + 1]))
      BY <2>1, <2>3, IntersectInvStep
    <2> QED
      BY <2>1, <2>2, <2>4
  <1>5. IntersectInv(segs, f, t, Len(segs), best)
    <2> HIDE DEF Fine
    <2>1. \A i \in 0 .. Len(segs) : i \in Fine
      BY <1>1, <1>3, <1>4, SetInduction
    <2> QED
      BY <1>1, <1>2, <2>1 DEF Fine
  <1>6. \A x : x \in Span(f, t) <=> x \in Int /\ f <= x /\ x < t
    BY DEF Span
  <1>7. \A j \in 1 .. Len(segs) :
          /\ OverlapFrom(segs[j], f) \in Int /\ OverlapTo(segs[j], t) \in Int
          /\ OverlapWidth(segs[j], f, t) \in Int
          /\ OverlapWidth(segs[j], f, t) = OverlapTo(segs[j], t) - OverlapFrom(segs[j], f)
          /\ \A x \in Int : OverlapFrom(segs[j], f) <= x /\ x < OverlapTo(segs[j], t)
              <=> segs[j][1] <= x /\ x < segs[j][2] /\ f <= x /\ x < t
    BY OverlapIs
  <1>8. \A x : x \in Spans(segs)
          <=> x \in Int /\ \E j \in 1 .. Len(segs) : segs[j][1] <= x /\ x < segs[j][2]
    BY SpansIn DEF In, InUpTo
  <1>9. CASE best = << >> /\ \A j \in 1 .. Len(segs) : OverlapWidth(segs[j], f, t) <= 0
    <2>1. ASSUME NEW x, x \in Span(f, t), x \in Spans(segs) PROVE FALSE
      <3>1. x \in Int /\ f <= x /\ x < t
        BY <1>6, <2>1
      <3>2. PICK j \in 1 .. Len(segs) : segs[j][1] <= x /\ x < segs[j][2]
        BY <1>8, <2>1
      <3> QED
        BY <1>7, <1>9, <3>1, <3>2
    <2> QED
      BY <1>9, <2>1
  <1>10. CASE \E j \in 1 .. Len(segs) :
                /\ best = <<OverlapFrom(segs[j], f), OverlapTo(segs[j], t)>>
                /\ 0 < OverlapWidth(segs[j], f, t)
                /\ \A k \in 1 .. Len(segs) : OverlapWidth(segs[k], f, t) <= OverlapWidth(segs[j], f, t)
    <2>1. PICK j \in 1 .. Len(segs) :
                /\ best = <<OverlapFrom(segs[j], f), OverlapTo(segs[j], t)>>
                /\ 0 < OverlapWidth(segs[j], f, t)
                /\ \A k \in 1 .. Len(segs) : OverlapWidth(segs[k], f, t) <= OverlapWidth(segs[j], f, t)
      BY <1>10
    <2>2. /\ best[1] = OverlapFrom(segs[j], f) /\ best[2] = OverlapTo(segs[j], t) /\ best # << >>
          /\ best[1] \in Int /\ best[2] \in Int /\ best[1] < best[2]
          /\ best[2] - best[1] = OverlapWidth(segs[j], f, t)
      BY <1>7, <2>1
    <2>3. ASSUME NEW x \in Int, best[1] <= x, x < best[2]
          PROVE  x \in Span(f, t) /\ x \in Spans(segs)
      <3>1. segs[j][1] <= x /\ x < segs[j][2] /\ f <= x /\ x < t
        BY <1>7, <2>2, <2>3
      <3> QED
        BY <1>6, <1>8, <3>1
    <2>4. Span(best[1], best[2]) \subseteq Span(f, t) \cap Spans(segs)
      <3>1. \A x : x \in Span(best[1], best[2]) <=> x \in Int /\ best[1] <= x /\ x < best[2]
        BY <2>2 DEF Span
      <3> QED
        BY <2>3, <3>1
    <2>5. best[1] \in Span(f, t) /\ best[1] \in Spans(segs)
      BY <2>2, <2>3
    <2> QED
      BY <2>1, <2>2, <2>4, <2>5
  <1> QED
    BY <1>5, <1>9, <1>10 DEF IntersectInv

-----------------------------------------------------------------------------
(* The invariant of the read-through cache.                                 *)

(* The phases of a session, and where it continues after a delivery.        *)
Pcs == {"idle", "plan", "wait", "replan", "next", "replay", "fetch", "settle", "emit",
        "drain", "done", "subscribed", "live"}
Item == [kind : {"data", "gap", "error", "closing"}, from : Int, to : Int]

SessionType ==
  [pc : Pcs, range : Time \X Time, mode : BOOLEAN \X BOOLEAN, blind : BOOLEAN,
   plan : Seq(Piece), batch : SUBSET Time, max : Int, failed : BOOLEAN,
   todo : Seq(Item), back : Pcs, out : Seq(Item),
   stream : {"held", "taken", "dropped", "orphan"}, unread : Int, close : BOOLEAN,
   since : Int, unserved : SUBSET Int, live : Seq(Time), ring : Seq(Time), evicted : SUBSET Time]

(* Where a session stands once what it is delivering is delivered, and all  *)
(* it has told or is about to tell: DeliverTodo changes neither.            *)
Phase(r) == IF r.pc = "emit" THEN r.back ELSE r.pc
Log(r) == r.out \o r.todo

(* A session delivers its plan; it serves a piece of it; the pieces after.  *)
Streaming(r) == Phase(r) \in {"next", "replay", "fetch", "settle"}
Working(r) == Phase(r) \in {"replay", "fetch", "settle"}
Left(r) == (IF Working(r) THEN 2 ELSE 1) .. Len(r.plan)

(* Tick x is in an item of a log, in a piece still to be served.            *)
Tells(item, x) == item.kind \in {"data", "gap"} /\ item.from <= x /\ x < item.to
ToldIn(log, x) == \E i \in 1 .. Len(log) : Tells(log[i], x)
InPlan(r, x) == \E k \in Left(r) : r.plan[k].from <= x /\ x < r.plan[k].to
Lists(seq, x) == \E i \in 1 .. Len(seq) : seq[i] = x

(* The fields agree with the phase.                                         *)
ShapeOK(s, r) ==
  /\ r.pc = "emit" <=> r.todo # << >>
  /\ r.back # "emit" /\ (r.back = "done" => r.pc \in {"emit", "done"})
  /\ Phase(r) \notin {"next", "replay", "fetch", "settle"} => r.plan = << >>
  /\ Working(r) => r.plan # << >>
  /\ ~Working(r) => r.batch = {}
  /\ Phase(r) \in {"idle", "subscribed", "plan", "wait", "replan", "next"} => r.max = -1
  /\ Phase(r) \in {"idle", "subscribed", "plan", "wait", "replan"} => r.out = << >> /\ r.todo = << >>
  /\ Phase(r) \in {"plan", "wait", "replan"} => r.range[1] < r.range[2]
  /\ Phase(r) \in {"wait", "replan"} => s \in Historical /\ r.mode[1]
  /\ Phase(r) \in {"subscribed", "live"} => s \in Stitched
  /\ Phase(r) \in {"idle", "subscribed", "live"} => r.ring = << >> /\ r.evicted = {}
  /\ Phase(r) = "idle" => r.live = << >>
  /\ s \in Historical /\ Phase(r) \notin {"idle", "done"} => r.range \in Ranges

(* The pieces of a plan are in order and within the request, and a covered  *)
(* piece is covered.                                                        *)
PlanOK(s, r, cl) ==
  /\ \A j \in 1 .. Len(r.plan) :
       /\ r.range[1] <= r.plan[j].from /\ r.plan[j].from < r.plan[j].to /\ r.plan[j].to <= r.range[2]
       /\ r.plan[j].kind = "covered" =>
            \A x \in Int : r.plan[j].from <= x /\ x < r.plan[j].to => x \in cl
  /\ \A j, k \in 1 .. Len(r.plan) : j < k => r.plan[j].to <= r.plan[k].from

(* What a fetch has still to give lies in its segment and behind what it    *)
(* gave; nothing of the segment is left out but what is not served yet.     *)
FetchOK(s, r, tr, hz) ==
  /\ Phase(r) = "replay" => r.plan[1].kind = "covered"
  /\ Phase(r) \in {"fetch", "settle"} =>
       /\ r.plan[1].kind = "gap"
       /\ r.max = -1 \/ (r.plan[1].from <= r.max /\ r.max < r.plan[1].to /\ r.max < hz)
       /\ \A x \in r.batch : x \in tr /\ x < hz /\ r.max < x
       /\ \A x \in tr : r.plan[1].from <= x /\ x < r.plan[1].to =>
            x \in r.batch \/ x <= r.max \/ x \in r.unserved
       /\ Phase(r) = "settle" /\ ~r.failed => r.batch = {}
  /\ Working(r) => \A x \in r.batch : r.plan[1].from <= x /\ x < r.plan[1].to

(* What a historical session or a backfill tells is in source order, and    *)
(* all of it lies before what it has still to tell.                         *)
Before(a, b) ==
  a.kind # "closing" /\ b.kind # "closing" =>
    a.from <= b.from /\ (b.kind = "data" => a.to <= b.from)
FrontierOK(r, item) ==
  /\ item.from <= item.to
  /\ item.kind = "data" => item.from < item.to /\ item.to <= r.range[2]
  /\ \A x \in r.batch : item.to <= x
  /\ \A k \in Left(r) : item.to <= r.plan[k].from
  /\ Phase(r) \in {"fetch", "settle"} =>
       /\ item.to <= Upper(r.plan[1].from, r.max + 1)
       /\ item.from <= Upper(r.plan[1].from, r.max)
Ordered(log) == \A i, j \in 1 .. Len(log) : i < j => Before(log[i], log[j])
Behind(r, log) == \A i \in 1 .. Len(log) : log[i].kind # "closing" => FrontierOK(r, log[i])
Timely(s, r) == s \in Historical \/ Streaming(r)
OrderOK(s, r) == Timely(s, r) => Ordered(Log(r)) /\ Behind(r, Log(r))

(* A historical session without a provider error has told every tick of its *)
(* range that traded and was served when it was asked for, or will.         *)
NoError(log) == \A i \in 1 .. Len(log) : log[i].kind # "error"
WholeOK(s, r, tr) ==
  /\ s \in Historical /\ ~r.close
  /\ Phase(r) \in {"next", "replay", "fetch", "settle", "drain", "done"}
  /\ NoError(Log(r))
  => \A x \in tr : r.range[1] <= x /\ x < r.range[2] =>
       ToldIn(Log(r), x) \/ x \in r.batch \/ InPlan(r, x) \/ x \in r.unserved

(* The arrivals that wait are in order, the older ones in the ring.         *)
Rising(l, low, high) ==
  /\ \A i \in 1 .. Len(l) : low <= l[i] /\ l[i] < high
  /\ \A i, j \in 1 .. Len(l) : i < j => l[i] < l[j]
Below(a, b) == \A i \in 1 .. Len(a), j \in 1 .. Len(b) : a[i] < b[j]
QueuesOK(r, nw) ==
  Rising(r.ring, r.since, nw) /\ Rising(r.live, r.since, nw) /\ Below(r.ring, r.live)

(* A live session has told n items before the seam, from before the edge of *)
(* its backfill, and the others past it, from after its subscription; both  *)
(* parts are in order, and the second lies before the arrivals that wait.   *)
Sooner(a, b) == a.kind = "data" /\ b.kind = "data" => a.from < b.from
Rises(log, m, n) == \A i, j \in m .. n : i < j => Sooner(log[i], log[j])
Arrived(item, since, high, live) ==
  item.kind = "data" =>
    since <= item.from /\ item.from < high /\ \A k \in 1 .. Len(live) : item.from < live[k]
SeamAt(log, n, edge, since, high, live) ==
  /\ Rises(log, 1, n) /\ Rises(log, n + 1, Len(log))
  /\ \A i \in 1 .. n : log[i].kind = "data" => log[i].from < edge
  /\ \A i \in n + 1 .. Len(log) : Arrived(log[i], since, high, live)
SeamIn(log, edge, since, high, live) ==
  \E n \in 0 .. Len(log) : SeamAt(log, n, edge, since, high, live)

(* A stitched session holds or has told every tick since its subscription,  *)
(* and every earlier one of its backfill the endpoint served.               *)
SeamOK(s, r, tr, nw) ==
  s \in Stitched =>
    /\ Phase(r) \notin {"idle", "done"} =>
         /\ r.since <= nw /\ QueuesOK(r, nw)
         /\ \A x \in tr : r.since <= x /\ x < nw =>
              Lists(r.live, x) \/ Lists(r.ring, x) \/ x \in r.evicted \/ ToldIn(Log(r), x)
    /\ Phase(r) = "live" => SeamIn(Log(r), r.range[2], r.since, nw, r.live)
    /\ Phase(r) = "plan" => r.since <= r.range[2]
    /\ Phase(r) \in {"next", "replay", "fetch", "settle", "live"} =>
         \A x \in tr : r.range[1] <= x /\ x < r.since =>
           ToldIn(Log(r), x) \/ x \in r.batch \/ InPlan(r, x) \/ x \in r.unserved

(* A session that has something to fetch holds the slot of its range, and   *)
(* unless it could not see the coverage nothing of it is filled.            *)
SlotOK(s, r, sl) ==
  s \in Historical /\ r.mode[1]
    /\ (Phase(r) = "replan" \/ \E j \in 1 .. Len(r.plan) : r.plan[j].kind = "gap")
  => sl[r.range] = s
FilledOK(s, r, fl) ==
  s \in Historical /\ r.mode[1] /\ ~r.blind =>
    \A j \in 1 .. Len(r.plan) : r.plan[j].kind = "gap" =>
      \A x \in fl[r.range] : ~(r.plan[j].from <= x /\ x < r.plan[j].to)

SessionOK(s, r, tr, nw, hz, cl) ==
  /\ r \in SessionType /\ ShapeOK(s, r) /\ PlanOK(s, r, cl) /\ FetchOK(s, r, tr, hz)
  /\ OrderOK(s, r) /\ WholeOK(s, r, tr) /\ SeamOK(s, r, tr, nw)

(* The clocks, the cache and the record of claims.                          *)
ClockOK ==
  /\ truth \subseteq Span(0, Ticks) /\ now \in Time /\ horizon \in Time /\ horizon <= now
CacheOK ==
  /\ DOMAIN doc = {"segments", "event_count"}
  /\ doc.segments \in Intervals /\ Canonical(doc.segments) /\ Spans(doc.segments) = claimed
  /\ claimed \subseteq Time /\ lagging \subseteq Time
  /\ rows \subseteq claimed /\ truth \cap claimed \subseteq rows \cup lagging
  /\ doc.event_count = Cardinality(rows)
  /\ filled \in [Ranges -> SUBSET claimed]
  /\ slot \in [Ranges -> Sessions \cup {None}]

IInv ==
  /\ ClockOK /\ CacheOK
  /\ ses = [s \in Sessions |-> ses[s]]
  /\ \A s \in Sessions : SessionOK(s, ses[s], truth, now, horizon, claimed)
  /\ \A s \in Sessions : SlotOK(s, ses[s], slot) /\ FilledOK(s, ses[s], filled)

-----------------------------------------------------------------------------
(* Sets of ticks and sequences of items.                                    *)

LEMMA TimeIs == \A x \in Time : x \in Int /\ 0 <= x
  BY ReadThroughAssumption DEF Time

LEMMA MinMaxTime ==
  ASSUME NEW S, S \subseteq Time, S # {}
  PROVE  /\ Min(S) \in S /\ \A y \in S : Min(S) <= y
         /\ Max(S) \in S /\ \A y \in S : y <= Max(S)
  <1> DEFINE Fine == {i \in 0 .. Ticks : \A z \in SUBSET (0 .. i) : z # {} =>
                        /\ \E x \in z : \A y \in z : x <= y
                        /\ \E x \in z : \A y \in z : x >= y}
  <1>1. Ticks \in Nat
    BY ReadThroughAssumption
  <1>2. 0 \in Fine
    <2>1. ASSUME NEW z \in SUBSET (0 .. 0), z # {}
          PROVE  (\E x \in z : \A y \in z : x <= y) /\ (\E x \in z : \A y \in z : x >= y)
      <3>1. 0 .. 0 = {0}
        OBVIOUS
      <3>2. z = {0}
        BY <2>1, <3>1
      <3> QED
        BY <3>2
    <2>2. 0 \in 0 .. Ticks
      BY <1>1
    <2> QED
      BY <2>1, <2>2, Zenon
  <1>3. ASSUME NEW i \in 0 .. Ticks - 1, i \in Fine PROVE i + 1 \in Fine
    <2> SUFFICES ASSUME NEW z \in SUBSET (0 .. i + 1), z # {}
                 PROVE  (\E x \in z : \A y \in z : x <= y) /\ (\E x \in z : \A y \in z : x >= y)
      BY <1>1
    <2>1. ASSUME NEW y \in SUBSET (0 .. i), y # {}
          PROVE  (\E x \in y : \A u \in y : x <= u) /\ (\E x \in y : \A u \in y : x >= u)
      BY <1>3, <2>1, Zenon
    <2>2. CASE i + 1 \notin z
      <3>1. z \in SUBSET (0 .. i)
        BY <1>1, <2>2
      <3> QED
        BY <2>1, <3>1
    <2>3. CASE i + 1 \in z
      <3>1. \E x \in z : \A y \in z : x >= y
        BY <1>1, <2>3
      <3>2. \E x \in z : \A y \in z : x <= y
        <4>1. CASE z = {i + 1}
          BY <1>1, <4>1
        <4>2. CASE z # {i + 1}
          <5>1. z \ {i + 1} \in SUBSET (0 .. i) /\ z \ {i + 1} # {}
            BY <1>1, <2>3, <4>2
          <5>2. PICK x \in z \ {i + 1} : \A y \in z \ {i + 1} : x <= y
            BY <2>1, <5>1
          <5>3. \A y \in z : x <= y
            BY <1>1, <5>2
          <5> QED
            BY <5>3
        <4> QED
          BY <4>1, <4>2
      <3> QED
        BY <3>1, <3>2
    <2> QED
      BY <2>2, <2>3
  <1>4. Ticks \in Fine
    <2>1. Ticks \in 0 .. Ticks
      BY <1>1
    <2> HIDE DEF Fine
    <2> QED
      BY <1>1, <1>2, <1>3, <2>1, SetInduction
  <1>5. (\E x \in S : \A y \in S : x <= y) /\ (\E x \in S : \A y \in S : x >= y)
    BY <1>4 DEF Time
  <1>6. Min(S) \in S /\ \A y \in S : Min(S) =< y
    BY <1>5 DEF Min
  <1>7. Max(S) \in S /\ \A y \in S : Max(S) >= y
    BY <1>5 DEF Max
  <1>8. \A y \in S : y \in Int
    BY <1>1 DEF Time
  <1> QED
    BY <1>6, <1>7, <1>8

LEMMA ItemIs ==
  ASSUME NEW item \in Item
  PROVE  item.kind \in {"data", "gap", "error", "closing"} /\ item.from \in Int /\ item.to \in Int
  BY DEF Item

LEMMA ItemsAre ==
  ASSUME NEW f \in Int, NEW t \in Int
  PROVE  /\ Data(f) \in Item /\ Gap(f, t) \in Item /\ ProviderError(t) \in Item /\ SessionClosing \in Item
         /\ Data(f).kind = "data" /\ Data(f).from = f /\ Data(f).to = f + 1
         /\ Gap(f, t).kind = "gap" /\ Gap(f, t).from = f /\ Gap(f, t).to = t
         /\ ProviderError(t).kind = "error" /\ ProviderError(t).from = t /\ ProviderError(t).to = t
         /\ SessionClosing.kind = "closing"
  BY DEF Data, Gap, ProviderError, SessionClosing, Item

(* What holds of every item of two logs holds of their concatenation.       *)
LEMMA LogConcat ==
  ASSUME NEW l \in Seq(Item), NEW m \in Seq(Item)
  PROVE  /\ l \o m \in Seq(Item)
         /\ \A x : ToldIn(l \o m, x) <=> ToldIn(l, x) \/ ToldIn(m, x)
         /\ NoError(l \o m) <=> NoError(l) /\ NoError(m)
         /\ \A r : Behind(r, l) /\ Behind(r, m) => Behind(r, l \o m)
         /\ Ordered(l) /\ Ordered(m)
              /\ (\A i \in 1 .. Len(l), j \in 1 .. Len(m) : Before(l[i], m[j]))
            => Ordered(l \o m)
  <1> DEFINE c == l \o m
             n == Len(l)
  <1>1. /\ c \in Seq(Item) /\ n \in Nat /\ Len(m) \in Nat /\ Len(c) = n + Len(m)
        /\ \A i \in 1 .. Len(c) : c[i] = IF i <= n THEN l[i] ELSE m[i - n]
    OBVIOUS
  <1> HIDE DEF c, n
  <1>2. \A i \in 1 .. Len(c) : \/ i \in 1 .. n /\ c[i] = l[i]
                               \/ i - n \in 1 .. Len(m) /\ c[i] = m[i - n] /\ i > n
    BY <1>1
  <1>3. \A i \in 1 .. n : i \in 1 .. Len(c) /\ c[i] = l[i]
    BY <1>1
  <1>4. \A j \in 1 .. Len(m) : n + j \in 1 .. Len(c) /\ c[n + j] = m[j]
    BY <1>1
  <1>5. ASSUME NEW x PROVE ToldIn(c, x) <=> ToldIn(l, x) \/ ToldIn(m, x)
    <2>1. (\E i \in 1 .. Len(c) : Tells(c[i], x))
            => (\E i \in 1 .. n : Tells(l[i], x)) \/ (\E i \in 1 .. Len(m) : Tells(m[i], x))
      BY <1>2
    <2>2. (\E i \in 1 .. n : Tells(l[i], x)) => (\E i \in 1 .. Len(c) : Tells(c[i], x))
      BY <1>3
    <2>3. (\E i \in 1 .. Len(m) : Tells(m[i], x)) => (\E i \in 1 .. Len(c) : Tells(c[i], x))
      BY <1>4
    <2> QED
      BY <2>1, <2>2, <2>3 DEF ToldIn, n
  <1>6. NoError(c) <=> NoError(l) /\ NoError(m)
    <2>1. NoError(c) => NoError(l) /\ NoError(m)
      BY <1>3, <1>4 DEF NoError, n
    <2>2. NoError(l) /\ NoError(m) => NoError(c)
      BY <1>2 DEF NoError, n
    <2> QED
      BY <2>1, <2>2
  <1>7. ASSUME NEW r, Behind(r, l), Behind(r, m) PROVE Behind(r, c)
    BY <1>2, <1>7 DEF Behind, n
  <1>8. ASSUME Ordered(l), Ordered(m),
               \A i \in 1 .. n, j \in 1 .. Len(m) : Before(l[i], m[j])
        PROVE  Ordered(c)
    <2> SUFFICES ASSUME NEW i \in 1 .. Len(c), NEW j \in 1 .. Len(c), i < j
                 PROVE  Before(c[i], c[j])
      BY DEF Ordered
    <2>1. CASE i \in 1 .. n /\ j \in 1 .. n
      BY <1>3, <1>8, <2>1 DEF Ordered, n
    <2>2. CASE i \in 1 .. n /\ j \notin 1 .. n
      BY <1>2, <1>3, <1>8, <2>2
    <2>3. CASE i \notin 1 .. n
      <3>1. i - n \in 1 .. Len(m) /\ j - n \in 1 .. Len(m) /\ i - n < j - n
        BY <1>1, <1>2, <2>3
      <3>2. c[i] = m[i - n] /\ c[j] = m[j - n]
        BY <1>1, <1>2, <2>3
      <3> QED
        BY <1>8, <3>1, <3>2 DEF Ordered
    <2> QED
      BY <2>1, <2>2, <2>3
  <1> QED
    BY <1>1, <1>5, <1>6, <1>7, <1>8 DEF c, n

LEMMA LogOne ==
  ASSUME NEW item \in Item, NEW one, one = <<item>>
  PROVE  /\ one \in Seq(Item)
         /\ \A x : ToldIn(one, x) <=> Tells(item, x)
         /\ NoError(one) <=> item.kind # "error"
         /\ Ordered(one)
         /\ \A r : Behind(r, one) <=> (item.kind # "closing" => FrontierOK(r, item))
  <1>1. Len(one) = 1 /\ one[1] = item /\ one \in Seq(Item)
    OBVIOUS
  <1>2. \A i \in 1 .. Len(one) : i = 1
    BY <1>1
  <1>3. 1 \in 1 .. Len(one)
    BY <1>1
  <1> QED
    BY <1>1, <1>2, <1>3 DEF ToldIn, NoError, Ordered, Behind

LEMMA LogNone ==
  ASSUME NEW none, none = << >>
  PROVE  /\ none \in Seq(Item) /\ NoError(none) /\ Ordered(none)
         /\ \A x : ~ToldIn(none, x)
         /\ \A r : Behind(r, none)
  BY DEF ToldIn, NoError, Ordered, Behind

-----------------------------------------------------------------------------
(* Plans.                                                                   *)

(* What a plan made of a coverage document is good for.                     *)
Plans(plan, f, t, cl) ==
  /\ plan \in Seq(Piece)
  /\ \A j \in 1 .. Len(plan) :
       /\ f <= plan[j].from /\ plan[j].from < plan[j].to /\ plan[j].to <= t
       /\ plan[j].kind = "covered" =>
            \A x \in Int : plan[j].from <= x /\ x < plan[j].to => x \in cl
  /\ \A j, k \in 1 .. Len(plan) : j < k => plan[j].to <= plan[k].from
  /\ \A x \in Int : f <= x /\ x < t => \E j \in 1 .. Len(plan) : plan[j].from <= x /\ x < plan[j].to

LEMMA PieceIs ==
  ASSUME NEW plan \in Seq(Piece), NEW j \in 1 .. Len(plan)
  PROVE  plan[j].kind \in {"covered", "gap"} /\ plan[j].from \in Int /\ plan[j].to \in Int
  <1>1. plan[j] \in Piece
    OBVIOUS
  <1>2. \A p \in Piece : p.kind \in {"covered", "gap"} /\ p.from \in Int /\ p.to \in Int
    BY DEF Piece
  <1> QED
    BY <1>1, <1>2

LEMMA WholeRangePlans ==
  ASSUME NEW f \in Int, NEW t \in Int, f < t, NEW cl, NEW gaps, gaps = << <<f, t>> >>
  PROVE  Plans(tile(f, t, gaps), f, t, cl)
  <1> DEFINE plan == tile(f, t, gaps)
  <1>1. gaps \in Intervals /\ Len(gaps) = 1 /\ gaps[1][1] = f /\ gaps[1][2] = t
    BY DEF Intervals
  <1>2. Canonical(gaps)
    BY <1>1, CanonicalIs
  <1>3. Tiles(plan, f, t, gaps)
    BY <1>1, <1>2, TileExact
  <1> HIDE DEF plan
  <1>4. plan \in Seq(Piece)
    BY <1>3 DEF Tiles
  <1>5. \A x \in Int : f <= x /\ x < t => In(x, gaps)
    BY <1>1 DEF In, InUpTo
  <1>6. ASSUME NEW j \in 1 .. Len(plan)
        PROVE  /\ f <= plan[j].from /\ plan[j].from < plan[j].to /\ plan[j].to <= t
               /\ plan[j].kind # "covered"
    <2>1. /\ f <= plan[j].from /\ plan[j].from < plan[j].to /\ plan[j].to <= t
          /\ PieceOK(plan[j], gaps)
      BY <1>3 DEF Tiles
    <2>2. plan[j].from \in Int /\ plan[j].to \in Int
      BY <1>4, PieceIs
    <2>3. In(plan[j].from, gaps)
      BY <1>5, <2>1, <2>2
    <2> QED
      BY <1>1, <2>1, <2>2, <2>3 DEF PieceOK
  <1>7. /\ \A j, k \in 1 .. Len(plan) : j < k => plan[j].to <= plan[k].from
        /\ \A x \in Int : f <= x /\ x < t => \E j \in 1 .. Len(plan) : plan[j].from <= x /\ x < plan[j].to
    BY <1>3 DEF Tiles
  <1> QED
    BY <1>4, <1>6, <1>7 DEF Plans, plan

LEMMA GapsPlan ==
  ASSUME NEW segs \in Intervals, Canonical(segs), NEW f \in Int, NEW t \in Int, f < t,
         NEW cl, cl = Spans(segs),
         NEW gaps, gaps = gaps_within(segs, f, t), NEW plan, plan = tile(f, t, gaps)
  PROVE  /\ Plans(plan, f, t, cl)
         /\ \A j \in 1 .. Len(plan) : plan[j].kind = "gap" =>
              /\ gaps # << >>
              /\ \A x \in cl : ~(plan[j].from <= x /\ x < plan[j].to)
         /\ Tiles(plan, f, t, gaps)
  <1>1. gaps \in Intervals /\ Canonical(gaps) /\ Spans(gaps) = Span(f, t) \ Spans(segs)
    BY GapsWithinExact
  <1>2. \A x \in Int : In(x, gaps) <=> f <= x /\ x < t /\ x \notin cl
    BY <1>1, SpansIn DEF Span
  <1>3. /\ Len(gaps) \in Nat
        /\ \A j \in 1 .. Len(gaps) : gaps[j][1] \in Int /\ gaps[j][2] \in Int /\ gaps[j][1] < gaps[j][2]
        /\ \A i, j \in 1 .. Len(gaps) : i < j => gaps[i][2] < gaps[j][1]
    BY <1>1, CanonicalIs
  <1>4. \A x \in Int : In(x, gaps) <=> \E j \in 1 .. Len(gaps) : gaps[j][1] <= x /\ x < gaps[j][2]
    BY DEF In, InUpTo
  <1>5. ASSUME NEW j \in 1 .. Len(gaps) PROVE f <= gaps[j][1] /\ gaps[j][2] <= t
    <2>1. gaps[j][1] \in Int /\ gaps[j][2] - 1 \in Int /\ gaps[j][1] <= gaps[j][2] - 1
      BY <1>3
    <2>2. In(gaps[j][1], gaps) /\ In(gaps[j][2] - 1, gaps)
      BY <1>3, <1>4, <2>1
    <2> QED
      BY <1>2, <1>3, <2>1, <2>2
  <1>6. Tiles(plan, f, t, gaps)
    <2>1. gaps \in Intervals /\ Canonical(gaps) /\ f <= t
      BY <1>1
    <2>2. \A j \in 1 .. Len(gaps) : f <= gaps[j][1] /\ gaps[j][2] <= t
      BY <1>5
    <2> QED
      BY <2>1, <2>2, TileExact, Zenon
  <1>7. plan \in Seq(Piece)
    BY <1>6 DEF Tiles
  <1>8. ASSUME NEW j \in 1 .. Len(plan)
        PROVE  /\ f <= plan[j].from /\ plan[j].from < plan[j].to /\ plan[j].to <= t
               /\ plan[j].kind = "gap" =>
                    /\ gaps # << >>
                    /\ \A x \in cl : ~(plan[j].from <= x /\ x < plan[j].to)
               /\ plan[j].kind = "covered" =>
                    \A x \in Int : plan[j].from <= x /\ x < plan[j].to => x \in cl
    <2>1. /\ f <= plan[j].from /\ plan[j].from < plan[j].to /\ plan[j].to <= t
          /\ PieceOK(plan[j], gaps)
      BY <1>6 DEF Tiles
    <2>2. plan[j].from \in Int /\ plan[j].to \in Int
      BY <1>7, PieceIs
    <2>3. \A x : x \in cl => x \in Int
      BY SpansIn
    <2>4. ASSUME plan[j].kind = "gap"
          PROVE  /\ gaps # << >>
                 /\ \A x \in cl : ~(plan[j].from <= x /\ x < plan[j].to)
      <3>1. PICK m \in 1 .. Len(gaps) : gaps[m][1] = plan[j].from /\ gaps[m][2] = plan[j].to
        BY <2>1, <2>4 DEF PieceOK
      <3>2. gaps # << >>
        BY <3>1
      <3>3. \A x \in Int : plan[j].from <= x /\ x < plan[j].to => In(x, gaps)
        BY <1>4, <3>1
      <3> QED
        BY <1>2, <2>3, <3>2, <3>3
    <2>5. ASSUME plan[j].kind = "covered", NEW x \in Int, plan[j].from <= x, x < plan[j].to
          PROVE  x \in cl
      <3>1. ~In(x, gaps)
        BY <2>1, <2>5 DEF PieceOK
      <3>2. f <= x /\ x < t
        BY <2>1, <2>2, <2>5
      <3> QED
        BY <1>2, <3>1, <3>2
    <2> QED
      BY <2>1, <2>4, <2>5
  <1>9. /\ \A j, k \in 1 .. Len(plan) : j < k => plan[j].to <= plan[k].from
        /\ \A x \in Int : f <= x /\ x < t => \E j \in 1 .. Len(plan) : plan[j].from <= x /\ x < plan[j].to
    BY <1>6 DEF Tiles
  <1> QED
    BY <1>6, <1>7, <1>8, <1>9 DEF Plans

LEMMA PlanTail ==
  ASSUME NEW plan \in Seq(Piece), plan # << >>
  PROVE  /\ Head(plan) = plan[1] /\ Len(plan) \in Nat /\ 1 \in 1 .. Len(plan)
         /\ Tail(plan) \in Seq(Piece) /\ Len(Tail(plan)) = Len(plan) - 1
         /\ \A k \in 1 .. Len(Tail(plan)) : k + 1 \in 2 .. Len(plan) /\ Tail(plan)[k] = plan[k + 1]
         /\ \A k \in 2 .. Len(plan) : k - 1 \in 1 .. Len(Tail(plan)) /\ Tail(plan)[k - 1] = plan[k]
  OBVIOUS

-----------------------------------------------------------------------------
(* Sessions.                                                                *)

LEMMA TypeIs ==
  ASSUME NEW r \in SessionType
  PROVE  /\ r.pc \in Pcs /\ r.range \in Time \X Time /\ r.mode \in BOOLEAN \X BOOLEAN /\ r.blind \in BOOLEAN
         /\ r.plan \in Seq(Piece) /\ r.batch \subseteq Time /\ r.max \in Int /\ r.failed \in BOOLEAN
         /\ r.todo \in Seq(Item) /\ r.back \in Pcs /\ r.out \in Seq(Item) /\ r.close \in BOOLEAN
         /\ r.since \in Int /\ r.unserved \subseteq Int /\ r.live \in Seq(Time) /\ r.ring \in Seq(Time)
         /\ r.evicted \subseteq Time /\ r.unread \in Int
         /\ r.stream \in {"held", "taken", "dropped", "orphan"}
         /\ r.range[1] \in Int /\ r.range[2] \in Int /\ 0 <= r.range[1] /\ Log(r) \in Seq(Item)
         /\ r.range = <<r.range[1], r.range[2]>>
         /\ r.todo = << >> => Log(r) = r.out
  <1>1. r.todo \in Seq(Item) /\ r.out \in Seq(Item)
    BY DEF SessionType
  <1>2. r.out \o r.todo \in Seq(Item) /\ (r.todo = << >> => r.out \o r.todo = r.out)
    <2>1. ASSUME NEW l \in Seq(Item), NEW m \in Seq(Item)
          PROVE  l \o m \in Seq(Item) /\ (m = << >> => l \o m = l)
      OBVIOUS
    <2> QED
      BY <1>1, <2>1
  <1>3. r.range \in Time \X Time
    BY DEF SessionType
  <1>4. r.range[1] \in Int /\ r.range[2] \in Int /\ 0 <= r.range[1] /\ r.range = <<r.range[1], r.range[2]>>
    <2>1. \A x \in Time : x \in Int /\ 0 <= x
      BY ReadThroughAssumption DEF Time
    <2> QED
      BY <1>3, <2>1
  <1>5. Log(r) \in Seq(Item) /\ (r.todo = << >> => Log(r) = r.out)
    BY <1>2 DEF Log
  <1> QED
    BY <1>3, <1>4, <1>5 DEF SessionType

(* q serves what r serves; the live arrivals may differ.                    *)
SameServed(r, q) ==
  /\ Phase(q) = Phase(r) /\ Log(q) = Log(r)
  /\ q.range = r.range /\ q.mode = r.mode /\ q.blind = r.blind
  /\ q.plan = r.plan /\ q.batch = r.batch /\ q.max = r.max /\ q.failed = r.failed
  /\ q.since = r.since /\ q.unserved = r.unserved
  /\ r.close => q.close

(* A session goes on to another phase and keeps the rest.                   *)
LEMMA PcMoves ==
  ASSUME NEW r \in SessionType, NEW p \in Pcs
  PROVE  LET q == [r EXCEPT !.pc = p]
         IN  /\ q \in SessionType /\ q.pc = p /\ q.todo = r.todo /\ q.back = r.back /\ q.out = r.out
             /\ q.range = r.range /\ q.mode = r.mode /\ q.plan = r.plan /\ q.batch = r.batch /\ q.max = r.max
             /\ q.ring = r.ring /\ q.evicted = r.evicted /\ q.close = r.close /\ q.live = r.live
  <1>1. [r EXCEPT !.pc = p] \in SessionType
    BY DEF SessionType
  <1> QED
    BY <1>1 DEF SessionType

LEMMA SameServedOK ==
  ASSUME NEW s, NEW r, NEW q \in SessionType, NEW tr, NEW nw, NEW later, NEW hz, NEW cl, NEW sl, NEW fl,
         SessionOK(s, r, tr, nw, hz, cl), ShapeOK(s, q), SameServed(r, q), SeamOK(s, q, tr, later)
  PROVE  /\ SessionOK(s, q, tr, later, hz, cl)
         /\ SlotOK(s, r, sl) => SlotOK(s, q, sl)
         /\ FilledOK(s, r, fl) => FilledOK(s, q, fl)
  <1>1. PlanOK(s, q, cl)
    BY DEF SessionOK, SameServed, PlanOK
  <1>2. FetchOK(s, q, tr, hz)
    BY DEF SessionOK, SameServed, FetchOK, Working
  <1>3. OrderOK(s, q)
    BY DEF SessionOK, SameServed, OrderOK, Timely, Streaming, Behind, FrontierOK, Left, Working
  <1>4. \A x : InPlan(q, x) <=> InPlan(r, x)
    BY DEF InPlan, Left, Working, SameServed
  <1>5. WholeOK(s, q, tr)
    BY <1>4 DEF SessionOK, SameServed, WholeOK
  <1>6. SlotOK(s, r, sl) => SlotOK(s, q, sl)
    BY DEF SameServed, SlotOK
  <1>7. FilledOK(s, r, fl) => FilledOK(s, q, fl)
    BY DEF SameServed, FilledOK
  <1> QED
    BY <1>1, <1>2, <1>3, <1>5, <1>6, <1>7 DEF SessionOK

(* q tells the same story as r.                                             *)
SameStory(r, q) ==
  SameServed(r, q) /\ q.live = r.live /\ q.ring = r.ring /\ q.evicted = r.evicted

LEMMA SameStoryOK ==
  ASSUME NEW s, NEW r, NEW q \in SessionType, NEW tr, NEW nw, NEW hz, NEW cl, NEW sl, NEW fl,
         SessionOK(s, r, tr, nw, hz, cl), ShapeOK(s, q), SameStory(r, q)
  PROVE  /\ SessionOK(s, q, tr, nw, hz, cl)
         /\ SlotOK(s, r, sl) => SlotOK(s, q, sl)
         /\ FilledOK(s, r, fl) => FilledOK(s, q, fl)
  <1>1. SameServed(r, q) /\ SeamOK(s, r, tr, nw)
    BY DEF SameStory, SessionOK
  <1>2. \A x : InPlan(q, x) <=> InPlan(r, x)
    BY <1>1 DEF InPlan, Left, Working, SameServed
  <1>3. SeamOK(s, q, tr, nw)
    BY <1>1, <1>2 DEF SameStory, SameServed, SeamOK, QueuesOK
  <1> QED
    BY <1>1, <1>3, SameServedOK, Zenon

(* Neither a later endpoint nor another's claim disturbs a session.         *)
LEMMA SessionMonotone ==
  ASSUME NEW s, NEW r, NEW tr, NEW nw, NEW hz \in Int, NEW cl, NEW hz2 \in Int, NEW cl2,
         SessionOK(s, r, tr, nw, hz, cl), hz <= hz2, cl \subseteq cl2, tr \subseteq Time
  PROVE  SessionOK(s, r, tr, nw, hz2, cl2)
  <1>1. r \in SessionType
    BY DEF SessionOK
  <1>2. Time \subseteq Int
    BY ReadThroughAssumption DEF Time
  <1>3. PlanOK(s, r, cl2)
    BY DEF SessionOK, PlanOK
  <1>4. FetchOK(s, r, tr, hz2)
    <2>1. r.max \in Int /\ r.batch \subseteq Int
      BY <1>1, <1>2, TypeIs
    <2> QED
      BY <2>1 DEF SessionOK, FetchOK
  <1> QED
    BY <1>3, <1>4 DEF SessionOK

-----------------------------------------------------------------------------
(* stream_segments, one session.                                            *)

Accounted(r, x) == ToldIn(Log(r), x) \/ x \in r.batch \/ InPlan(r, x)

(* What streaming a segment leaves alone.                                   *)
Keeps(r, q) ==
  /\ q.range = r.range /\ q.mode = r.mode /\ q.blind = r.blind /\ q.close = r.close
  /\ q.since = r.since /\ q.live = r.live /\ q.ring = r.ring /\ q.evicted = r.evicted

(* q fetches nothing r would not fetch.                                     *)
Shrinks(r, q) ==
  /\ q.range = r.range /\ q.mode = r.mode /\ q.blind = r.blind /\ Phase(q) # "replan"
  /\ \A j \in 1 .. Len(q.plan) : \E k \in 1 .. Len(r.plan) : q.plan[j] = r.plan[k]

LEMMA ShrinksOK ==
  ASSUME NEW s, NEW r, NEW q, NEW sl, NEW fl, Shrinks(r, q)
  PROVE  /\ SlotOK(s, r, sl) => SlotOK(s, q, sl)
         /\ FilledOK(s, r, fl) => FilledOK(s, q, fl)
  <1>1. SlotOK(s, r, sl) => SlotOK(s, q, sl)
    BY DEF Shrinks, SlotOK
  <1>2. FilledOK(s, r, fl) => FilledOK(s, q, fl)
    BY DEF Shrinks, FilledOK
  <1> QED
    BY <1>1, <1>2

(* A step within stream_segments that neither loses nor takes back a tick.  *)
LEMMA StreamOK ==
  ASSUME NEW s, NEW r, NEW q, NEW tr, NEW nw, NEW hz, NEW cl,
         SessionOK(s, r, tr, nw, hz, cl), Keeps(r, q), Streaming(r), Streaming(q),
         r.unserved \subseteq q.unserved,
         NoError(Log(q)) => NoError(Log(r)),
         \A x : ToldIn(Log(r), x) => ToldIn(Log(q), x),
         s \in Stitched \/ NoError(Log(q)) =>
           \A x \in tr : r.range[1] <= x /\ Accounted(r, x) => Accounted(q, x) \/ x \in q.unserved
  PROVE  WholeOK(s, q, tr) /\ SeamOK(s, q, tr, nw)
  <1>1. WholeOK(s, q, tr)
    BY DEF SessionOK, WholeOK, Keeps, Streaming, Accounted
  <1>2. SeamOK(s, q, tr, nw)
    <2> SUFFICES ASSUME s \in Stitched PROVE SeamOK(s, q, tr, nw)
      BY DEF SeamOK
    <2>1. SeamOK(s, r, tr, nw) /\ Phase(r) \notin {"idle", "done"} /\ Phase(q) # "plan"
      BY DEF SessionOK, Streaming
    <2>2. \A x \in tr : r.range[1] <= x /\ x < r.since => Accounted(q, x) \/ x \in q.unserved
      BY <2>1 DEF SeamOK, Streaming, Accounted
    <2>3. q.since <= nw /\ QueuesOK(q, nw) /\ \A x \in tr : q.since <= x /\ x < nw =>
              Lists(q.live, x) \/ Lists(q.ring, x) \/ x \in q.evicted \/ ToldIn(Log(q), x)
      BY <2>1 DEF SeamOK, Keeps, QueuesOK
    <2> QED
      BY <2>1, <2>2, <2>3 DEF SeamOK, Keeps, Accounted, Streaming
  <1> QED
    BY <1>1, <1>2

(* What is known of a session between two segments or within one.           *)
LEMMA StreamingIs ==
  ASSUME NEW s, NEW r, NEW tr, NEW nw, NEW hz, NEW cl,
         SessionOK(s, r, tr, nw, hz, cl), Streaming(r), r.pc # "emit"
  PROVE  /\ r \in SessionType /\ Phase(r) = r.pc /\ r.todo = << >> /\ Log(r) = r.out
         /\ r.out \in Seq(Item) /\ r.plan \in Seq(Piece) /\ Len(r.plan) \in Nat
         /\ r.batch \subseteq Int /\ r.max \in Int
         /\ r.back # "emit" /\ r.back # "done"
         /\ r.pc = "next" => r.batch = {} /\ r.max = -1 /\ Left(r) = 1 .. Len(r.plan)
         /\ r.pc # "next" => r.plan # << >> /\ 1 \in 1 .. Len(r.plan) /\ Left(r) = 2 .. Len(r.plan)
         /\ \A k \in 2 .. Len(r.plan) : k \in 1 .. Len(r.plan) /\ r.plan[1].to <= r.plan[k].from
         /\ s \in Historical => r.range \in Ranges
         /\ r.range[1] \in Int /\ r.range[2] \in Int /\ 0 <= r.range[1]
         /\ \A j \in 1 .. Len(r.plan) :
              /\ r.plan[j].from \in Int /\ r.plan[j].to \in Int
              /\ r.range[1] <= r.plan[j].from /\ r.plan[j].from < r.plan[j].to /\ r.plan[j].to <= r.range[2]
         /\ \A j, k \in 1 .. Len(r.plan) : j < k => r.plan[j].to <= r.plan[k].from
  <1>1. r \in SessionType /\ ShapeOK(s, r) /\ PlanOK(s, r, cl)
    BY DEF SessionOK
  <1>2. Phase(r) = r.pc /\ r.todo = << >>
    BY <1>1 DEF Phase, ShapeOK
  <1>3. Log(r) = r.out /\ r.out \in Seq(Item) /\ r.plan \in Seq(Piece) /\ r.max \in Int
        /\ r.batch \subseteq Time /\ r.range[1] \in Int /\ r.range[2] \in Int /\ 0 <= r.range[1]
    BY <1>1, <1>2, TypeIs
  <1>4. Time \subseteq Int
    BY ReadThroughAssumption DEF Time
  <1>5. Len(r.plan) \in Nat
    BY <1>3
  <1>6. /\ r.back # "emit" /\ r.back # "done"
        /\ r.pc = "next" => r.batch = {} /\ r.max = -1 /\ ~Working(r)
        /\ r.pc # "next" => r.plan # << >> /\ Working(r)
        /\ s \in Historical => r.range \in Ranges
    BY <1>1, <1>2 DEF ShapeOK, Streaming, Working
  <1>7. \A j \in 1 .. Len(r.plan) : r.plan[j].from \in Int /\ r.plan[j].to \in Int
    BY <1>3, PieceIs
  <1>8. r.pc # "next" => 1 \in 1 .. Len(r.plan)
    BY <1>3, <1>6
  <1>9. \A k \in 2 .. Len(r.plan) : k \in 1 .. Len(r.plan) /\ r.plan[1].to <= r.plan[k].from
    <2>1. \A k \in 2 .. Len(r.plan) : k \in 1 .. Len(r.plan) /\ 1 \in 1 .. Len(r.plan) /\ 1 < k
      BY <1>5
    <2> QED
      BY <1>1, <2>1 DEF PlanOK
  <1> QED
    BY <1>1, <1>2, <1>3, <1>4, <1>5, <1>6, <1>7, <1>8, <1>9 DEF PlanOK, Left

(* What a log becomes by the items told.                                    *)
Extended(log, items, longer) ==
  /\ \A x : ToldIn(longer, x) <=> ToldIn(log, x) \/ ToldIn(items, x)
  /\ NoError(longer) <=> NoError(log) /\ NoError(items)
  /\ \A p : Behind(p, log) /\ Behind(p, items) => Behind(p, longer)
  /\ Ordered(log) /\ Ordered(items)
       /\ (\A i \in 1 .. Len(log), j \in 1 .. Len(items) : Before(log[i], items[j]))
     => Ordered(longer)

LEMMA EmitLog ==
  ASSUME NEW r, NEW q, NEW items \in Seq(Item), r.out \in Seq(Item), Log(r) = r.out,
         q.out = r.out, q.todo = items
  PROVE  Extended(Log(r), items, Log(q))
  <1>1. Log(q) = Log(r) \o items
    BY DEF Log
  <1>2. Log(r) \in Seq(Item)
    OBVIOUS
  <1> QED
    BY <1>1, <1>2, LogConcat DEF Extended

FetchedOne(r, t) == [Emit(r, <<Data(t)>>, "fetch") EXCEPT !.batch = @ \ {t}, !.max = t]

LEMMA FetchEventOK ==
  ASSUME NEW s, NEW r, NEW tr, NEW nw, NEW hz \in Int, NEW cl,
         SessionOK(s, r, tr, nw, hz, cl), r.pc = "fetch", r.batch # {}, tr \subseteq Time,
         NEW t, t = Min(r.batch),
         NEW q, q = FetchedOne(r, t)
  PROVE  SessionOK(s, q, tr, nw, hz, cl) /\ Shrinks(r, q)
  <1>1. /\ r \in SessionType /\ ShapeOK(s, r) /\ PlanOK(s, r, cl) /\ FetchOK(s, r, tr, hz)
        /\ OrderOK(s, r) /\ Phase(r) = "fetch" /\ Streaming(r)
    BY DEF SessionOK, Phase, Streaming
  <1>2. /\ r.todo = << >> /\ Log(r) = r.out /\ r.out \in Seq(Item) /\ r.plan \in Seq(Piece)
        /\ Len(r.plan) \in Nat /\ r.batch \subseteq Int /\ r.max \in Int /\ r.plan # << >>
        /\ Left(r) = 2 .. Len(r.plan) /\ 1 \in 1 .. Len(r.plan)
        /\ \A j \in 1 .. Len(r.plan) :
              /\ r.plan[j].from \in Int /\ r.plan[j].to \in Int /\ r.plan[j].from < r.plan[j].to
        /\ \A k \in 2 .. Len(r.plan) : k \in 1 .. Len(r.plan) /\ r.plan[1].to <= r.plan[k].from
    BY <1>1, StreamingIs
  <1>3. t \in r.batch /\ t \in Time /\ t \in Int /\ \A y \in r.batch : t <= y
    <2>1. r.batch \subseteq Time
      BY <1>1, TypeIs
    <2> QED
      BY <1>2, <2>1, MinMaxTime
  <1>4. /\ q.pc = "emit" /\ q.todo = <<Data(t)>> /\ q.todo # << >> /\ q.back = "fetch" /\ q.out = r.out
        /\ q.batch = r.batch \ {t} /\ q.max = t /\ q.plan = r.plan /\ q.failed = r.failed
        /\ q.unserved = r.unserved /\ Keeps(r, q)
    BY <1>1 DEF SessionType, Emit, Keeps, FetchedOne
  <1>5. q \in SessionType
    <2>1. Data(t) \in Item
      BY <1>3, ItemsAre
    <2>2. <<Data(t)>> \in Seq(Item)
      BY <2>1
    <2>3. r.batch \ {t} \in SUBSET Time
      BY <1>1, TypeIs
    <2> DEFINE items == <<Data(t)>>
               left == r.batch \ {t}
    <2>4. q = [r EXCEPT !.pc = "emit", !.todo = items, !.back = "fetch", !.batch = left, !.max = t]
      BY <1>1 DEF SessionType, Emit, FetchedOne
    <2>5. r \in SessionType /\ items \in Seq(Item) /\ left \in SUBSET Time /\ t \in Int
      BY <1>1, <1>3, <2>2, <2>3
    <2> HIDE DEF items, left
    <2>6. [r EXCEPT !.pc = "emit", !.todo = items, !.back = "fetch"] \in SessionType
      BY <2>5 DEF SessionType, Pcs
    <2> DEFINE mid == [r EXCEPT !.pc = "emit", !.todo = items, !.back = "fetch"]
    <2>7. q = [mid EXCEPT !.batch = left, !.max = t]
      BY <2>4, <2>5 DEF SessionType
    <2> HIDE DEF mid
    <2>8. mid \in SessionType
      BY <2>6 DEF mid
    <2> QED
      BY <2>5, <2>7, <2>8 DEF SessionType
  <1>6. Phase(q) = "fetch" /\ Streaming(q) /\ Working(q) /\ Working(r) /\ Left(q) = Left(r)
    BY <1>1, <1>4 DEF Phase, Streaming, Working, Left
  <1>7. Data(t) \in Item /\ Data(t).kind = "data" /\ Data(t).from = t /\ Data(t).to = t + 1
    BY <1>3, ItemsAre
  <1> DEFINE items == <<Data(t)>>
  <1>8. /\ items \in Seq(Item) /\ Ordered(items) /\ NoError(items) /\ Len(items) = 1 /\ items[1] = Data(t)
        /\ \A x : ToldIn(items, x) <=> Tells(Data(t), x)
        /\ \A p : FrontierOK(p, Data(t)) => Behind(p, items)
    BY <1>7, LogOne
  <1> HIDE DEF items
  <1>9. Extended(Log(r), items, Log(q))
    <2>1. q.todo = items
      BY <1>4 DEF items
    <2> QED
      BY <1>2, <1>4, <1>8, <2>1, EmitLog
  <1>10. /\ t \in tr /\ t < hz /\ r.max < t
         /\ r.plan[1].from <= t /\ t < r.plan[1].to
         /\ r.plan[1].from \in Int /\ r.plan[1].to \in Int /\ r.plan[1].kind = "gap"
    <2>1. 1 \in 1 .. Len(r.plan)
      BY <1>2
    <2>2. r.plan[1].from \in Int /\ r.plan[1].to \in Int
      BY <1>2, <2>1
    <2> QED
      BY <1>1, <1>3, <1>6, <2>2 DEF FetchOK
  <1>11. ShapeOK(s, q)
    <2>1. q.range = r.range
      BY <1>4 DEF Keeps
    <2> QED
      BY <1>1, <1>2, <1>4, <1>6, <2>1 DEF ShapeOK
  <1>12. PlanOK(s, q, cl)
    BY <1>1, <1>4 DEF PlanOK, Keeps
  <1>13. FetchOK(s, q, tr, hz)
    <2>1. \A x \in q.batch : x \in tr /\ x < hz /\ q.max < x /\ q.plan[1].from <= x /\ x < q.plan[1].to
      BY <1>1, <1>2, <1>3, <1>4, <1>6 DEF FetchOK
    <2>2. \A x \in tr : q.plan[1].from <= x /\ x < q.plan[1].to =>
             x \in q.batch \/ x <= q.max \/ x \in q.unserved
      <3>1. tr \subseteq Int
        BY ReadThroughAssumption DEF Time
      <3> QED
        <4> SUFFICES ASSUME NEW x \in tr, r.plan[1].from <= x, x < r.plan[1].to, x \notin r.unserved
                     PROVE  x \in q.batch \/ x <= t
          BY <1>4
        <4>1. x \in r.batch \/ x <= r.max
          BY <1>1, <1>6 DEF FetchOK
        <4> QED
          BY <1>2, <1>3, <1>4, <1>10, <3>1, <4>1
    <2> QED
      BY <1>4, <1>6, <1>10, <2>1, <2>2 DEF FetchOK
  <1>14. OrderOK(s, q)
    <2> SUFFICES Ordered(Log(q)) /\ Behind(q, Log(q))
      BY DEF OrderOK
    <2>1. Ordered(Log(r)) /\ Behind(r, Log(r)) /\ Log(r) \in Seq(Item)
      BY <1>1, <1>2 DEF OrderOK, Timely
    <2>2. ASSUME NEW i \in 1 .. Len(Log(r)), Log(r)[i].kind # "closing"
          PROVE  /\ FrontierOK(q, Log(r)[i])
                 /\ Before(Log(r)[i], Data(t))
      <3>1. Log(r)[i].from \in Int /\ Log(r)[i].to \in Int
        BY <2>1, ItemIs
      <3>2. FrontierOK(r, Log(r)[i])
        BY <2>1, <2>2 DEF Behind
      <3>3. Log(r)[i].from <= t /\ Log(r)[i].to <= t
        BY <1>3, <3>1, <3>2 DEF FrontierOK
      <3>4. Before(Log(r)[i], Data(t))
        BY <1>7, <3>3 DEF Before
      <3>5. /\ Log(r)[i].from <= Log(r)[i].to
            /\ Log(r)[i].kind = "data" => Log(r)[i].from < Log(r)[i].to /\ Log(r)[i].to <= q.range[2]
            /\ \A x \in q.batch : Log(r)[i].to <= x
            /\ \A k \in Left(q) : Log(r)[i].to <= q.plan[k].from
        BY <1>4, <1>6, <3>2 DEF FrontierOK, Keeps
      <3>6. /\ Log(r)[i].to <= Upper(q.plan[1].from, q.max + 1)
            /\ Log(r)[i].from <= Upper(q.plan[1].from, q.max)
        BY <1>3, <1>4, <1>10, <3>1, <3>3 DEF Upper
      <3> QED
        BY <3>4, <3>5, <3>6 DEF FrontierOK
    <2>3. FrontierOK(q, Data(t))
      <3>1. \A k \in Left(q) : t + 1 <= q.plan[k].from
        <4> SUFFICES ASSUME NEW k \in 2 .. Len(r.plan) PROVE t + 1 <= r.plan[k].from
          BY <1>2, <1>4, <1>6
        <4>1. r.plan[1].to <= r.plan[k].from /\ r.plan[k].from \in Int
          BY <1>2
        <4> QED
          BY <1>3, <1>10, <4>1
      <3>2. \A x \in q.batch : t + 1 <= x
        BY <1>2, <1>3, <1>4
      <3>3. t + 1 <= q.range[2]
        <4>1. r.plan[1].to <= r.range[2] /\ r.range[2] \in Int
          BY <1>1, <1>2, StreamingIs
        <4> QED
          BY <1>3, <1>4, <1>10, <4>1 DEF Keeps
      <3> QED
        BY <1>3, <1>4, <1>6, <1>7, <1>10, <3>1, <3>2, <3>3 DEF FrontierOK, Upper
    <2>4. \A i \in 1 .. Len(Log(r)), j \in 1 .. Len(items) : Before(Log(r)[i], items[j])
      BY <1>8, <2>2 DEF Before
    <2>5. Behind(q, Log(r))
      BY <2>2 DEF Behind
    <2> QED
      BY <1>8, <1>9, <2>1, <2>3, <2>4, <2>5 DEF Extended
  <1>15. \A x : Accounted(r, x) => Accounted(q, x)
    <2>1. Tells(Data(t), t)
      BY <1>3, <1>7 DEF Tells
    <2> QED
      BY <1>4, <1>6, <1>8, <1>9, <2>1 DEF Accounted, InPlan, Extended
  <1>16. WholeOK(s, q, tr) /\ SeamOK(s, q, tr, nw)
    <2>1. \A x : ToldIn(Log(r), x) => ToldIn(Log(q), x)
      BY <1>9 DEF Extended
    <2>2. NoError(Log(q)) => NoError(Log(r))
      BY <1>9 DEF Extended
    <2> QED
      BY <1>1, <1>4, <1>6, <1>15, <2>1, <2>2, StreamOK
  <1>17. Shrinks(r, q)
    BY <1>4, <1>6 DEF Shrinks, Keeps
  <1> QED
    BY <1>5, <1>11, <1>12, <1>13, <1>14, <1>16, <1>17 DEF SessionOK

(* The log in order, one step on.                                           *)
LEMMA OrderStep ==
  ASSUME NEW s, NEW r, NEW q, NEW items, OrderOK(s, r), Log(r) \in Seq(Item),
         Extended(Log(r), items, Log(q)), Ordered(items), Timely(s, q) => Timely(s, r),
         Timely(s, q) =>
           /\ Behind(q, items)
           /\ \A item \in Item : item.kind # "closing" /\ FrontierOK(r, item) =>
                FrontierOK(q, item) /\ \A j \in 1 .. Len(items) : Before(item, items[j])
  PROVE  OrderOK(s, q)
  <1> SUFFICES ASSUME Timely(s, q) PROVE Ordered(Log(q)) /\ Behind(q, Log(q))
    BY DEF OrderOK
  <1>1. Ordered(Log(r)) /\ Behind(r, Log(r))
    BY DEF OrderOK
  <1>2. ASSUME NEW i \in 1 .. Len(Log(r)) PROVE Log(r)[i] \in Item
    OBVIOUS
  <1>3. Behind(q, Log(r))
    BY <1>1, <1>2 DEF Behind
  <1>4. \A i \in 1 .. Len(Log(r)), j \in 1 .. Len(items) : Before(Log(r)[i], items[j])
    <2> SUFFICES ASSUME NEW i \in 1 .. Len(Log(r)), NEW j \in 1 .. Len(items)
                 PROVE  Before(Log(r)[i], items[j])
      OBVIOUS
    <2>1. CASE Log(r)[i].kind = "closing"
      BY <2>1 DEF Before
    <2>2. CASE Log(r)[i].kind # "closing"
      BY <1>1, <1>2, <2>2 DEF Behind
    <2> QED
      BY <2>1, <2>2
  <1> QED
    BY <1>1, <1>3, <1>4 DEF Extended

LEMMA OrderStays ==
  ASSUME NEW s, NEW r, NEW q, OrderOK(s, r), Log(r) \in Seq(Item), Log(q) = Log(r),
         Timely(s, q) => Timely(s, r),
         Timely(s, q) => \A item \in Item : FrontierOK(r, item) => FrontierOK(q, item)
  PROVE  OrderOK(s, q)
  <1>1. ASSUME NEW i \in 1 .. Len(Log(r)) PROVE Log(r)[i] \in Item
    OBVIOUS
  <1> QED
    BY <1>1 DEF OrderOK, Behind

LEMMA ReplayEventOK ==
  ASSUME NEW s, NEW r, NEW tr, NEW nw, NEW hz \in Int, NEW cl,
         SessionOK(s, r, tr, nw, hz, cl), r.pc = "replay", r.batch # {},
         NEW t, t = Min(r.batch),
         NEW q, q = [Emit(r, <<Data(t)>>, "replay") EXCEPT !.batch = @ \ {t}]
  PROVE  SessionOK(s, q, tr, nw, hz, cl) /\ Shrinks(r, q)
  <1>1. /\ r \in SessionType /\ ShapeOK(s, r) /\ PlanOK(s, r, cl) /\ FetchOK(s, r, tr, hz)
        /\ OrderOK(s, r) /\ Phase(r) = "replay" /\ Streaming(r)
    BY DEF SessionOK, Phase, Streaming
  <1>2. /\ r.todo = << >> /\ Log(r) = r.out /\ r.out \in Seq(Item) /\ r.plan \in Seq(Piece)
        /\ r.batch \subseteq Int /\ r.plan # << >>
        /\ Left(r) = 2 .. Len(r.plan) /\ 1 \in 1 .. Len(r.plan)
        /\ \A j \in 1 .. Len(r.plan) : r.plan[j].from \in Int /\ r.plan[j].to \in Int
        /\ \A k \in 2 .. Len(r.plan) : k \in 1 .. Len(r.plan) /\ r.plan[1].to <= r.plan[k].from
    BY <1>1, StreamingIs
  <1>3. t \in r.batch /\ t \in Time /\ t \in Int /\ \A y \in r.batch : t <= y
    <2>1. r.batch \subseteq Time
      BY <1>1, TypeIs
    <2> QED
      BY <1>2, <2>1, MinMaxTime
  <1>4. /\ q.pc = "emit" /\ q.todo = <<Data(t)>> /\ q.todo # << >> /\ q.back = "replay" /\ q.out = r.out
        /\ q.batch = r.batch \ {t} /\ q.max = r.max /\ q.plan = r.plan /\ q.failed = r.failed
        /\ q.unserved = r.unserved /\ Keeps(r, q)
    BY <1>1 DEF SessionType, Emit, Keeps
  <1>5. Data(t) \in Item /\ Data(t).kind = "data" /\ Data(t).from = t /\ Data(t).to = t + 1
    BY <1>3, ItemsAre
  <1>6. q \in SessionType
    <2>1. <<Data(t)>> \in Seq(Item)
      BY <1>5
    <2> QED
      BY <1>1, <1>3, <2>1 DEF SessionType, Emit, Pcs
  <1>7. Phase(q) = "replay" /\ Streaming(q) /\ Working(q) /\ Working(r) /\ Left(q) = Left(r)
    BY <1>1, <1>4 DEF Phase, Streaming, Working, Left
  <1> DEFINE items == <<Data(t)>>
  <1>8. /\ items \in Seq(Item) /\ Ordered(items) /\ NoError(items) /\ Len(items) = 1 /\ items[1] = Data(t)
        /\ \A x : ToldIn(items, x) <=> Tells(Data(t), x)
        /\ \A p : FrontierOK(p, Data(t)) => Behind(p, items)
    BY <1>5, LogOne
  <1> HIDE DEF items
  <1>9. Extended(Log(r), items, Log(q))
    <2>1. q.todo = items
      BY <1>4 DEF items
    <2> QED
      BY <1>2, <1>4, <1>8, <2>1, EmitLog
  <1>10. /\ r.plan[1].from <= t /\ t < r.plan[1].to
         /\ r.plan[1].from \in Int /\ r.plan[1].to \in Int
    BY <1>1, <1>2, <1>3, <1>7 DEF FetchOK
  <1>11. ShapeOK(s, q)
    <2>1. q.range = r.range
      BY <1>4 DEF Keeps
    <2> QED
      BY <1>1, <1>2, <1>4, <1>7, <2>1 DEF ShapeOK
  <1>12. PlanOK(s, q, cl) /\ FetchOK(s, q, tr, hz)
    BY <1>1, <1>4, <1>7 DEF PlanOK, FetchOK, Keeps
  <1>13. OrderOK(s, q)
    <2>1. ASSUME NEW item \in Item, item.kind # "closing", FrontierOK(r, item)
          PROVE  FrontierOK(q, item) /\ \A j \in 1 .. Len(items) : Before(item, items[j])
      <3>1. item.from <= t /\ item.to <= t
        BY <1>3, <2>1, ItemIs DEF FrontierOK
      <3>2. Before(item, Data(t))
        BY <1>5, <3>1 DEF Before
      <3>3. FrontierOK(q, item)
        BY <1>4, <1>7, <2>1 DEF FrontierOK, Keeps
      <3> QED
        BY <1>8, <3>2, <3>3
    <2>2. FrontierOK(q, Data(t))
      <3>1. \A k \in Left(q) : t + 1 <= q.plan[k].from
        <4> SUFFICES ASSUME NEW k \in 2 .. Len(r.plan) PROVE t + 1 <= r.plan[k].from
          BY <1>2, <1>4, <1>7
        <4>1. r.plan[1].to <= r.plan[k].from /\ r.plan[k].from \in Int
          BY <1>2
        <4> QED
          BY <1>3, <1>10, <4>1
      <3>2. \A x \in q.batch : t + 1 <= x
        BY <1>2, <1>3, <1>4
      <3>3. Data(t).from <= Data(t).to /\ Data(t).from < Data(t).to /\ Phase(q) \notin {"fetch", "settle"}
        BY <1>3, <1>5, <1>7
      <3>4. t + 1 <= q.range[2]
        <4>1. r.plan[1].to <= r.range[2] /\ r.range[2] \in Int
          BY <1>1, <1>2, StreamingIs
        <4> QED
          BY <1>3, <1>4, <1>10, <4>1 DEF Keeps
      <3> QED
        BY <1>5, <3>1, <3>2, <3>3, <3>4 DEF FrontierOK
    <2> QED
      BY <1>1, <1>2, <1>8, <1>9, <2>1, <2>2, OrderStep DEF Timely
  <1>14. \A x : Accounted(r, x) => Accounted(q, x)
    <2>1. Tells(Data(t), t)
      BY <1>3, <1>5 DEF Tells
    <2> QED
      BY <1>4, <1>7, <1>8, <1>9, <2>1 DEF Accounted, InPlan, Extended
  <1>15. WholeOK(s, q, tr) /\ SeamOK(s, q, tr, nw)
    <2>1. \A x : ToldIn(Log(r), x) => ToldIn(Log(q), x)
      BY <1>9 DEF Extended
    <2>2. NoError(Log(q)) => NoError(Log(r))
      BY <1>9 DEF Extended
    <2> QED
      BY <1>1, <1>4, <1>7, <1>14, <2>1, <2>2, StreamOK
  <1>16. Shrinks(r, q)
    BY <1>4, <1>7 DEF Shrinks, Keeps
  <1> QED
    BY <1>6, <1>11, <1>12, <1>13, <1>15, <1>16 DEF SessionOK

(* The rest of a plan is as good as the plan.                               *)
LEMMA PlanRestOK ==
  ASSUME NEW s, NEW r, NEW cl, PlanOK(s, r, cl), Len(r.plan) \in Nat,
         NEW q, q.range = r.range, Len(q.plan) = Len(r.plan) - 1,
         \A k \in 1 .. Len(q.plan) : k + 1 \in 2 .. Len(r.plan) /\ q.plan[k] = r.plan[k + 1]
  PROVE  PlanOK(s, q, cl)
  <1>1. \A k \in 1 .. Len(q.plan) : k + 1 \in 1 .. Len(r.plan)
    OBVIOUS
  <1>2. ASSUME NEW j \in 1 .. Len(q.plan), NEW k \in 1 .. Len(q.plan), j < k
        PROVE  q.plan[j].to <= q.plan[k].from
    <2>1. j + 1 < k + 1
      BY <1>2
    <2> QED
      BY <1>1, <2>1 DEF PlanOK
  <1>3. ASSUME NEW j \in 1 .. Len(q.plan)
        PROVE  /\ r.range[1] <= q.plan[j].from /\ q.plan[j].from < q.plan[j].to /\ q.plan[j].to <= r.range[2]
               /\ q.plan[j].kind = "covered" =>
                    \A x \in Int : q.plan[j].from <= x /\ x < q.plan[j].to => x \in cl
    <2> DEFINE piece == r.plan[j + 1]
    <2>1. j + 1 \in 1 .. Len(r.plan) /\ q.plan[j] = piece
      BY <1>1
    <2>2. /\ r.range[1] <= piece.from /\ piece.from < piece.to /\ piece.to <= r.range[2]
          /\ piece.kind = "covered" =>
               \A x \in Int : piece.from <= x /\ x < piece.to => x \in cl
      BY <2>1 DEF PlanOK
    <2> HIDE DEF piece
    <2> QED
      BY <2>1, <2>2
  <1> QED
    BY <1>2, <1>3 DEF PlanOK

(* A segment replayed, or fetched and settled, is left behind.              *)
LEMMA NextSegmentOK ==
  ASSUME NEW s, NEW r, NEW tr, NEW nw, NEW hz \in Int, NEW cl,
         SessionOK(s, r, tr, nw, hz, cl), r.pc \in {"replay", "settle"}, r.batch = {},
         NEW q, q = NextSegment(r)
  PROVE  SessionOK(s, q, tr, nw, hz, cl) /\ Shrinks(r, q)
  <1>1. /\ r \in SessionType /\ ShapeOK(s, r) /\ PlanOK(s, r, cl)
        /\ OrderOK(s, r) /\ Phase(r) = r.pc /\ Streaming(r) /\ r.pc # "next" /\ r.pc # "emit"
    BY DEF SessionOK, Phase, Streaming
  <1>2. /\ r.todo = << >> /\ Log(r) = r.out /\ r.out \in Seq(Item) /\ r.plan \in Seq(Piece)
        /\ r.plan # << >> /\ Left(r) = 2 .. Len(r.plan)
    BY <1>1, StreamingIs
  <1>3. /\ q.pc = "next" /\ q.todo = r.todo /\ q.back = r.back /\ q.out = r.out
        /\ q.batch = {} /\ q.max = -1 /\ q.plan = Tail(r.plan) /\ q.failed = r.failed
        /\ q.unserved = r.unserved /\ Keeps(r, q)
    BY <1>1 DEF SessionType, NextSegment, Keeps
  <1>4. /\ q.plan \in Seq(Piece) /\ Len(q.plan) = Len(r.plan) - 1 /\ Len(r.plan) \in Nat
        /\ \A k \in 1 .. Len(q.plan) : k + 1 \in 2 .. Len(r.plan) /\ q.plan[k] = r.plan[k + 1]
        /\ \A k \in 2 .. Len(r.plan) : k - 1 \in 1 .. Len(q.plan) /\ q.plan[k - 1] = r.plan[k]
    BY <1>2, <1>3, PlanTail
  <1>5. q \in SessionType
    <2> DEFINE rest == Tail(r.plan)
               none == -1
               nothing == {}
    <2>1. rest \in Seq(Piece) /\ none \in Int /\ nothing \subseteq Time
      BY <1>3, <1>4
    <2>2. q = [r EXCEPT !.pc = "next", !.plan = rest, !.max = none, !.batch = nothing]
      BY <1>1 DEF SessionType, NextSegment
    <2>3. ASSUME NEW p \in Seq(Piece), NEW m \in Int, NEW b, b \subseteq Time
          PROVE  [r EXCEPT !.pc = "next", !.plan = p, !.max = m, !.batch = b] \in SessionType
      BY <1>1, <2>3 DEF SessionType, Pcs
    <2> HIDE DEF rest, none, nothing
    <2>4. [r EXCEPT !.pc = "next", !.plan = rest, !.max = none, !.batch = nothing] \in SessionType
      BY <2>1, <2>3, Zenon
    <2> QED
      BY <2>2, <2>4
  <1>6. /\ Phase(q) = "next" /\ Streaming(q) /\ ~Working(q) /\ Left(q) = 1 .. Len(q.plan)
        /\ Log(q) = Log(r)
    BY <1>3 DEF Phase, Streaming, Working, Left, Log
  <1>7. ShapeOK(s, q)
    <2>1. q.range = r.range /\ r.back # "emit" /\ r.back # "done" /\ (s \in Historical => r.range \in Ranges)
      BY <1>1, <1>3, StreamingIs DEF Keeps
    <2> QED
      BY <1>2, <1>3, <1>6, <2>1 DEF ShapeOK
  <1>8. PlanOK(s, q, cl)
    BY <1>1, <1>3, <1>4, PlanRestOK DEF Keeps
  <1>9. FetchOK(s, q, tr, hz)
    BY <1>6 DEF FetchOK
  <1>10. OrderOK(s, q)
    <2>1. ASSUME NEW item \in Item, FrontierOK(r, item) PROVE FrontierOK(q, item)
      <3>1. q.range = r.range
        BY <1>3 DEF Keeps
      <3>2. \A k \in Left(q) : k + 1 \in Left(r) /\ q.plan[k] = r.plan[k + 1]
        BY <1>2, <1>4, <1>6
      <3>3. \A k \in Left(q) : item.to <= q.plan[k].from
        BY <2>1, <3>2 DEF FrontierOK
      <3> QED
        BY <1>3, <1>6, <2>1, <3>1, <3>3 DEF FrontierOK
    <2> QED
      BY <1>1, <1>2, <1>6, <2>1, OrderStays DEF Timely
  <1>11. \A x : Accounted(r, x) => Accounted(q, x)
    BY <1>2, <1>4, <1>6 DEF Accounted, InPlan
  <1>12. WholeOK(s, q, tr) /\ SeamOK(s, q, tr, nw)
    BY <1>1, <1>3, <1>6, <1>11, StreamOK
  <1>13. Shrinks(r, q)
    <2>1. \A k \in 1 .. Len(q.plan) : k + 1 \in 1 .. Len(r.plan)
      BY <1>4
    <2> QED
      BY <1>3, <1>4, <1>6, <2>1 DEF Shrinks, Keeps
  <1> QED
    BY <1>5, <1>7, <1>8, <1>9, <1>10, <1>12, <1>13 DEF SessionOK

RowsRead(r, rw, lg) ==
  [r EXCEPT !.pc = "replay", !.batch = rw \cap Span(Head(r.plan).from, Head(r.plan).to),
            !.unserved = @ \cup (lg \cap Span(Head(r.plan).from, Head(r.plan).to))]

(* Opening a covered segment reads its rows, and the coverage is kept by    *)
(* the table but for what was asked for too early.                          *)
LEMMA OpenReplayOK ==
  ASSUME NEW s, NEW r, NEW tr, NEW nw, NEW hz \in Int, NEW cl, NEW rw, NEW lg,
         SessionOK(s, r, tr, nw, hz, cl), r.pc = "next", r.plan # << >>, Head(r.plan).kind = "covered",
         tr \subseteq Int, rw \subseteq Time, lg \subseteq Int, tr \cap cl \subseteq rw \cup lg,
         NEW q, q = RowsRead(r, rw, lg)
  PROVE  SessionOK(s, q, tr, nw, hz, cl) /\ Shrinks(r, q)
  <1> DEFINE f == r.plan[1].from
             t == r.plan[1].to
  <1>1. /\ r \in SessionType /\ ShapeOK(s, r) /\ PlanOK(s, r, cl)
        /\ OrderOK(s, r) /\ Phase(r) = "next" /\ Streaming(r) /\ r.pc # "emit"
    BY DEF SessionOK, Phase, Streaming
  <1>2. /\ r.todo = << >> /\ Log(r) = r.out /\ r.out \in Seq(Item) /\ r.plan \in Seq(Piece)
        /\ r.max = -1 /\ r.batch = {}
        /\ Left(r) = 1 .. Len(r.plan) /\ Len(r.plan) \in Nat
        /\ r.back # "emit" /\ r.back # "done" /\ (s \in Historical => r.range \in Ranges)
        /\ \A k \in 2 .. Len(r.plan) : k \in 1 .. Len(r.plan)
    BY <1>1, StreamingIs
  <1>3. Head(r.plan) = r.plan[1] /\ 1 \in 1 .. Len(r.plan)
    BY <1>2, PlanTail
  <1>4. f \in Int /\ t \in Int /\ f < t /\ r.plan[1].kind = "covered"
        /\ \A x \in Int : f <= x /\ x < t => x \in cl
    BY <1>1, <1>2, <1>3, PieceIs DEF PlanOK
  <1>5. /\ q.pc = "replay" /\ q.todo = r.todo /\ q.back = r.back /\ q.out = r.out
        /\ q.batch = rw \cap Span(f, t) /\ q.max = r.max /\ q.plan = r.plan /\ q.failed = r.failed
        /\ q.unserved = r.unserved \cup (lg \cap Span(f, t)) /\ Keeps(r, q)
    BY <1>1, <1>3 DEF SessionType, Keeps, RowsRead
  <1>6. q \in SessionType
    <2> DEFINE some == rw \cap Span(f, t)
               lost == r.unserved \cup (lg \cap Span(f, t))
    <2>1. some \subseteq Time /\ lost \subseteq Int
      BY <1>1, TypeIs
    <2>2. q = [r EXCEPT !.pc = "replay", !.batch = some, !.unserved = lost]
      BY <1>1, <1>3 DEF SessionType, RowsRead
    <2>3. ASSUME NEW b, b \subseteq Time, NEW u, u \subseteq Int
          PROVE  [r EXCEPT !.pc = "replay", !.batch = b, !.unserved = u] \in SessionType
      BY <1>1, <2>3 DEF SessionType, Pcs
    <2> HIDE DEF some, lost
    <2>4. [r EXCEPT !.pc = "replay", !.batch = some, !.unserved = lost] \in SessionType
      BY <2>1, <2>3, Zenon
    <2> QED
      BY <2>2, <2>4
  <1>7. /\ Phase(q) = "replay" /\ Streaming(q) /\ Working(q) /\ Left(q) = 2 .. Len(r.plan)
        /\ Log(q) = Log(r)
    BY <1>5 DEF Phase, Streaming, Working, Left, Log
  <1>8. /\ \A x : x \in q.batch <=> x \in rw /\ x \in Int /\ f <= x /\ x < t
        /\ \A x \in Int : x \in lg /\ f <= x /\ x < t => x \in q.unserved
        /\ r.unserved \subseteq q.unserved
    BY <1>4, <1>5 DEF Span
  <1> HIDE DEF f, t
  <1>9. ShapeOK(s, q)
    <2>1. q.range = r.range
      BY <1>5 DEF Keeps
    <2> QED
      BY <1>2, <1>5, <1>7, <2>1 DEF ShapeOK
  <1>10. PlanOK(s, q, cl)
    BY <1>1, <1>5 DEF PlanOK, Keeps
  <1>11. FetchOK(s, q, tr, hz)
    BY <1>4, <1>5, <1>7, <1>8 DEF FetchOK, f, t
  <1>12. OrderOK(s, q)
    <2>1. ASSUME NEW item \in Item, FrontierOK(r, item) PROVE FrontierOK(q, item)
      <3>1. item.from \in Int /\ item.to \in Int /\ item.from <= item.to
        BY <2>1, ItemIs DEF FrontierOK
      <3>2. \A k \in 1 .. Len(r.plan) : item.to <= r.plan[k].from
        BY <1>2, <2>1 DEF FrontierOK
      <3>3. item.to <= f
        BY <1>3, <3>2 DEF f
      <3>4. \A x \in q.batch : item.to <= x
        BY <1>4, <1>8, <3>1, <3>3
      <3>5. \A k \in Left(q) : item.to <= q.plan[k].from
        BY <1>2, <1>5, <1>7, <3>2
      <3> QED
        BY <1>5, <1>7, <2>1, <3>1, <3>4, <3>5 DEF FrontierOK, Keeps
    <2> QED
      BY <1>1, <1>2, <1>7, <2>1, OrderStays DEF Timely
  <1>13. \A x \in tr : Accounted(r, x) => Accounted(q, x) \/ x \in q.unserved
    <2> SUFFICES ASSUME NEW x \in tr, InPlan(r, x), x \notin q.batch, x \notin q.unserved
                 PROVE  InPlan(q, x)
      BY <1>2, <1>7 DEF Accounted
    <2>1. PICK k \in 1 .. Len(r.plan) : r.plan[k].from <= x /\ x < r.plan[k].to
      BY <1>2 DEF InPlan
    <2>2. k # 1
      BY <1>4, <1>8, <2>1 DEF f, t
    <2>3. k \in 2 .. Len(r.plan)
      BY <1>2, <2>1, <2>2
    <2> QED
      BY <1>5, <1>7, <2>1, <2>3 DEF InPlan
  <1>14. WholeOK(s, q, tr) /\ SeamOK(s, q, tr, nw)
    BY <1>1, <1>5, <1>7, <1>8, <1>13, StreamOK
  <1>15. Shrinks(r, q)
    BY <1>5, <1>7 DEF Shrinks, Keeps
  <1> QED
    BY <1>6, <1>9, <1>10, <1>11, <1>12, <1>14, <1>15 DEF SessionOK

(* A covered segment that cannot be opened becomes a gap.                   *)
LEMMA ReplayGapOK ==
  ASSUME NEW s, NEW r, NEW tr, NEW nw, NEW hz \in Int, NEW cl,
         SessionOK(s, r, tr, nw, hz, cl), r.pc = "next", r.plan # << >>, tr \subseteq Int,
         NEW q, q = [Emit(r, <<Gap(Head(r.plan).from, Head(r.plan).to)>>, "next")
                       EXCEPT !.plan = Tail(r.plan)]
  PROVE  SessionOK(s, q, tr, nw, hz, cl) /\ Shrinks(r, q)
  <1> DEFINE f == r.plan[1].from
             t == r.plan[1].to
             items == <<Gap(f, t)>>
  <1>1. /\ r \in SessionType /\ ShapeOK(s, r) /\ PlanOK(s, r, cl)
        /\ OrderOK(s, r) /\ Phase(r) = "next" /\ Streaming(r) /\ r.pc # "emit"
    BY DEF SessionOK, Phase, Streaming
  <1>2. /\ r.todo = << >> /\ Log(r) = r.out /\ r.out \in Seq(Item) /\ r.plan \in Seq(Piece)
        /\ r.max = -1 /\ r.batch = {}
        /\ Left(r) = 1 .. Len(r.plan) /\ Len(r.plan) \in Nat
        /\ (s \in Historical => r.range \in Ranges)
        /\ \A k \in 2 .. Len(r.plan) : k \in 1 .. Len(r.plan) /\ r.plan[1].to <= r.plan[k].from
    BY <1>1, StreamingIs
  <1>3. /\ Head(r.plan) = r.plan[1] /\ 1 \in 1 .. Len(r.plan)
        /\ Tail(r.plan) \in Seq(Piece) /\ Len(Tail(r.plan)) = Len(r.plan) - 1
        /\ \A k \in 1 .. Len(Tail(r.plan)) : k + 1 \in 2 .. Len(r.plan) /\ Tail(r.plan)[k] = r.plan[k + 1]
        /\ \A k \in 2 .. Len(r.plan) : k - 1 \in 1 .. Len(Tail(r.plan)) /\ Tail(r.plan)[k - 1] = r.plan[k]
    BY <1>2, PlanTail
  <1>4. f \in Int /\ t \in Int /\ f < t
    BY <1>1, <1>2, <1>3, PieceIs DEF PlanOK
  <1>5. /\ Gap(f, t) \in Item /\ Gap(f, t).kind = "gap" /\ Gap(f, t).from = f /\ Gap(f, t).to = t
    BY <1>4, ItemsAre
  <1>6. /\ items \in Seq(Item) /\ Ordered(items) /\ NoError(items) /\ Len(items) = 1
        /\ items[1] = Gap(f, t) /\ items # << >>
        /\ \A x : ToldIn(items, x) <=> Tells(Gap(f, t), x)
        /\ \A p : FrontierOK(p, Gap(f, t)) => Behind(p, items)
    BY <1>5, LogOne
  <1> DEFINE rest == Tail(r.plan)
  <1>7. q = [r EXCEPT !.pc = "emit", !.todo = items, !.back = "next", !.plan = rest]
    BY <1>1, <1>3 DEF SessionType, Emit
  <1> HIDE DEF items, rest, f, t
  <1>8. /\ q.pc = "emit" /\ q.todo = items /\ q.back = "next" /\ q.out = r.out
        /\ q.batch = {} /\ q.max = -1 /\ q.plan = rest /\ q.failed = r.failed
        /\ q.unserved = r.unserved /\ Keeps(r, q)
    BY <1>1, <1>2, <1>7 DEF SessionType, Keeps
  <1>9. q \in SessionType
    <2>1. rest \in Seq(Piece)
      BY <1>3 DEF rest
    <2>2. ASSUME NEW i \in Seq(Item), NEW p \in Seq(Piece)
          PROVE  [r EXCEPT !.pc = "emit", !.todo = i, !.back = "next", !.plan = p] \in SessionType
      BY <1>1, <2>2 DEF SessionType, Pcs
    <2>3. [r EXCEPT !.pc = "emit", !.todo = items, !.back = "next", !.plan = rest] \in SessionType
      BY <1>6, <2>1, <2>2, Zenon
    <2> QED
      BY <1>7, <2>3
  <1>10. Phase(q) = "next" /\ Streaming(q) /\ ~Working(q) /\ Left(q) = 1 .. Len(rest)
    BY <1>8 DEF Phase, Streaming, Working, Left
  <1>11. Extended(Log(r), items, Log(q))
    BY <1>2, <1>6, <1>8, EmitLog
  <1>12. ShapeOK(s, q)
    <2>1. q.range = r.range
      BY <1>8 DEF Keeps
    <2> QED
      BY <1>2, <1>6, <1>8, <1>10, <2>1 DEF ShapeOK
  <1>13. /\ Len(rest) = Len(r.plan) - 1
         /\ \A k \in 1 .. Len(rest) : k + 1 \in 2 .. Len(r.plan) /\ k + 1 \in 1 .. Len(r.plan) /\ rest[k] = r.plan[k + 1]
         /\ \A k \in 2 .. Len(r.plan) : k - 1 \in 1 .. Len(rest) /\ rest[k - 1] = r.plan[k]
    BY <1>2, <1>3 DEF rest
  <1>14. PlanOK(s, q, cl)
    <2>1. q.range = r.range /\ Len(q.plan) = Len(r.plan) - 1
      BY <1>8, <1>13 DEF Keeps
    <2>2. \A k \in 1 .. Len(q.plan) : k + 1 \in 2 .. Len(r.plan) /\ q.plan[k] = r.plan[k + 1]
      BY <1>8, <1>13
    <2> QED
      BY <1>1, <1>2, <2>1, <2>2, PlanRestOK
  <1>15. FetchOK(s, q, tr, hz)
    BY <1>10 DEF FetchOK
  <1>16. OrderOK(s, q)
    <2>1. ASSUME NEW item \in Item, FrontierOK(r, item)
          PROVE  FrontierOK(q, item) /\ \A j \in 1 .. Len(items) : Before(item, items[j])
      <3>1. item.from \in Int /\ item.to \in Int /\ item.from <= item.to
        BY <2>1, ItemIs DEF FrontierOK
      <3>2. \A k \in 1 .. Len(r.plan) : item.to <= r.plan[k].from
        BY <1>2, <2>1 DEF FrontierOK
      <3>3. item.to <= f
        BY <1>3, <3>2 DEF f
      <3>4. Before(item, Gap(f, t))
        BY <1>4, <1>5, <3>1, <3>3 DEF Before
      <3>5. \A k \in Left(q) : item.to <= q.plan[k].from
        BY <1>8, <1>10, <1>13, <3>2
      <3>6. FrontierOK(q, item)
        BY <1>8, <1>10, <2>1, <3>1, <3>5 DEF FrontierOK, Keeps
      <3> QED
        BY <1>6, <3>4, <3>6
    <2>2. FrontierOK(q, Gap(f, t))
      <3>1. ASSUME NEW k \in 1 .. Len(rest) PROVE t <= rest[k].from
        BY <1>2, <1>13 DEF t
      <3> QED
        BY <1>4, <1>5, <1>8, <1>10, <3>1 DEF FrontierOK
    <2> QED
      BY <1>1, <1>2, <1>6, <1>10, <1>11, <2>1, <2>2, OrderStep DEF Timely
  <1>17. \A x \in tr : Accounted(r, x) => Accounted(q, x)
    <2> SUFFICES ASSUME NEW x \in tr, InPlan(r, x), ~ToldIn(Log(q), x) PROVE InPlan(q, x)
      BY <1>2, <1>11 DEF Accounted, Extended
    <2>1. PICK k \in 1 .. Len(r.plan) : r.plan[k].from <= x /\ x < r.plan[k].to
      BY <1>2 DEF InPlan
    <2>2. ~Tells(Gap(f, t), x)
      BY <1>6, <1>11 DEF Extended
    <2>3. k # 1
      BY <1>5, <2>1, <2>2 DEF f, t, Tells
    <2>4. k \in 2 .. Len(r.plan)
      BY <1>2, <2>1, <2>3
    <2> QED
      BY <1>8, <1>10, <1>13, <2>1, <2>4 DEF InPlan
  <1>18. WholeOK(s, q, tr) /\ SeamOK(s, q, tr, nw)
    <2>1. \A x : ToldIn(Log(r), x) => ToldIn(Log(q), x)
      BY <1>11 DEF Extended
    <2>2. NoError(Log(q)) => NoError(Log(r))
      BY <1>11 DEF Extended
    <2> QED
      BY <1>1, <1>8, <1>10, <1>17, <2>1, <2>2, StreamOK
  <1>19. Shrinks(r, q)
    BY <1>8, <1>10, <1>13 DEF Shrinks, Keeps
  <1> QED
    BY <1>9, <1>12, <1>14, <1>15, <1>16, <1>18, <1>19 DEF SessionOK

(* A fetch starts with what the endpoint serves of the segment.             *)
LEMMA StartFetchOK ==
  ASSUME NEW s, NEW r, NEW tr, NEW nw, NEW hz \in Int, NEW cl,
         SessionOK(s, r, tr, nw, hz, cl), r.pc = "next", r.plan # << >>, Head(r.plan).kind = "gap",
         tr \subseteq Time,
         NEW q, q = [r EXCEPT !.pc = "fetch",
                       !.batch = tr \cap Span(Head(r.plan).from, Lower(Head(r.plan).to, hz)),
                       !.unserved = @ \cup (tr \cap Span(Upper(Head(r.plan).from, hz),
                                                         Head(r.plan).to))]
  PROVE  SessionOK(s, q, tr, nw, hz, cl) /\ Shrinks(r, q)
  <1> DEFINE f == r.plan[1].from
             t == r.plan[1].to
             some == tr \cap Span(f, Lower(t, hz))
             late == tr \cap Span(Upper(f, hz), t)
  <1>1. /\ r \in SessionType /\ ShapeOK(s, r) /\ PlanOK(s, r, cl)
        /\ OrderOK(s, r) /\ Phase(r) = "next" /\ Streaming(r) /\ r.pc # "emit"
    BY DEF SessionOK, Phase, Streaming
  <1>2. /\ r.todo = << >> /\ Log(r) = r.out /\ r.out \in Seq(Item) /\ r.plan \in Seq(Piece)
        /\ r.max = -1 /\ r.batch = {}
        /\ Left(r) = 1 .. Len(r.plan) /\ Len(r.plan) \in Nat
        /\ r.back # "emit" /\ r.back # "done" /\ (s \in Historical => r.range \in Ranges)
        /\ r.range[1] \in Int /\ r.range[2] \in Int
        /\ \A k \in 2 .. Len(r.plan) : k \in 1 .. Len(r.plan)
    BY <1>1, StreamingIs
  <1>3. Head(r.plan) = r.plan[1] /\ 1 \in 1 .. Len(r.plan)
    BY <1>2, PlanTail
  <1>4. f \in Int /\ t \in Int /\ f < t /\ r.plan[1].kind = "gap" /\ t <= r.range[2]
    BY <1>1, <1>2, <1>3, PieceIs DEF PlanOK
  <1>5. tr \subseteq Int /\ (\A x \in tr : x \in Time /\ -1 < x)
    BY ReadThroughAssumption DEF Time
  <1>6. /\ \A x : x \in some <=> x \in tr /\ f <= x /\ x < t /\ x < hz
        /\ \A x : x \in late <=> x \in tr /\ f <= x /\ hz <= x /\ x < t
    <2>1. Lower(t, hz) \in Int /\ \A x \in Int : x < Lower(t, hz) <=> x < t /\ x < hz
      BY <1>4 DEF Lower
    <2>2. Upper(f, hz) \in Int /\ \A x \in Int : Upper(f, hz) <= x <=> f <= x /\ hz <= x
      BY <1>4 DEF Upper
    <2>3. ASSUME NEW m \in Int, NEW n \in Int, NEW x
          PROVE  x \in Span(m, n) <=> x \in Int /\ m <= x /\ x < n
      BY DEF Span
    <2> QED
      BY <1>4, <1>5, <2>1, <2>2, <2>3
  <1>7. q = [r EXCEPT !.pc = "fetch", !.batch = some, !.unserved = r.unserved \cup late]
    BY <1>1, <1>3 DEF SessionType
  <1> HIDE DEF some, late, f, t
  <1>8. /\ q.pc = "fetch" /\ q.todo = r.todo /\ q.back = r.back /\ q.out = r.out
        /\ q.batch = some /\ q.max = -1 /\ q.plan = r.plan /\ q.failed = r.failed
        /\ q.unserved = r.unserved \cup late /\ Keeps(r, q)
    BY <1>1, <1>2, <1>7 DEF SessionType, Keeps
  <1>9. q \in SessionType
    <2> DEFINE lost == r.unserved \cup late
    <2>1. some \subseteq Time /\ late \subseteq Int
      BY <1>5, <1>6
    <2>2. lost \subseteq Int
      BY <1>1, <2>1, TypeIs
    <2>3. q = [r EXCEPT !.pc = "fetch", !.batch = some, !.unserved = lost]
      BY <1>7
    <2>4. ASSUME NEW b, b \subseteq Time, NEW u, u \subseteq Int
          PROVE  [r EXCEPT !.pc = "fetch", !.batch = b, !.unserved = u] \in SessionType
      BY <1>1, <2>4 DEF SessionType, Pcs
    <2> HIDE DEF lost
    <2>5. [r EXCEPT !.pc = "fetch", !.batch = some, !.unserved = lost] \in SessionType
      BY <2>1, <2>2, <2>4, Zenon
    <2> QED
      BY <2>3, <2>5
  <1>10. /\ Phase(q) = "fetch" /\ Streaming(q) /\ Working(q) /\ Left(q) = 2 .. Len(r.plan)
         /\ Log(q) = Log(r)
    BY <1>8 DEF Phase, Streaming, Working, Left, Log
  <1>11. ShapeOK(s, q)
    <2>1. q.range = r.range
      BY <1>8 DEF Keeps
    <2> QED
      BY <1>2, <1>8, <1>10, <2>1 DEF ShapeOK
  <1>12. PlanOK(s, q, cl)
    BY <1>1, <1>8 DEF PlanOK, Keeps
  <1>13. FetchOK(s, q, tr, hz)
    <2>1. \A x \in q.batch : x \in tr /\ x < hz /\ q.max < x /\ f <= x /\ x < t
      BY <1>5, <1>6, <1>8
    <2>2. \A x \in tr : f <= x /\ x < t => x \in q.batch \/ x \in q.unserved
      BY <1>4, <1>5, <1>6, <1>8
    <2>3. q.plan[1].from = f /\ q.plan[1].to = t /\ q.plan[1].kind = "gap"
      BY <1>4, <1>8 DEF f, t
    <2> QED
      BY <1>8, <1>10, <2>1, <2>2, <2>3 DEF FetchOK
  <1>14. OrderOK(s, q)
    <2>1. ASSUME NEW item \in Item, FrontierOK(r, item) PROVE FrontierOK(q, item)
      <3>1. item.from \in Int /\ item.to \in Int /\ item.from <= item.to
        BY <2>1, ItemIs DEF FrontierOK
      <3>2. \A k \in 1 .. Len(r.plan) : item.to <= r.plan[k].from
        BY <1>2, <2>1 DEF FrontierOK
      <3>3. item.to <= f
        BY <1>3, <3>2 DEF f
      <3>4. \A x \in q.batch : item.to <= x
        BY <1>4, <1>5, <1>6, <1>8, <3>1, <3>3
      <3>5. \A k \in Left(q) : item.to <= q.plan[k].from
        BY <1>2, <1>8, <1>10, <3>2
      <3>6. /\ item.to <= Upper(q.plan[1].from, q.max + 1)
            /\ item.from <= Upper(q.plan[1].from, q.max)
        BY <1>4, <1>8, <3>1, <3>3 DEF Upper, f
      <3> QED
        BY <1>8, <2>1, <3>1, <3>4, <3>5, <3>6 DEF FrontierOK, Keeps
    <2> QED
      BY <1>1, <1>2, <1>10, <2>1, OrderStays DEF Timely
  <1>15. ASSUME NEW x \in tr, Accounted(r, x)
         PROVE  Accounted(q, x) \/ x \in q.unserved
    <2> SUFFICES ASSUME InPlan(r, x), x \notin q.batch, x \notin q.unserved PROVE InPlan(q, x)
      BY <1>2, <1>10, <1>15 DEF Accounted
    <2>1. PICK k \in 1 .. Len(r.plan) : r.plan[k].from <= x /\ x < r.plan[k].to
      BY <1>2 DEF InPlan
    <2>2. k # 1
      BY <1>4, <1>5, <1>6, <1>8, <2>1 DEF f, t
    <2>3. k \in 2 .. Len(r.plan)
      BY <1>2, <2>1, <2>2
    <2> QED
      BY <1>8, <1>10, <2>1, <2>3 DEF InPlan
  <1>16. WholeOK(s, q, tr) /\ SeamOK(s, q, tr, nw)
    BY <1>1, <1>8, <1>10, <1>15, StreamOK
  <1>17. Shrinks(r, q)
    BY <1>8, <1>10 DEF Shrinks, Keeps
  <1> QED
    BY <1>9, <1>11, <1>12, <1>13, <1>14, <1>16, <1>17 DEF SessionOK

FetchOver(r, failed) == [r EXCEPT !.pc = "settle", !.failed = failed]

(* A fetch ends, with everything delivered or by failing.                   *)
LEMMA FetchEndsOK ==
  ASSUME NEW s, NEW r, NEW tr, NEW nw, NEW hz \in Int, NEW cl,
         SessionOK(s, r, tr, nw, hz, cl), r.pc = "fetch",
         NEW failed \in BOOLEAN, r.batch = {} \/ failed = TRUE,
         NEW q, q = FetchOver(r, failed)
  PROVE  SessionOK(s, q, tr, nw, hz, cl) /\ Shrinks(r, q)
  <1>1. /\ r \in SessionType /\ ShapeOK(s, r) /\ PlanOK(s, r, cl) /\ FetchOK(s, r, tr, hz)
        /\ OrderOK(s, r) /\ Phase(r) = "fetch" /\ Streaming(r) /\ r.pc # "emit"
    BY DEF SessionOK, Phase, Streaming
  <1>2. /\ r.todo = << >> /\ Log(r) = r.out /\ r.out \in Seq(Item) /\ r.plan # << >>
        /\ r.back # "emit" /\ r.back # "done" /\ (s \in Historical => r.range \in Ranges)
    BY <1>1, StreamingIs
  <1>3. /\ q.pc = "settle" /\ q.todo = r.todo /\ q.back = r.back /\ q.out = r.out
        /\ q.batch = r.batch /\ q.max = r.max /\ q.plan = r.plan /\ q.failed = failed
        /\ q.unserved = r.unserved /\ Keeps(r, q)
    BY <1>1 DEF SessionType, Keeps, FetchOver
  <1>4. q \in SessionType
    BY <1>1 DEF SessionType, Pcs, FetchOver
  <1>5. /\ Phase(q) = "settle" /\ Streaming(q) /\ Working(q) /\ Working(r) /\ Left(q) = Left(r)
        /\ Log(q) = Log(r)
    BY <1>1, <1>3 DEF Phase, Streaming, Working, Left, Log
  <1>6. ShapeOK(s, q)
    <2>1. q.range = r.range
      BY <1>3 DEF Keeps
    <2> QED
      BY <1>2, <1>3, <1>5, <2>1 DEF ShapeOK
  <1>7. PlanOK(s, q, cl)
    BY <1>1, <1>3 DEF PlanOK, Keeps
  <1>8. FetchOK(s, q, tr, hz)
    BY <1>1, <1>3, <1>5 DEF FetchOK, Keeps
  <1>9. OrderOK(s, q)
    <2>1. ASSUME NEW item \in Item, FrontierOK(r, item) PROVE FrontierOK(q, item)
      BY <1>1, <1>3, <1>5, <2>1 DEF FrontierOK, Keeps
    <2>2. Log(r) \in Seq(Item)
      BY <1>2
    <2> QED
      BY <1>1, <1>5, <2>1, <2>2, OrderStays DEF Timely
  <1>10. \A x : Accounted(r, x) => Accounted(q, x)
    BY <1>3, <1>5 DEF Accounted, InPlan
  <1>11. WholeOK(s, q, tr) /\ SeamOK(s, q, tr, nw)
    BY <1>1, <1>3, <1>5, <1>10, StreamOK
  <1>12. Shrinks(r, q)
    BY <1>3, <1>5 DEF Shrinks, Keeps
  <1> QED
    BY <1>4, <1>6, <1>7, <1>8, <1>9, <1>11, <1>12 DEF SessionOK

(* What is told by two items.                                               *)
TellsBoth(a, b, two) ==
  /\ \A x : ToldIn(two, x) <=> Tells(a, x) \/ Tells(b, x)
  /\ NoError(two) <=> a.kind # "error" /\ b.kind # "error"
  /\ Before(a, b) => Ordered(two)
  /\ \A r : Behind(r, two) <=>
       /\ a.kind # "closing" => FrontierOK(r, a)
       /\ b.kind # "closing" => FrontierOK(r, b)

LEMMA LogTwo ==
  ASSUME NEW a \in Item, NEW b \in Item, NEW two \in Seq(Item),
         Len(two) = 2, two[1] = a, two[2] = b
  PROVE  TellsBoth(a, b, two)
  <1>1. Len(two) = 2 /\ two[1] = a /\ two[2] = b
    OBVIOUS
  <1>2. \A i \in 1 .. Len(two) : i = 1 \/ i = 2
    BY <1>1
  <1>3. 1 \in 1 .. Len(two) /\ 2 \in 1 .. Len(two)
    BY <1>1
  <1>4. \A i, j \in 1 .. Len(two) : i < j => i = 1 /\ j = 2
    BY <1>2
  <1>5. Before(a, b) => Ordered(two)
    BY <1>1, <1>4 DEF Ordered
  <1>6. \A x : ToldIn(two, x) <=> Tells(a, x) \/ Tells(b, x)
    BY <1>1, <1>2, <1>3 DEF ToldIn
  <1>7. NoError(two) <=> a.kind # "error" /\ b.kind # "error"
    BY <1>1, <1>2, <1>3 DEF NoError
  <1>8. ASSUME NEW r
        PROVE  Behind(r, two) <=> /\ a.kind # "closing" => FrontierOK(r, a)
                                  /\ b.kind # "closing" => FrontierOK(r, b)
    BY <1>1, <1>2, <1>3 DEF Behind
  <1> QED
    BY <1>5, <1>6, <1>7, <1>8 DEF TellsBoth

(* What is told of a fetch that failed: an error last, behind what was      *)
(* told of the segment, and when there is a live edge a gap up to it.       *)
FailureTold(s, f, upto, end, max, items) ==
  /\ items \in Seq(Item) /\ items # << >> /\ ~NoError(items) /\ Ordered(items)
  /\ \A p : p.batch = {} /\ Left(p) = {} /\ Phase(p) = "next" => Behind(p, items)
  /\ \A item : item.from <= Upper(f, max) /\ item.from \in Int
       => \A j \in 1 .. Len(items) : Before(item, items[j])
  /\ s \in Stitched => \A x \in Int : upto <= x /\ x < end => ToldIn(items, x)

LEMMA AppendIs ==
  ASSUME NEW l \in Seq(Item), NEW b \in Item
  PROVE  /\ Append(l, b) \in Seq(Item) /\ Len(Append(l, b)) = Len(l) + 1
         /\ Append(l, b)[Len(l) + 1] = b
         /\ \A i \in 1 .. Len(l) : Append(l, b)[i] = l[i]
  OBVIOUS

GapThenError(upto, end) ==
  Append(IF upto < end THEN <<Gap(upto, end)>> ELSE << >>, ProviderError(upto))
TellsFailure(s, f, upto, end, max, items) ==
  \/ s \notin Stitched /\ items = <<ProviderError(Upper(f, max))>>
  \/ items = GapThenError(upto, end)

LEMMA FailureItems ==
  ASSUME NEW s, NEW f \in Int, NEW upto \in Int, NEW end \in Int, NEW max \in Int,
         Upper(f, max) <= upto, NEW items, TellsFailure(s, f, upto, end, max, items)
  PROVE  FailureTold(s, f, upto, end, max, items)
  <1> DEFINE last == ProviderError(upto)
             only == ProviderError(Upper(f, max))
             g == Gap(upto, end)
  <1>1. Upper(f, max) \in Int
    BY DEF Upper
  <1>2. /\ last \in Item /\ last.kind = "error" /\ last.from = upto /\ last.to = upto
        /\ only \in Item /\ only.kind = "error" /\ only.from = Upper(f, max) /\ only.to = Upper(f, max)
        /\ g \in Item /\ g.kind = "gap" /\ g.from = upto /\ g.to = end
    <2>1. last \in Item /\ last.kind = "error" /\ last.from = upto /\ last.to = upto
      BY ItemsAre, Zenon
    <2>2. only \in Item /\ only.kind = "error" /\ only.from = Upper(f, max) /\ only.to = Upper(f, max)
      BY <1>1, ItemsAre, Zenon
    <2>3. g \in Item /\ g.kind = "gap" /\ g.from = upto /\ g.to = end
      BY DEF Gap, Item
    <2> QED
      BY <2>1, <2>2, <2>3
  <1> HIDE DEF last, only, g
  <1>3. ASSUME NEW p, p.batch = {}, Left(p) = {}, Phase(p) = "next"
        PROVE  /\ FrontierOK(p, last) /\ FrontierOK(p, only)
               /\ upto < end => FrontierOK(p, g)
    BY <1>1, <1>2, <1>3 DEF FrontierOK
  <1>4. CASE s \notin Stitched /\ items = <<ProviderError(Upper(f, max))>>
    <2>1. items = <<only>> /\ Len(items) = 1 /\ items[1] = only
      BY <1>4 DEF only
    <2>2. ASSUME NEW item, item.from <= Upper(f, max), item.from \in Int, NEW j \in 1 .. Len(items)
          PROVE  Before(item, items[j])
      <3>1. items[j] = only
        BY <2>1
      <3> QED
        BY <1>2, <2>2, <3>1 DEF Before
    <2>3. /\ items \in Seq(Item) /\ ~NoError(items) /\ Ordered(items)
          /\ \A p : Behind(p, items) <=> (only.kind # "closing" => FrontierOK(p, only))
      BY <1>2, <2>1, LogOne
    <2> QED
      BY <1>3, <1>4, <2>1, <2>2, <2>3 DEF FailureTold
  <1>5. CASE items = GapThenError(upto, end) /\ ~(upto < end)
    <2>1. items = <<last>> /\ Len(items) = 1 /\ items[1] = last
      BY <1>5 DEF last, GapThenError
    <2>2. ASSUME NEW item, item.from <= Upper(f, max), item.from \in Int, NEW j \in 1 .. Len(items)
          PROVE  Before(item, items[j])
      <3>1. items[j] = last
        BY <2>1
      <3> QED
        BY <1>1, <1>2, <2>2, <3>1 DEF Before
    <2>3. /\ items \in Seq(Item) /\ ~NoError(items) /\ Ordered(items)
          /\ \A p : Behind(p, items) <=> (last.kind # "closing" => FrontierOK(p, last))
      BY <1>2, <2>1, LogOne
    <2>4. \A x \in Int : ~(upto <= x /\ x < end)
      BY <1>5
    <2> QED
      BY <1>3, <2>1, <2>2, <2>3, <2>4 DEF FailureTold
  <1>6. CASE items = GapThenError(upto, end) /\ upto < end
    <2>1. items \in Seq(Item) /\ Len(items) = 2 /\ items[1] = g /\ items[2] = last
      <3> DEFINE one == <<g>>
      <3>1. one \in Seq(Item) /\ Len(one) = 1 /\ one[1] = g
        BY <1>2
      <3>2. items = Append(one, last)
        BY <1>6 DEF last, g, GapThenError
      <3> HIDE DEF one
      <3>3. /\ Append(one, last) \in Seq(Item) /\ Len(Append(one, last)) = Len(one) + 1
            /\ Append(one, last)[Len(one) + 1] = last
            /\ \A i \in 1 .. Len(one) : Append(one, last)[i] = one[i]
        BY <1>2, <3>1, AppendIs
      <3> QED
        BY <3>1, <3>2, <3>3
    <2>2. ASSUME NEW item, item.from <= Upper(f, max), item.from \in Int, NEW j \in 1 .. Len(items)
          PROVE  Before(item, items[j])
      <3>1. items[j] = last \/ items[j] = g
        BY <2>1
      <3> QED
        BY <1>1, <1>2, <2>2, <3>1 DEF Before
    <2>3. Before(g, last)
      BY <1>2 DEF Before
    <2>4. TellsBoth(g, last, items)
      BY <1>2, <2>1, LogTwo, Zenon
    <2>5. \A x \in Int : upto <= x /\ x < end => ToldIn(items, x)
      BY <1>2, <2>4 DEF Tells, TellsBoth
    <2> QED
      <3>1. items # << >>
        BY <2>1
      <3>2. ~NoError(items) /\ Ordered(items)
        BY <1>2, <2>3, <2>4 DEF TellsBoth
      <3>3. ASSUME NEW p, p.batch = {}, Left(p) = {}, Phase(p) = "next" PROVE Behind(p, items)
        BY <1>3, <1>6, <2>4, <3>3 DEF TellsBoth
      <3> QED
        BY <2>1, <2>2, <2>5, <3>1, <3>2, <3>3 DEF FailureTold
  <1> QED
    BY <1>4, <1>5, <1>6 DEF TellsFailure

LEMMA PrefixEndIs ==
  ASSUME NEW f \in Int, NEW t \in Int, f < t, NEW max \in Int,
         max = -1 \/ (f <= max /\ max < t), NEW upto, upto = confirmed_prefix_end(max, f, t)
  PROVE  /\ upto \in Int /\ f <= upto /\ upto <= t /\ Upper(f, max) \in Int
         /\ f > -1 => Upper(f, max) <= upto
         /\ max = -1 => upto = f
         /\ max # -1 => upto = max + 1
  BY DEF confirmed_prefix_end, Upper, Lower

(* A failed fetch ends the plan.  What it has not delivered is behind what  *)
(* it has confirmed, so at a live edge the gap covers it.                   *)
GapEndsAt(s, r, t) == IF s \in Stitched THEN r.range[2] ELSE t
FailureTelling(s, r, f, upto, end, items) == TellsFailure(s, f, upto, end, r.max, items)
FailureEnds(r, items) ==
  [Emit(NextSegment(r), items, "next") EXCEPT !.plan = << >>, !.failed = FALSE]

LEMMA FailureSettles ==
  ASSUME NEW s, NEW r, NEW tr, NEW nw, NEW hz \in Int, NEW cl,
         SessionOK(s, r, tr, nw, hz, cl), r.pc = "settle", tr \subseteq Time,
         NEW f, f = Head(r.plan).from, NEW t, t = Head(r.plan).to,
         NEW upto, upto = confirmed_prefix_end(r.max, f, t),
         NEW end, end = GapEndsAt(s, r, t),
         NEW items, FailureTelling(s, r, f, upto, end, items),
         NEW q, q = FailureEnds(r, items),
         s \in Historical => s \notin Stitched
  PROVE  SessionOK(s, q, tr, nw, hz, cl) /\ Shrinks(r, q)
  <1>1. /\ r \in SessionType /\ ShapeOK(s, r) /\ PlanOK(s, r, cl) /\ FetchOK(s, r, tr, hz)
        /\ OrderOK(s, r) /\ Phase(r) = "settle" /\ Streaming(r) /\ Working(r)
        /\ r.pc # "emit" /\ r.pc # "next"
    BY DEF SessionOK, Phase, Streaming, Working
  <1>2. /\ r.todo = << >> /\ Log(r) = r.out /\ r.out \in Seq(Item) /\ r.plan \in Seq(Piece)
        /\ r.plan # << >> /\ Left(r) = 2 .. Len(r.plan) /\ Len(r.plan) \in Nat /\ 1 \in 1 .. Len(r.plan)
        /\ r.max \in Int /\ r.batch \subseteq Int
        /\ (s \in Historical => r.range \in Ranges)
        /\ r.range[1] \in Int /\ r.range[2] \in Int /\ 0 <= r.range[1]
        /\ \A j \in 1 .. Len(r.plan) :
              /\ r.plan[j].from \in Int /\ r.plan[j].to \in Int
              /\ r.range[1] <= r.plan[j].from /\ r.plan[j].from < r.plan[j].to /\ r.plan[j].to <= r.range[2]
        /\ \A k \in 2 .. Len(r.plan) : k \in 1 .. Len(r.plan) /\ r.plan[1].to <= r.plan[k].from
    BY <1>1, StreamingIs
  <1>3. /\ f = r.plan[1].from /\ t = r.plan[1].to
        /\ f \in Int /\ t \in Int /\ f < t /\ 0 <= f /\ t <= r.range[2]
    <2>1. Head(r.plan) = r.plan[1]
      BY <1>2, PlanTail
    <2> QED
      BY <1>2, <2>1
  <1>4. /\ r.max = -1 \/ (f <= r.max /\ r.max < t)
        /\ \A x \in r.batch : r.max < x /\ f <= x /\ x < t
    BY <1>1, <1>3 DEF FetchOK
  <1>5. /\ upto \in Int /\ f <= upto /\ upto <= t /\ Upper(f, r.max) \in Int /\ Upper(f, r.max) <= upto
        /\ r.max = -1 => upto = f
        /\ r.max # -1 => upto = r.max + 1
    <2> DEFINE max == r.max
    <2>1. max \in Int /\ (max = -1 \/ (f <= max /\ max < t)) /\ upto = confirmed_prefix_end(max, f, t)
      BY <1>2, <1>4
    <2> HIDE DEF max
    <2>2. /\ upto \in Int /\ f <= upto /\ upto <= t /\ Upper(f, max) \in Int
          /\ f > -1 => Upper(f, max) <= upto
          /\ max = -1 => upto = f
          /\ max # -1 => upto = max + 1
      BY <1>3, <2>1, PrefixEndIs
    <2> QED
      BY <1>3, <2>2 DEF max
  <1>6. end \in Int /\ (s \in Stitched => end = r.range[2])
    BY <1>2, <1>3 DEF GapEndsAt
  <1>7. FailureTold(s, f, upto, end, r.max, items)
    BY <1>2, <1>3, <1>5, <1>6, FailureItems DEF FailureTelling
  <1>8. items \in Seq(Item) /\ items # << >> /\ ~NoError(items) /\ Ordered(items)
    BY <1>7 DEF FailureTold
  <1> DEFINE nothing == {}
             nowhere == << >>
             none == -1
  <1>9. q = [r EXCEPT !.pc = "emit", !.todo = items, !.back = "next", !.plan = nowhere,
                      !.max = none, !.batch = nothing, !.failed = FALSE]
    BY <1>1 DEF FailureEnds, SessionType, Emit, NextSegment
  <1>10. nowhere \in Seq(Piece) /\ none \in Int /\ nothing \subseteq Time
    OBVIOUS
  <1>11. Len(nowhere) = 0 /\ nothing = {} /\ none = -1 /\ nowhere = << >>
    OBVIOUS
  <1> HIDE DEF nothing, nowhere, none
  <1>12. /\ q.pc = "emit" /\ q.todo = items /\ q.back = "next" /\ q.out = r.out
         /\ q.batch = {} /\ q.max = -1 /\ q.plan = << >> /\ q.failed = FALSE
         /\ q.unserved = r.unserved /\ Keeps(r, q)
    BY <1>1, <1>9, <1>11 DEF SessionType, Keeps
  <1>13. q \in SessionType
    <2>1. ASSUME NEW i \in Seq(Item), NEW p \in Seq(Piece), NEW m \in Int, NEW b, b \subseteq Time
          PROVE  [r EXCEPT !.pc = "emit", !.todo = i, !.back = "next", !.plan = p,
                      !.max = m, !.batch = b, !.failed = FALSE] \in SessionType
      BY <1>1, <2>1 DEF SessionType, Pcs
    <2>2. [r EXCEPT !.pc = "emit", !.todo = items, !.back = "next", !.plan = nowhere,
                      !.max = none, !.batch = nothing, !.failed = FALSE] \in SessionType
      BY <1>8, <1>10, <2>1, Zenon
    <2> QED
      BY <1>9, <2>2
  <1>14. Phase(q) = "next" /\ Streaming(q) /\ ~Working(q) /\ Left(q) = {} /\ 1 .. Len(q.plan) = {}
    <2>1. Phase(q) = "next" /\ Streaming(q) /\ ~Working(q)
      BY <1>12 DEF Phase, Streaming, Working
    <2>2. Len(q.plan) = 0
      BY <1>12
    <2> QED
      BY <2>1, <2>2 DEF Left
  <1>15. Extended(Log(r), items, Log(q))
    BY <1>2, <1>8, <1>12, EmitLog
  <1>16. q.range = r.range
    BY <1>12 DEF Keeps
  <1>17. ShapeOK(s, q)
    BY <1>2, <1>8, <1>12, <1>14, <1>16 DEF ShapeOK
  <1>18. PlanOK(s, q, cl) /\ FetchOK(s, q, tr, hz)
    BY <1>1, <1>14, <1>16 DEF PlanOK, FetchOK
  <1>19. OrderOK(s, q)
    <2>1. ASSUME NEW item \in Item, FrontierOK(r, item)
          PROVE  FrontierOK(q, item) /\ \A j \in 1 .. Len(items) : Before(item, items[j])
      <3>1. item.from \in Int /\ item.to \in Int /\ item.from <= item.to
        BY <2>1, ItemIs DEF FrontierOK
      <3>2. item.from <= Upper(f, r.max)
        BY <1>1, <1>3, <2>1 DEF FrontierOK
      <3>3. FrontierOK(q, item)
        BY <1>12, <1>14, <1>16, <2>1, <3>1 DEF FrontierOK
      <3> QED
        BY <1>7, <3>1, <3>2, <3>3 DEF FailureTold
    <2>2. Behind(q, items)
      BY <1>7, <1>12, <1>14 DEF FailureTold
    <2>3. Log(r) \in Seq(Item)
      BY <1>2
    <2>4. Timely(s, q) =>
            /\ Behind(q, items)
            /\ \A item \in Item : item.kind # "closing" /\ FrontierOK(r, item) =>
                 FrontierOK(q, item) /\ \A j \in 1 .. Len(items) : Before(item, items[j])
      BY <2>1, <2>2
    <2>5. OrderOK(s, r) /\ Ordered(items) /\ (Timely(s, q) => Timely(s, r))
      BY <1>1, <1>8 DEF Timely
    <2> QED
      BY <1>15, <2>3, <2>4, <2>5, OrderStep, Zenon
  <1>20. ~NoError(Log(q)) /\ \A x : ToldIn(Log(q), x) <=> ToldIn(Log(r), x) \/ ToldIn(items, x)
    BY <1>8, <1>15 DEF Extended
  <1>21. ASSUME s \in Stitched, NEW x \in tr, Accounted(r, x) PROVE Accounted(q, x)
    <2>1. x \in Int
      BY TimeIs
    <2>2. CASE x \in r.batch
      <3>1. r.max < x /\ x < t
        BY <1>4, <2>2
      <3>2. t <= end
        BY <1>3, <1>6, <1>21
      <3>3. f <= x
        BY <1>4, <2>2
      <3>4. upto <= x
        BY <1>2, <1>3, <1>5, <2>1, <3>1, <3>3
      <3>5. x < end
        BY <1>3, <1>6, <2>1, <3>1, <3>2
      <3> QED
        BY <1>7, <1>20, <1>21, <2>1, <3>4, <3>5 DEF Accounted, FailureTold
    <2>3. CASE InPlan(r, x)
      <3>1. PICK k \in 2 .. Len(r.plan) : r.plan[k].from <= x /\ x < r.plan[k].to
        BY <1>2, <2>3 DEF InPlan
      <3>2. k \in 1 .. Len(r.plan) /\ r.plan[1].to <= r.plan[k].from
        BY <1>2
      <3>3. r.plan[k].from \in Int /\ r.plan[k].to \in Int /\ r.plan[k].to <= r.range[2]
        BY <1>2, <3>2
      <3>4. x < end
        BY <1>2, <1>6, <1>21, <2>1, <3>1, <3>3
      <3>5. upto <= x
        BY <1>3, <1>5, <2>1, <3>1, <3>2, <3>3
      <3> QED
        BY <1>7, <1>20, <1>21, <2>1, <3>4, <3>5 DEF Accounted, FailureTold
    <2> QED
      BY <1>20, <1>21, <2>2, <2>3 DEF Accounted
  <1>22. WholeOK(s, q, tr) /\ SeamOK(s, q, tr, nw)
    BY <1>1, <1>12, <1>14, <1>20, <1>21, StreamOK
  <1>23. Shrinks(r, q)
    BY <1>12, <1>14 DEF Shrinks, Keeps
  <1> QED
    BY <1>13, <1>17, <1>18, <1>19, <1>22, <1>23 DEF SessionOK

(* SettleFailed's successor.                                                *)
FailureSettled(s, r, cached) ==
  LET f == Head(r.plan).from
      t == Head(r.plan).to
      upto == confirmed_prefix_end(r.max, f, t)
      end == IF s \in Stitched THEN r.range[2] ELSE t
      items == IF cached \/ s \in Stitched THEN GapThenError(upto, end)
               ELSE <<ProviderError(Upper(f, r.max))>>
  IN  FailureEnds(r, items)

LEMMA SettleFailedOK ==
  ASSUME NEW s, NEW r, NEW tr, NEW nw, NEW hz \in Int, NEW cl,
         SessionOK(s, r, tr, nw, hz, cl), r.pc = "settle", tr \subseteq Time,
         NEW cached, NEW q, q = FailureSettled(s, r, cached),
         s \in Historical => s \notin Stitched
  PROVE  SessionOK(s, q, tr, nw, hz, cl) /\ Shrinks(r, q)
  <1> DEFINE f == Head(r.plan).from
             t == Head(r.plan).to
             upto == confirmed_prefix_end(r.max, f, t)
             end == IF s \in Stitched THEN r.range[2] ELSE t
             items == IF cached \/ s \in Stitched THEN GapThenError(upto, end)
                      ELSE <<ProviderError(Upper(f, r.max))>>
  <1>1. f = Head(r.plan).from /\ t = Head(r.plan).to
    OBVIOUS
  <1>2. upto = confirmed_prefix_end(r.max, f, t)
    OBVIOUS
  <1>3. end = IF s \in Stitched THEN r.range[2] ELSE t
    OBVIOUS
  <1>4. q = FailureEnds(r, items)
    BY DEF FailureSettled
  <1> HIDE DEF f, t, upto, end
  <1>5. FailureTelling(s, r, f, upto, end, items)
    BY DEF FailureTelling, TellsFailure
  <1> HIDE DEF items
  <1> QED
    BY <1>1, <1>2, <1>3, <1>4, <1>5, FailureSettles DEF GapEndsAt

-----------------------------------------------------------------------------
(* Deliveries, and what the caller does.                                    *)

LEMMA ConcatIs ==
  ASSUME NEW l \in Seq(Item), NEW m \in Seq(Item)
  PROVE  /\ l \o m \in Seq(Item) /\ Len(l \o m) = Len(l) + Len(m)
         /\ \A i \in 1 .. Len(l \o m) : (l \o m)[i] = IF i <= Len(l) THEN l[i] ELSE m[i - Len(l)]
  OBVIOUS

LEMMA SameItems ==
  ASSUME NEW c \in Seq(Item), NEW d \in Seq(Item), Len(c) = Len(d), \A i \in 1 .. Len(c) : c[i] = d[i]
  PROVE  c = d
  OBVIOUS

LEMMA HeadTail ==
  ASSUME NEW l \in Seq(Item), NEW m \in Seq(Item), m # << >>
  PROVE  /\ Head(m) \in Item /\ Tail(m) \in Seq(Item) /\ Append(l, Head(m)) \in Seq(Item)
         /\ Append(l, Head(m)) \o Tail(m) = l \o m
  <1>1. Head(m) \in Item /\ Tail(m) \in Seq(Item) /\ Append(l, Head(m)) \in Seq(Item)
    OBVIOUS
  <1> DEFINE a == Append(l, Head(m))
             b == Tail(m)
             c == a \o b
             d == l \o m
  <1>2. /\ Len(a) = Len(l) + 1 /\ Len(b) = Len(m) - 1 /\ Len(m) \in Nat /\ Len(l) \in Nat
        /\ \A i \in 1 .. Len(l) : a[i] = l[i]
        /\ a[Len(l) + 1] = m[1]
        /\ \A i \in 1 .. Len(b) : b[i] = m[i + 1]
    BY <1>1
  <1>3. /\ d \in Seq(Item) /\ Len(d) = Len(l) + Len(m)
        /\ \A i \in 1 .. Len(d) : d[i] = IF i <= Len(l) THEN l[i] ELSE m[i - Len(l)]
    BY ConcatIs, Zenon
  <1>4. /\ c \in Seq(Item) /\ Len(c) = Len(a) + Len(b)
        /\ \A i \in 1 .. Len(c) : c[i] = IF i <= Len(a) THEN a[i] ELSE b[i - Len(a)]
    BY <1>1, ConcatIs, Zenon
  <1> HIDE DEF a, b, c, d
  <1>5. Len(c) = Len(d)
    BY <1>2, <1>3, <1>4
  <1>6. ASSUME NEW i \in 1 .. Len(c) PROVE c[i] = d[i]
    <2>1. i \in 1 .. Len(d) /\ i \in Int /\ 1 <= i
      BY <1>2, <1>3, <1>4
    <2>2. CASE i <= Len(l)
      <3>1. i \in 1 .. Len(l) /\ i <= Len(a)
        BY <1>2, <2>1, <2>2
      <3>2. c[i] = a[i] /\ d[i] = l[i]
        BY <1>3, <1>4, <2>1, <2>2, <3>1
      <3> QED
        BY <1>2, <3>1, <3>2
    <2>3. CASE i = Len(l) + 1
      BY <1>2, <1>3, <1>4, <2>1, <2>3
    <2>4. CASE i > Len(l) + 1
      <3> DEFINE k == i - Len(a)
      <3>1. k \in 1 .. Len(b) /\ k + 1 = i - Len(l)
        BY <1>2, <1>4, <2>1, <2>4
      <3>2. c[i] = b[k] /\ d[i] = m[i - Len(l)]
        BY <1>2, <1>3, <1>4, <2>1, <2>4
      <3> HIDE DEF k
      <3>3. b[k] = m[k + 1]
        BY <1>2, <3>1
      <3> QED
        BY <3>1, <3>2, <3>3
    <2> QED
      BY <1>2, <2>1, <2>2, <2>3, <2>4
  <1>7. c = d
    BY <1>3, <1>4, <1>5, <1>6, SameItems
  <1> QED
    BY <1>1, <1>7 DEF a, b, c, d

(* A delivery moves an item from what is to be told to what is told.        *)
LEMMA DeliverOK ==
  ASSUME NEW s, NEW r \in SessionType, ShapeOK(s, r), r.pc = "emit",
         NEW unread \in Int, NEW rest, rest = Tail(r.todo), NEW more, more = Append(r.out, Head(r.todo)),
         NEW pc, pc = IF rest = << >> THEN r.back ELSE "emit",
         NEW q, q = [r EXCEPT !.out = more, !.unread = unread, !.todo = rest, !.pc = pc]
  PROVE  q \in SessionType /\ ShapeOK(s, q) /\ SameStory(r, q)
  <1>1. r.todo # << >> /\ r.todo \in Seq(Item) /\ r.out \in Seq(Item) /\ r.back # "emit" /\ r.back \in Pcs
    BY TypeIs DEF ShapeOK
  <1>2. rest \in Seq(Item) /\ more \in Seq(Item) /\ more \o rest = r.out \o r.todo
    BY <1>1, HeadTail
  <1>3. pc \in Pcs
    BY <1>1 DEF Pcs
  <1>4. q \in SessionType
    <2>1. ASSUME NEW a \in Seq(Item), NEW b \in Seq(Item), NEW c \in Pcs
          PROVE  [r EXCEPT !.out = a, !.unread = unread, !.todo = b, !.pc = c] \in SessionType
      BY <2>1 DEF SessionType
    <2> QED
      BY <1>2, <1>3, <2>1, Zenon
  <1>5. /\ q.pc = pc /\ q.todo = rest /\ q.out = more /\ q.back = r.back
        /\ q.range = r.range /\ q.mode = r.mode /\ q.blind = r.blind
        /\ q.plan = r.plan /\ q.batch = r.batch /\ q.max = r.max /\ q.failed = r.failed
        /\ q.since = r.since /\ q.unserved = r.unserved /\ q.close = r.close
        /\ q.live = r.live /\ q.ring = r.ring /\ q.evicted = r.evicted
    BY DEF SessionType
  <1>6. Phase(q) = Phase(r) /\ Log(q) = Log(r)
    BY <1>1, <1>2, <1>5 DEF Phase, Log
  <1>7. SameStory(r, q)
    BY <1>5, <1>6 DEF SameStory, SameServed
  <1>8. ShapeOK(s, q)
    <2>1. (q.pc = "emit" <=> q.todo # << >>) /\ (q.back = "done" => q.pc \in {"emit", "done"})
      BY <1>1, <1>5
    <2>2. Phase(r) \notin {"idle", "subscribed", "plan", "wait", "replan"}
      BY <1>1 DEF ShapeOK
    <2> QED
      BY <1>1, <1>5, <1>6, <2>1, <2>2 DEF ShapeOK, Working
  <1> QED
    BY <1>4, <1>7, <1>8

(* The caller moves its end of the channel; the controller is not told.     *)
LEMMA CallerOK ==
  ASSUME NEW s, NEW r \in SessionType, ShapeOK(s, r),
         NEW stream \in {"held", "taken", "dropped", "orphan"}, NEW unread \in Int, NEW close \in BOOLEAN,
         r.close => close,
         NEW q, q = [r EXCEPT !.stream = stream, !.unread = unread, !.close = close]
  PROVE  q \in SessionType /\ ShapeOK(s, q) /\ SameStory(r, q)
  <1>1. q \in SessionType
    BY DEF SessionType
  <1>2. /\ q.pc = r.pc /\ q.todo = r.todo /\ q.out = r.out /\ q.back = r.back
        /\ q.range = r.range /\ q.mode = r.mode /\ q.blind = r.blind
        /\ q.plan = r.plan /\ q.batch = r.batch /\ q.max = r.max /\ q.failed = r.failed
        /\ q.since = r.since /\ q.unserved = r.unserved /\ q.close = close
        /\ q.live = r.live /\ q.ring = r.ring /\ q.evicted = r.evicted
    BY DEF SessionType
  <1>3. Phase(q) = Phase(r) /\ Log(q) = Log(r)
    BY <1>2 DEF Phase, Log
  <1>4. SameStory(r, q)
    BY <1>2, <1>3 DEF SameStory, SameServed
  <1>5. ShapeOK(s, q)
    BY <1>2, <1>3 DEF ShapeOK, Working
  <1> QED
    BY <1>1, <1>4, <1>5

-----------------------------------------------------------------------------
(* Planning.                                                                *)

Plannable(s, r, tr, nw, hz, cl, range, mode, blind, plan) ==
  /\ r \in SessionType /\ ShapeOK(s, r) /\ r.pc \in {"idle", "plan", "replan"}
  /\ tr \subseteq Int /\ hz \in Int /\ SeamOK(s, r, tr, nw)
  /\ range \in Time \X Time /\ mode \in BOOLEAN \X BOOLEAN /\ blind \in BOOLEAN
  /\ Plans(plan, range[1], range[2], cl)
  /\ s \in Historical => range \in Ranges /\ s \notin Stitched
  /\ s \in Stitched => range = r.range /\ r.pc = "plan"
  /\ s \in Historical \cup Stitched
PlanMade(r, range, mode, blind, plan) ==
  [r EXCEPT !.pc = "next", !.range = range, !.mode = mode, !.blind = blind, !.plan = plan]

(* A session gets its plan: one that serves every tick of its range.        *)
LEMMA PlannedOK ==
  ASSUME NEW s, NEW r, NEW tr, NEW nw, NEW hz, NEW cl, NEW range, NEW mode, NEW blind, NEW plan,
         Plannable(s, r, tr, nw, hz, cl, range, mode, blind, plan),
         NEW q, q = PlanMade(r, range, mode, blind, plan)
  PROVE  SessionOK(s, q, tr, nw, hz, cl)
  <1>1. /\ r \in SessionType /\ ShapeOK(s, r) /\ r.pc \in {"idle", "plan", "replan"}
        /\ tr \subseteq Int /\ hz \in Int /\ SeamOK(s, r, tr, nw)
        /\ range \in Time \X Time /\ mode \in BOOLEAN \X BOOLEAN /\ blind \in BOOLEAN
        /\ Plans(plan, range[1], range[2], cl)
        /\ s \in Historical => range \in Ranges /\ s \notin Stitched
        /\ s \in Stitched => range = r.range /\ r.pc = "plan"
        /\ s \in Historical \cup Stitched
    BY DEF Plannable
  <1>2. plan \in Seq(Piece) /\ Len(plan) \in Nat
    BY <1>1 DEF Plans
  <1>3. /\ Phase(r) = r.pc /\ r.plan = << >> /\ r.batch = {} /\ r.max = -1 /\ r.out = << >> /\ r.todo = << >>
        /\ r.back # "emit" /\ r.back # "done"
    <2>1. Phase(r) = r.pc /\ ~Working(r)
      BY <1>1 DEF Phase, Working
    <2> QED
      BY <1>1, <2>1 DEF ShapeOK
  <1>4. q \in SessionType
    <2>1. ASSUME NEW g \in Time \X Time, NEW m \in BOOLEAN \X BOOLEAN, NEW b \in BOOLEAN, NEW p \in Seq(Piece)
          PROVE  [r EXCEPT !.pc = "next", !.range = g, !.mode = m, !.blind = b, !.plan = p] \in SessionType
      <3>1. r \in SessionType
        BY <1>1
      <3>2. [r EXCEPT !.pc = "next", !.plan = p] \in SessionType
        BY <3>1 DEF SessionType, Pcs
      <3> DEFINE mid == [r EXCEPT !.pc = "next", !.plan = p]
      <3>3. [r EXCEPT !.pc = "next", !.range = g, !.mode = m, !.blind = b, !.plan = p]
            = [mid EXCEPT !.range = g, !.mode = m, !.blind = b]
        BY <3>1 DEF SessionType
      <3> HIDE DEF mid
      <3>4. mid \in SessionType
        BY <3>2 DEF mid
      <3>5. [mid EXCEPT !.range = g, !.mode = m, !.blind = b] \in SessionType
        BY <3>4 DEF SessionType
      <3> QED
        BY <3>3, <3>5
    <2> QED
      BY <1>1, <1>2, <2>1, Zenon DEF PlanMade
  <1>5. /\ q.pc = "next" /\ q.todo = << >> /\ q.out = << >> /\ q.back = r.back
        /\ q.range = range /\ q.plan = plan /\ q.batch = {} /\ q.max = -1
        /\ q.since = r.since /\ q.unserved = r.unserved /\ q.live = r.live
        /\ q.ring = r.ring /\ q.evicted = r.evicted
    BY <1>1, <1>3 DEF SessionType, PlanMade
  <1>6. Phase(q) = "next" /\ ~Working(q) /\ Left(q) = 1 .. Len(plan)
    BY <1>1, <1>5 DEF Phase, Working, Left
  <1>7. Log(q) = << >> /\ Log(r) = << >>
    <2>1. q.todo = << >> => Log(q) = q.out
      BY <1>1, <1>4, TypeIs
    <2>2. r.todo = << >> => Log(r) = r.out
      BY <1>1, TypeIs
    <2> QED
      BY <1>1, <1>3, <1>5, <2>1, <2>2
  <1>8. ShapeOK(s, q)
    BY <1>1, <1>3, <1>5, <1>6 DEF ShapeOK
  <1>9. PlanOK(s, q, cl)
    <2>1. range[1] \in Int /\ range[2] \in Int
      BY <1>1, ReadThroughAssumption DEF Time
    <2>2. \A j \in 1 .. Len(plan) : plan[j].from \in Int /\ plan[j].to \in Int
      BY <1>1, <1>2, PieceIs
    <2> QED
      BY <1>1, <1>5, <2>1, <2>2 DEF PlanOK, Plans
  <1>10. FetchOK(s, q, tr, hz)
    BY <1>1, <1>6 DEF FetchOK
  <1>11. OrderOK(s, q)
    BY <1>7, LogNone DEF OrderOK
  <1>12. ASSUME NEW x \in tr, range[1] <= x, x < range[2] PROVE InPlan(q, x)
    BY <1>1, <1>5, <1>6, <1>12 DEF Plans, InPlan
  <1>13. WholeOK(s, q, tr)
    BY <1>1, <1>5, <1>12 DEF WholeOK
  <1>14. SeamOK(s, q, tr, nw)
    <2> SUFFICES ASSUME s \in Stitched PROVE SeamOK(s, q, tr, nw)
      BY <1>1 DEF SeamOK
    <2>1. r.since <= range[2] /\ range[2] \in Int /\ r.since \in Int
      BY <1>1, <1>3, ReadThroughAssumption, TypeIs DEF SeamOK, Time
    <2>2. ASSUME NEW x \in tr, x < r.since PROVE x < range[2]
      <3>1. x \in Int
        BY <1>1
      <3> QED
        BY <1>1, <2>1, <2>2, <3>1
    <2> QED
      BY <1>1, <1>3, <1>5, <1>6, <1>7, <1>12, <2>2 DEF SeamOK, QueuesOK
  <1> QED
    BY <1>1, <1>4, <1>8, <1>9, <1>10, <1>11, <1>13, <1>14 DEF SessionOK

(* A session that has told nothing and serves nothing.                      *)
Quiet(s, q, tr, nw, hz) ==
  /\ q \in SessionType /\ ShapeOK(s, q) /\ SeamOK(s, q, tr, nw)
  /\ Phase(q) \in {"idle", "subscribed", "plan", "wait", "replan", "live"}
  /\ q.out = << >> /\ q.todo = << >>
  /\ s \in Historical => s \notin Stitched
  /\ s \in Historical \cup Stitched

LEMMA QuietOK ==
  ASSUME NEW s, NEW q, NEW tr, NEW nw, NEW hz, NEW cl, Quiet(s, q, tr, nw, hz)
  PROVE  /\ SessionOK(s, q, tr, nw, hz, cl)
         /\ \A sl : Phase(q) # "replan" => SlotOK(s, q, sl)
         /\ \A fl : FilledOK(s, q, fl)
  <1>1. q.plan = << >> /\ ~Working(q)
    BY DEF ShapeOK, Working, Quiet
  <1>2. 1 .. Len(q.plan) = {}
    BY <1>1
  <1>3. Log(q) = << >>
    BY TypeIs DEF Quiet
  <1>4. PlanOK(s, q, cl) /\ FetchOK(s, q, tr, hz)
    BY <1>1, <1>2 DEF PlanOK, FetchOK, Quiet
  <1>5. OrderOK(s, q)
    BY <1>3, LogNone DEF OrderOK
  <1>6. WholeOK(s, q, tr)
    BY DEF WholeOK, Quiet
  <1>7. \A sl : Phase(q) # "replan" => SlotOK(s, q, sl)
    BY <1>2 DEF SlotOK
  <1>8. \A fl : FilledOK(s, q, fl)
    BY <1>2 DEF FilledOK
  <1> QED
    BY <1>4, <1>5, <1>6, <1>7, <1>8 DEF SessionOK, Quiet

-----------------------------------------------------------------------------
(* The end of a session.                                                    *)

(* A session ends: nothing is left to serve, or it was asked to stop.       *)
SessionEnds(r, back, items, live, ring) ==
  [r EXCEPT !.pc = "emit", !.todo = items, !.back = back, !.plan = << >>, !.batch = {},
            !.live = live, !.ring = ring]
Ending(s, r, back, items, live, ring) ==
  /\ r.pc \in {"next", "replay", "fetch", "drain"} /\ back \in {"drain", "done"}
  /\ s \in Historical => s \notin Stitched
  /\ s \in Stitched => back = "done"
  /\ items \in Seq(Item) /\ items # << >> /\ \A i \in 1 .. Len(items) : items[i].kind = "closing"
  /\ live \in Seq(Time) /\ ring \in Seq(Time)
  /\ r.close \/ s \in Stitched \/ (r.plan = << >> /\ r.batch = {})

LEMMA EndingOK ==
  ASSUME NEW s, NEW r, NEW tr, NEW nw, NEW hz, NEW cl, SessionOK(s, r, tr, nw, hz, cl),
         NEW back, NEW items, NEW live, NEW ring, Ending(s, r, back, items, live, ring),
         NEW q, q = SessionEnds(r, back, items, live, ring)
  PROVE  /\ SessionOK(s, q, tr, nw, hz, cl)
         /\ \A sl : SlotOK(s, q, sl)
         /\ \A fl : FilledOK(s, q, fl)
  <1>1. /\ r.pc \in {"next", "replay", "fetch", "drain"} /\ back \in {"drain", "done"}
        /\ s \in Historical => s \notin Stitched
        /\ s \in Stitched => back = "done"
        /\ items \in Seq(Item) /\ items # << >> /\ \A i \in 1 .. Len(items) : items[i].kind = "closing"
        /\ live \in Seq(Time) /\ ring \in Seq(Time)
        /\ r.close \/ s \in Stitched \/ (r.plan = << >> /\ r.batch = {})
    BY DEF Ending
  <1>2. /\ r \in SessionType /\ ShapeOK(s, r) /\ PlanOK(s, r, cl) /\ OrderOK(s, r) /\ WholeOK(s, r, tr)
        /\ Phase(r) = r.pc
    BY <1>1 DEF SessionOK, Phase
  <1>3. r.todo = << >> /\ Log(r) = r.out /\ r.out \in Seq(Item)
    BY <1>1, <1>2, TypeIs DEF ShapeOK
  <1>4. q \in SessionType
    <2> DEFINE nothing == {}
               nowhere == << >>
    <2>1. nowhere \in Seq(Piece) /\ nothing \subseteq Time
      BY <1>1
    <2>2. q = [r EXCEPT !.pc = "emit", !.todo = items, !.back = back, !.plan = nowhere, !.batch = nothing,
                        !.live = live, !.ring = ring]
      BY DEF SessionEnds
    <2> HIDE DEF nothing, nowhere
    <2>3. ASSUME NEW i \in Seq(Item), NEW p \in Seq(Piece), NEW b, b \subseteq Time, NEW k \in {"drain", "done"}
          PROVE  [r EXCEPT !.pc = "emit", !.todo = i, !.back = k, !.plan = p, !.batch = b,
                           !.live = live, !.ring = ring] \in SessionType
      BY <1>1, <1>2, <2>3 DEF SessionType, Pcs
    <2>4. [r EXCEPT !.pc = "emit", !.todo = items, !.back = back, !.plan = nowhere, !.batch = nothing,
                    !.live = live, !.ring = ring] \in SessionType
      BY <1>1, <2>1, <2>3, Zenon
    <2> QED
      BY <1>1, <2>2, <2>4
  <1>5. /\ q.pc = "emit" /\ q.todo = items /\ q.back = back /\ q.out = r.out
        /\ q.batch = {} /\ q.plan = << >> /\ q.range = r.range /\ q.close = r.close
        /\ q.unserved = r.unserved
    BY <1>1, <1>2 DEF SessionType, SessionEnds
  <1>6. Phase(q) = back /\ ~Working(q) /\ 1 .. Len(q.plan) = {} /\ Left(q) = {}
    BY <1>1, <1>5 DEF Phase, Working, Left
  <1>7. Extended(Log(r), items, Log(q))
    BY <1>1, <1>3, <1>5, EmitLog
  <1>8. ShapeOK(s, q)
    <2>1. s \in Historical => r.range \in Ranges
      BY <1>1, <1>2 DEF ShapeOK
    <2> QED
      BY <1>1, <1>5, <1>6, <2>1 DEF ShapeOK
  <1>9. PlanOK(s, q, cl) /\ FetchOK(s, q, tr, hz)
    BY <1>1, <1>2, <1>5, <1>6 DEF PlanOK, FetchOK
  <1>10. OrderOK(s, q)
    <2>1. Ordered(items) /\ Behind(q, items)
      BY <1>1 DEF Ordered, Behind, Before
    <2>2. ASSUME NEW item \in Item, FrontierOK(r, item)
          PROVE  FrontierOK(q, item) /\ \A j \in 1 .. Len(items) : Before(item, items[j])
      BY <1>1, <1>5, <1>6, <2>2 DEF FrontierOK, Before
    <2> QED
      BY <1>1, <1>2, <1>3, <1>6, <1>7, <2>1, <2>2, OrderStep DEF Timely, Streaming
  <1>11. WholeOK(s, q, tr)
    <2> SUFFICES ASSUME s \in Historical, ~q.close, NoError(Log(q)),
                        NEW x \in tr, q.range[1] <= x, x < q.range[2]
                 PROVE  ToldIn(Log(q), x) \/ x \in q.unserved
      BY <1>1 DEF WholeOK
    <2>1. ~r.close /\ NoError(Log(r)) /\ r.batch = {} /\ 1 .. Len(r.plan) = {} /\ r.range = q.range
      BY <1>1, <1>5, <1>7 DEF Extended
    <2>2. ToldIn(Log(r), x) \/ x \in r.batch \/ InPlan(r, x) \/ x \in r.unserved
      BY <1>1, <1>2, <2>1 DEF WholeOK
    <2>3. ~InPlan(r, x)
      BY <1>1, <2>1 DEF InPlan, Left
    <2> QED
      BY <1>1, <1>5, <1>7, <2>1, <2>2, <2>3 DEF Extended
  <1>12. SeamOK(s, q, tr, nw)
    BY <1>1, <1>6 DEF SeamOK
  <1>13. (\A sl : SlotOK(s, q, sl)) /\ (\A fl : FilledOK(s, q, fl))
    BY <1>1, <1>6 DEF SlotOK, FilledOK
  <1> QED
    BY <1>1, <1>4, <1>8, <1>9, <1>10, <1>11, <1>12, <1>13 DEF SessionOK

-----------------------------------------------------------------------------
(* Live arrivals.                                                           *)

LEMMA ListTail ==
  ASSUME NEW l \in Seq(Time), l # << >>
  PROVE  /\ Head(l) \in Time /\ Tail(l) \in Seq(Time)
         /\ \A x : Lists(l, x) <=> x = Head(l) \/ Lists(Tail(l), x)
  <1>1. /\ Head(l) = l[1] /\ Head(l) \in Time /\ Tail(l) \in Seq(Time) /\ Len(l) \in Nat /\ 1 \in 1 .. Len(l)
        /\ \A k \in 1 .. Len(Tail(l)) : k + 1 \in 1 .. Len(l) /\ Tail(l)[k] = l[k + 1]
        /\ \A k \in 1 .. Len(l) : k = 1 \/ (k - 1 \in 1 .. Len(Tail(l)) /\ Tail(l)[k - 1] = l[k])
    OBVIOUS
  <1> QED
    BY <1>1 DEF Lists

LEMMA ListAppend ==
  ASSUME NEW l \in Seq(Time), NEW t \in Time
  PROVE  /\ Append(l, t) \in Seq(Time)
         /\ \A x : Lists(Append(l, t), x) <=> Lists(l, x) \/ x = t
  <1>1. /\ Append(l, t) \in Seq(Time) /\ Len(l) \in Nat /\ Len(Append(l, t)) = Len(l) + 1
        /\ Append(l, t)[Len(l) + 1] = t
        /\ \A i \in 1 .. Len(l) : Append(l, t)[i] = l[i]
        /\ \A i \in 1 .. Len(l) + 1 : i \in 1 .. Len(l) \/ i = Len(l) + 1
    OBVIOUS
  <1> QED
    BY <1>1 DEF Lists

LEMMA RisingTail ==
  ASSUME NEW l \in Seq(Time), l # << >>, NEW low, NEW high, Rising(l, low, high)
  PROVE  /\ Rising(Tail(l), low, high) /\ low <= Head(l) /\ Head(l) < high
         /\ \A k \in 1 .. Len(Tail(l)) : Head(l) < Tail(l)[k] /\ Lists(l, Tail(l)[k])
         /\ \A m : Below(m, l) => Below(m, Tail(l))
  <1>1. /\ Head(l) = l[1] /\ 1 \in 1 .. Len(l)
        /\ \A k \in 1 .. Len(Tail(l)) : k + 1 \in 1 .. Len(l) /\ 1 < k + 1 /\ Tail(l)[k] = l[k + 1]
        /\ \A i, j \in 1 .. Len(Tail(l)) : i < j => i + 1 < j + 1
    OBVIOUS
  <1>2. Rising(Tail(l), low, high)
    BY <1>1 DEF Rising
  <1>3. \A k \in 1 .. Len(Tail(l)) : Head(l) < Tail(l)[k] /\ Lists(l, Tail(l)[k])
    BY <1>1 DEF Rising, Lists
  <1>4. \A m : Below(m, l) => Below(m, Tail(l))
    BY <1>1 DEF Below
  <1> QED
    BY <1>1, <1>2, <1>3, <1>4 DEF Rising

LEMMA RisingAppend ==
  ASSUME NEW l \in Seq(Time), NEW t \in Time, NEW low, NEW high, Rising(l, low, high),
         low <= t, t < high, \A i \in 1 .. Len(l) : l[i] < t
  PROVE  Rising(Append(l, t), low, high)
  <1>1. /\ Len(l) \in Nat /\ Len(Append(l, t)) = Len(l) + 1 /\ Append(l, t)[Len(l) + 1] = t
        /\ \A i \in 1 .. Len(l) : Append(l, t)[i] = l[i]
        /\ \A i \in 1 .. Len(l) + 1 : i \in 1 .. Len(l) \/ i = Len(l) + 1
        /\ \A i, j \in 1 .. Len(l) + 1 : i < j => i \in 1 .. Len(l)
    OBVIOUS
  <1> QED
    BY <1>1 DEF Rising

(* An arrival waits in the ring; a full ring evicts its oldest.             *)
LEMMA BufferOK ==
  ASSUME NEW s, NEW r, NEW tr, NEW nw, NEW hz, NEW cl,
         SessionOK(s, r, tr, nw, hz, cl), r.pc \in {"replay", "fetch"}, r.live # << >>,
         NEW full, full = (Len(r.ring) = RingCap),
         NEW kept, kept = IF full THEN Tail(r.ring) ELSE r.ring,
         NEW ring, ring = Append(kept, Head(r.live)),
         NEW evicted, evicted = IF full THEN r.evicted \cup {Head(r.ring)} ELSE r.evicted,
         NEW q, q = [r EXCEPT !.live = Tail(r.live), !.ring = ring, !.evicted = evicted]
  PROVE  q \in SessionType /\ ShapeOK(s, q) /\ SameServed(r, q) /\ SeamOK(s, q, tr, nw)
  <1>1. /\ r \in SessionType /\ ShapeOK(s, r) /\ SeamOK(s, r, tr, nw) /\ Phase(r) = r.pc
        /\ r.live \in Seq(Time) /\ r.ring \in Seq(Time) /\ r.evicted \subseteq Time
    BY TypeIs DEF SessionOK, Phase
  <1>2. /\ Head(r.live) \in Time /\ Tail(r.live) \in Seq(Time)
        /\ \A x : Lists(r.live, x) <=> x = Head(r.live) \/ Lists(Tail(r.live), x)
    BY <1>1, ListTail
  <1>3. full => r.ring # << >>
    BY <1>1, ReadThroughAssumption
  <1>4. /\ kept \in Seq(Time) /\ evicted \subseteq Time
        /\ \A x : Lists(r.ring, x) \/ x \in r.evicted => Lists(kept, x) \/ x \in evicted
    <2>1. CASE ~full
      BY <1>1, <2>1
    <2>2. CASE full
      <3>1. /\ Head(r.ring) \in Time /\ Tail(r.ring) \in Seq(Time)
            /\ \A x : Lists(r.ring, x) <=> x = Head(r.ring) \/ Lists(Tail(r.ring), x)
        BY <1>1, <1>3, <2>2, ListTail
      <3> QED
        BY <1>1, <2>2, <3>1
    <2> QED
      BY <2>1, <2>2
  <1>5. ring \in Seq(Time) /\ \A x : Lists(ring, x) <=> Lists(kept, x) \/ x = Head(r.live)
    BY <1>2, <1>4, ListAppend
  <1> DEFINE later == Tail(r.live)
  <1>6. q = [r EXCEPT !.live = later, !.ring = ring, !.evicted = evicted] /\ later \in Seq(Time)
    BY <1>2
  <1>7. \A x : Lists(r.live, x) <=> x = Head(r.live) \/ Lists(later, x)
    BY <1>2
  <1> HIDE DEF later
  <1>8. q \in SessionType
    <2>1. ASSUME NEW a \in Seq(Time), NEW b \in Seq(Time), NEW e, e \subseteq Time
          PROVE  [r EXCEPT !.live = a, !.ring = b, !.evicted = e] \in SessionType
      BY <1>1, <2>1 DEF SessionType
    <2>2. [r EXCEPT !.live = later, !.ring = ring, !.evicted = evicted] \in SessionType
      BY <1>4, <1>5, <1>6, <2>1, Zenon
    <2> QED
      BY <1>6, <2>2
  <1>9. /\ q.pc = r.pc /\ q.todo = r.todo /\ q.out = r.out /\ q.back = r.back
        /\ q.range = r.range /\ q.mode = r.mode /\ q.blind = r.blind
        /\ q.plan = r.plan /\ q.batch = r.batch /\ q.max = r.max /\ q.failed = r.failed
        /\ q.since = r.since /\ q.unserved = r.unserved /\ q.close = r.close
        /\ q.live = later /\ q.ring = ring /\ q.evicted = evicted
    BY <1>1, <1>6 DEF SessionType
  <1>10. Phase(q) = Phase(r) /\ Log(q) = Log(r)
    BY <1>9 DEF Phase, Log
  <1>11. SameServed(r, q)
    BY <1>9, <1>10 DEF SameServed
  <1>12. ShapeOK(s, q)
    BY <1>1, <1>9, <1>10 DEF ShapeOK, Working
  <1>13. SeamOK(s, q, tr, nw)
    <2>1. \A x : InPlan(q, x) <=> InPlan(r, x)
      BY <1>9, <1>10 DEF InPlan, Left, Working
    <2>2. \A x : Lists(r.live, x) \/ Lists(r.ring, x) \/ x \in r.evicted
                   => Lists(q.live, x) \/ Lists(q.ring, x) \/ x \in q.evicted
      BY <1>4, <1>5, <1>7, <1>9
    <2>3. s \in Stitched => QueuesOK(q, nw)
      <3> SUFFICES ASSUME s \in Stitched PROVE QueuesOK(q, nw)
        OBVIOUS
      <3>1. /\ Rising(r.ring, r.since, nw) /\ Rising(r.live, r.since, nw) /\ Below(r.ring, r.live)
        BY <1>1 DEF SeamOK, QueuesOK
      <3>2. Rising(kept, r.since, nw) /\ Below(kept, r.live)
        <4>1. CASE ~full
          BY <3>1, <4>1
        <4>2. CASE full
          <5>1. r.ring # << >> /\ kept = Tail(r.ring)
            BY <1>3, <4>2
          <5>2. Rising(Tail(r.ring), r.since, nw)
            BY <1>1, <3>1, <5>1, RisingTail
          <5>3. \A k \in 1 .. Len(Tail(r.ring)) : k + 1 \in 1 .. Len(r.ring) /\ Tail(r.ring)[k] = r.ring[k + 1]
            BY <1>1, <5>1
          <5>4. Below(Tail(r.ring), r.live)
            BY <3>1, <5>3 DEF Below
          <5> QED
            BY <5>1, <5>2, <5>4
        <4> QED
          BY <4>1, <4>2
      <3>3. /\ Rising(later, r.since, nw) /\ r.since <= Head(r.live) /\ Head(r.live) < nw
            /\ \A k \in 1 .. Len(later) : Head(r.live) < later[k]
            /\ Below(kept, later)
        BY <1>1, <3>1, <3>2, RisingTail DEF later
      <3>4. \A i \in 1 .. Len(kept) : kept[i] < Head(r.live)
        <4>1. Head(r.live) = r.live[1] /\ 1 \in 1 .. Len(r.live)
          BY <1>1
        <4> QED
          BY <3>2, <4>1 DEF Below
      <3>5. Rising(ring, r.since, nw)
        BY <1>2, <1>4, <3>2, <3>3, <3>4, RisingAppend
      <3>6. Below(ring, later)
        <4>1. /\ \A i \in 1 .. Len(ring) : i \in 1 .. Len(kept) \/ ring[i] = Head(r.live)
              /\ \A i \in 1 .. Len(kept) : ring[i] = kept[i]
          BY <1>2, <1>4
        <4> QED
          BY <3>3, <4>1 DEF Below
      <3> QED
        BY <1>9, <3>3, <3>5, <3>6 DEF QueuesOK
    <2>4. Phase(q) # "live"
      BY <1>1, <1>10
    <2> QED
      BY <1>1, <1>9, <1>10, <2>1, <2>2, <2>3, <2>4 DEF SeamOK
  <1> QED
    BY <1>8, <1>11, <1>12, <1>13

(* Past the seam a session holds its arrivals or tells them.                *)
WentLive(r, items, live) ==
  [r EXCEPT !.pc = IF items = << >> THEN "live" ELSE "emit", !.todo = items,
            !.back = IF items = << >> THEN r.back ELSE "live", !.live = live,
            !.ring = << >>, !.evicted = {}]
HoldsOrTells(r, items, live) ==
  \A x : Lists(r.live, x) \/ Lists(r.ring, x) \/ x \in r.evicted => Lists(live, x) \/ ToldIn(items, x)

(* They are told in order, and before those that wait on.                   *)
Onward(r, items, live, nw) ==
  /\ Rises(items, 1, Len(items)) /\ Rising(live, r.since, nw)
  /\ \A k \in 1 .. Len(live) : Lists(r.live, live[k])
  /\ \A i \in 1 .. Len(items) : Arrived(items[i], r.since, nw, live)
  /\ r.pc = "live" => \A i \in 1 .. Len(items) : items[i].kind = "data" => Lists(r.live, items[i].from)

LEMMA SeamGrows ==
  ASSUME NEW log \in Seq(Item), NEW items \in Seq(Item), NEW n \in 0 .. Len(log),
         NEW edge, NEW since, NEW high, NEW old, NEW live, SeamAt(log, n, edge, since, high, old),
         \A k \in 1 .. Len(live) : Lists(old, live[k]),
         Rises(items, 1, Len(items)), \A i \in 1 .. Len(items) : Arrived(items[i], since, high, live),
         n = Len(log) \/ \A i \in 1 .. Len(items) : items[i].kind = "data" => Lists(old, items[i].from),
         NEW longer, longer = log \o items
  PROVE  SeamIn(longer, edge, since, high, live)
  <1>1. /\ longer \in Seq(Item) /\ Len(longer) = Len(log) + Len(items)
        /\ Len(log) \in Nat /\ Len(items) \in Nat
        /\ \A i \in 1 .. Len(longer) : longer[i] = IF i <= Len(log) THEN log[i] ELSE items[i - Len(log)]
    BY ConcatIs
  <1>2. /\ n \in 0 .. Len(longer) /\ n \in Int
        /\ \A i \in 1 .. n : i \in 1 .. Len(log) /\ longer[i] = log[i]
    BY <1>1
  <1>3. \A i \in n + 1 .. Len(longer) :
          \/ i \in n + 1 .. Len(log) /\ longer[i] = log[i]
          \/ i > Len(log) /\ i - Len(log) \in 1 .. Len(items) /\ longer[i] = items[i - Len(log)]
    BY <1>1, <1>2
  <1>4. Rises(longer, 1, n) /\ \A i \in 1 .. n : longer[i].kind = "data" => longer[i].from < edge
    BY <1>2 DEF SeamAt, Rises
  <1>5. ASSUME NEW i \in n + 1 .. Len(longer) PROVE Arrived(longer[i], since, high, live)
    <2>1. ASSUME i \in n + 1 .. Len(log), Arrived(log[i], since, high, old) PROVE Arrived(log[i], since, high, live)
      BY <2>1 DEF Arrived, Lists
    <2> QED
      BY <1>3, <2>1 DEF SeamAt
  <1>6. ASSUME NEW i \in n + 1 .. Len(longer), NEW j \in n + 1 .. Len(longer), i < j
        PROVE  Sooner(longer[i], longer[j])
    <2>1. CASE j \in n + 1 .. Len(log)
      <3>1. i \in n + 1 .. Len(log) /\ longer[i] = log[i] /\ longer[j] = log[j]
        BY <1>1, <1>2, <1>6, <2>1
      <3> QED
        BY <1>6, <2>1, <3>1 DEF SeamAt, Rises
    <2>2. CASE i \in n + 1 .. Len(log) /\ j > Len(log)
      <3>1. longer[i] = log[i] /\ longer[j] = items[j - Len(log)] /\ j - Len(log) \in 1 .. Len(items)
        BY <1>1, <1>2, <2>2
      <3>2. n # Len(log)
        BY <1>1, <1>2, <2>2
      <3>3. items[j - Len(log)].kind = "data" => Lists(old, items[j - Len(log)].from)
        BY <3>1, <3>2
      <3>4. Arrived(log[i], since, high, old)
        BY <2>2 DEF SeamAt
      <3> QED
        BY <3>1, <3>3, <3>4 DEF Sooner, Arrived, Lists
    <2>3. CASE i > Len(log)
      <3>1. /\ longer[i] = items[i - Len(log)] /\ i - Len(log) \in 1 .. Len(items)
            /\ longer[j] = items[j - Len(log)] /\ j - Len(log) \in 1 .. Len(items)
            /\ i - Len(log) < j - Len(log)
        BY <1>1, <1>2, <1>6, <2>3
      <3> QED
        BY <3>1 DEF Rises
    <2> QED
      BY <1>1, <1>2, <1>6, <2>1, <2>2, <2>3
  <1>7. SeamAt(longer, n, edge, since, high, live)
    BY <1>4, <1>5, <1>6 DEF SeamAt, Rises
  <1> QED
    BY <1>2, <1>7 DEF SeamIn

LEMMA LiveOK ==
  ASSUME NEW s, NEW r, NEW tr, NEW nw, NEW hz, NEW cl,
         SessionOK(s, r, tr, nw, hz, cl), r.pc \in {"next", "live"}, r.plan = << >>,
         s \in Stitched, s \notin Historical,
         NEW items \in Seq(Item), NEW live \in Seq(Time), HoldsOrTells(r, items, live),
         Onward(r, items, live, nw),
         NEW q, q = WentLive(r, items, live)
  PROVE  /\ SessionOK(s, q, tr, nw, hz, cl)
         /\ \A sl : SlotOK(s, q, sl)
         /\ \A fl : FilledOK(s, q, fl)
  <1> DEFINE pc == IF items = << >> THEN "live" ELSE "emit"
             back == IF items = << >> THEN r.back ELSE "live"
  <1>1. q = [r EXCEPT !.pc = pc, !.todo = items, !.back = back, !.live = live, !.ring = << >>, !.evicted = {}]
    BY DEF WentLive
  <1>2. r \in SessionType /\ ShapeOK(s, r) /\ SeamOK(s, r, tr, nw) /\ Phase(r) = r.pc
    BY DEF SessionOK, Phase
  <1>3. /\ r.todo = << >> /\ Log(r) = r.out /\ r.out \in Seq(Item) /\ r.batch = {}
        /\ r.back # "emit" /\ r.back # "done" /\ r.back \in Pcs
    BY <1>2, TypeIs DEF ShapeOK, Working
  <1>4. q \in SessionType
    <2> DEFINE nothing == {}
               nowhere == << >>
    <2>1. nowhere \in Seq(Time) /\ nothing \subseteq Time /\ pc \in Pcs /\ back \in Pcs
      BY <1>3 DEF Pcs
    <2>2. q = [r EXCEPT !.pc = pc, !.todo = items, !.back = back, !.live = live,
                        !.ring = nowhere, !.evicted = nothing]
      BY <1>1
    <2> HIDE DEF nothing, nowhere, pc, back
    <2>3. ASSUME NEW p \in Pcs, NEW i \in Seq(Item), NEW b \in Pcs, NEW l \in Seq(Time), NEW e, e \subseteq Time
          PROVE  [r EXCEPT !.pc = p, !.todo = i, !.back = b, !.live = live, !.ring = l, !.evicted = e]
                   \in SessionType
      BY <1>2, <2>3 DEF SessionType
    <2>4. [r EXCEPT !.pc = pc, !.todo = items, !.back = back, !.live = live,
                    !.ring = nowhere, !.evicted = nothing] \in SessionType
      BY <2>1, <2>3, Zenon
    <2> QED
      BY <2>2, <2>4
  <1>5. /\ q.pc = pc /\ q.todo = items /\ q.back = back /\ q.out = r.out
        /\ q.batch = {} /\ q.plan = << >> /\ q.range = r.range /\ q.since = r.since
        /\ q.unserved = r.unserved /\ q.live = live /\ q.ring = << >> /\ q.evicted = {}
    BY <1>1, <1>2, <1>3 DEF SessionType
  <1>6. Phase(q) = "live" /\ ~Working(q) /\ 1 .. Len(q.plan) = {}
    BY <1>5 DEF Phase, Working
  <1>7. Extended(Log(r), items, Log(q))
    BY <1>3, <1>5, EmitLog
  <1>8. ShapeOK(s, q)
    BY <1>3, <1>5, <1>6 DEF ShapeOK
  <1>9. PlanOK(s, q, cl) /\ FetchOK(s, q, tr, hz) /\ OrderOK(s, q) /\ WholeOK(s, q, tr)
    BY <1>6 DEF PlanOK, FetchOK, OrderOK, Timely, Streaming, WholeOK
  <1>10. SeamOK(s, q, tr, nw)
    <2>1. \A x : ~InPlan(r, x)
      <3>1. Left(r) = {}
        BY DEF Left
      <3> QED
        BY <3>1 DEF InPlan
    <2>2. \A x : ToldIn(Log(q), x) <=> ToldIn(Log(r), x) \/ ToldIn(items, x)
      BY <1>7 DEF Extended
    <2>3. \A x \in tr : r.since <= x /\ x < nw => Lists(q.live, x) \/ ToldIn(Log(q), x)
      BY <1>2, <1>5, <2>2 DEF SeamOK, HoldsOrTells
    <2>4. \A x \in tr : r.range[1] <= x /\ x < r.since => ToldIn(Log(q), x) \/ x \in q.unserved
      BY <1>2, <1>3, <1>5, <2>1, <2>2 DEF SeamOK
    <2>5. r.since <= nw
      BY <1>2 DEF SeamOK
    <2>6. QueuesOK(q, nw)
      BY <1>5 DEF QueuesOK, Onward, Rising, Below
    <2>7. SeamIn(Log(q), r.range[2], r.since, nw, live)
      <3>1. PICK n \in 0 .. Len(Log(r)) :
              SeamAt(Log(r), n, r.range[2], r.since, nw, r.live) /\ (n = Len(Log(r)) \/ r.pc = "live")
        <4>1. CASE r.pc = "live"
          BY <1>2, <4>1 DEF SeamOK, SeamIn
        <4>2. CASE r.pc = "next"
          <5> DEFINE log == Log(r)
          <5>1. Ordered(log) /\ Behind(r, log)
            BY <1>2, <4>2 DEF SessionOK, OrderOK, Timely, Streaming
          <5>2. log \in Seq(Item) /\ Len(log) \in 0 .. Len(log) /\ Len(log) + 1 .. Len(log) = {}
            BY <1>3
          <5>3. r.range[2] \in Int
            BY <1>2, TypeIs
          <5> HIDE DEF log
          <5>4. ASSUME NEW i \in 1 .. Len(log), log[i].kind = "data"
                PROVE  /\ log[i].from \in Int /\ log[i].to \in Int
                       /\ log[i].from < log[i].to /\ log[i].to <= r.range[2]
            BY <5>1, <5>2, <5>4, ItemIs DEF Behind, FrontierOK
          <5>5. \A i, j \in 1 .. Len(log) : i < j => Sooner(log[i], log[j])
            <6> SUFFICES ASSUME NEW i \in 1 .. Len(log), NEW j \in 1 .. Len(log), i < j,
                                log[i].kind = "data", log[j].kind = "data"
                         PROVE  log[i].from < log[j].from
              BY DEF Sooner
            <6>1. log[i].to <= log[j].from
              BY <5>1 DEF Ordered, Before
            <6> QED
              BY <5>4, <6>1
          <5>6. \A i \in 1 .. Len(log) : log[i].kind = "data" => log[i].from < r.range[2]
            BY <5>3, <5>4
          <5>7. SeamAt(log, Len(log), r.range[2], r.since, nw, r.live)
            BY <5>2, <5>5, <5>6 DEF SeamAt, Rises
          <5> QED
            BY <5>2, <5>7 DEF log
        <4> QED
          BY <4>1, <4>2
      <3>2. Log(q) = Log(r) \o items /\ Log(r) \in Seq(Item)
        BY <1>3, <1>5 DEF Log
      <3> QED
        BY <3>1, <3>2, SeamGrows DEF Onward
    <2> QED
      BY <1>5, <1>6, <2>3, <2>4, <2>5, <2>6, <2>7 DEF SeamOK
  <1>11. (\A sl : SlotOK(s, q, sl)) /\ (\A fl : FilledOK(s, q, fl))
    BY <1>6 DEF SlotOK, FilledOK
  <1> QED
    BY <1>4, <1>8, <1>9, <1>10, <1>11 DEF SessionOK

(* What the seam tells: a gap over the evicted arrivals, then the others.   *)
LEMMA SeamTold ==
  ASSUME NEW ring \in Seq(Time), NEW evicted, evicted \subseteq Time,
         NEW gap, gap = IF evicted = {} THEN << >> ELSE <<Gap(Min(evicted), Max(evicted) + 1)>>,
         NEW rest, rest = [i \in DOMAIN ring |-> Data(ring[i])],
         NEW items, items = gap \o rest, NEW low, NEW high, Rising(ring, low, high),
         NEW live, Below(ring, live)
  PROVE  /\ items \in Seq(Item)
         /\ \A x : Lists(ring, x) \/ x \in evicted => ToldIn(items, x)
         /\ Rises(items, 1, Len(items)) /\ \A i \in 1 .. Len(items) : Arrived(items[i], low, high, live)
  <1>1. \A x \in Time : x \in Int
    BY ReadThroughAssumption DEF Time
  <1>2. ASSUME NEW i \in 1 .. Len(ring) PROVE ring[i] \in Time /\ Data(ring[i]) \in Item /\ Tells(Data(ring[i]), ring[i])
    <2>1. ring[i] \in Time /\ ring[i] \in Int
      BY <1>1
    <2>2. /\ Data(ring[i]) \in Item /\ Data(ring[i]).kind = "data"
          /\ Data(ring[i]).from = ring[i] /\ Data(ring[i]).to = ring[i] + 1
      BY <2>1, ItemsAre
    <2> QED
      BY <2>1, <2>2 DEF Tells
  <1>3. rest \in Seq(Item) /\ Len(rest) = Len(ring) /\ \A i \in 1 .. Len(ring) : rest[i] = Data(ring[i])
    <2>1. DOMAIN ring = 1 .. Len(ring) /\ Len(ring) \in Nat
      OBVIOUS
    <2> QED
      BY <1>2, <2>1
  <1>4. \A x : Lists(ring, x) => ToldIn(rest, x)
    BY <1>2, <1>3 DEF Lists, ToldIn
  <1>5. gap \in Seq(Item) /\ \A x \in evicted : ToldIn(gap, x)
    <2>1. CASE evicted = {}
      BY <2>1
    <2>2. CASE evicted # {}
      <3> DEFINE first == Min(evicted)
                 last == Max(evicted)
      <3>1. first \in Int /\ last \in Int /\ \A y \in evicted : first <= y /\ y <= last /\ y \in Int
        BY <1>1, <2>2, MinMaxTime
      <3>2. gap = <<Gap(first, last + 1)>>
        BY <2>2
      <3> HIDE DEF first, last
      <3>3. /\ Gap(first, last + 1) \in Item /\ Gap(first, last + 1).kind = "gap"
            /\ Gap(first, last + 1).from = first /\ Gap(first, last + 1).to = last + 1
        <4>1. last + 1 \in Int
          BY <3>1
        <4> QED
          BY <3>1, <4>1 DEF Gap, Item
      <3>4. gap \in Seq(Item) /\ \A x : ToldIn(gap, x) <=> Tells(Gap(first, last + 1), x)
        BY <3>2, <3>3, LogOne
      <3>5. \A x \in evicted : Tells(Gap(first, last + 1), x)
        BY <3>1, <3>3 DEF Tells
      <3> QED
        BY <3>4, <3>5
    <2> QED
      BY <2>1, <2>2
  <1>6. items \in Seq(Item) /\ \A x : ToldIn(items, x) <=> ToldIn(gap, x) \/ ToldIn(rest, x)
    BY <1>3, <1>5, LogConcat
  <1>7. \A i \in 1 .. Len(gap) : gap[i].kind = "gap"
    <2>1. CASE evicted = {}
      BY <2>1
    <2>2. CASE evicted # {}
      <3> DEFINE told == Gap(Min(evicted), Max(evicted) + 1)
      <3>1. gap = <<told>> /\ told.kind = "gap"
        BY <2>2 DEF Gap
      <3> HIDE DEF told
      <3> QED
        BY <3>1
    <2> QED
      BY <2>1, <2>2
  <1>8. /\ Len(gap) \in Nat /\ Len(rest) \in Nat /\ Len(items) = Len(gap) + Len(rest)
        /\ \A i \in 1 .. Len(items) : items[i] = IF i <= Len(gap) THEN gap[i] ELSE rest[i - Len(gap)]
    BY <1>3, <1>5, ConcatIs
  <1>9. ASSUME NEW i \in 1 .. Len(items), items[i].kind = "data"
        PROVE  i - Len(gap) \in 1 .. Len(ring) /\ items[i].from = ring[i - Len(gap)]
    <2>1. i > Len(gap)
      <3> SUFFICES ASSUME ~(i > Len(gap)) PROVE FALSE
        OBVIOUS
      <3>1. i \in 1 .. Len(gap) /\ i <= Len(gap)
        BY <1>8
      <3>2. items[i] = gap[i]
        BY <1>8, <3>1
      <3>3. items[i].kind = "gap"
        BY <1>7, <3>1, <3>2
      <3> QED
        BY <1>9, <3>3
    <2>2. i - Len(gap) \in 1 .. Len(ring) /\ items[i] = rest[i - Len(gap)]
      BY <1>3, <1>8, <2>1
    <2>3. items[i] = Data(ring[i - Len(gap)])
      BY <1>3, <2>2
    <2> QED
      BY <2>2, <2>3 DEF Data
  <1>10. Rises(items, 1, Len(items))
    <2>1. ASSUME NEW i \in 1 .. Len(items), NEW j \in 1 .. Len(items), i < j,
                 items[i].kind = "data", items[j].kind = "data"
          PROVE  items[i].from < items[j].from
      <3>1. i - Len(gap) < j - Len(gap)
        BY <1>8, <2>1
      <3> QED
        BY <1>9, <2>1, <3>1 DEF Rising
    <2>2. ASSUME NEW i \in 1 .. Len(items), NEW j \in 1 .. Len(items), i < j
          PROVE  Sooner(items[i], items[j])
      BY <2>1, <2>2, Zenon DEF Sooner
    <2> QED
      BY <2>2 DEF Rises
  <1>11. ASSUME NEW i \in 1 .. Len(items) PROVE Arrived(items[i], low, high, live)
    <2> SUFFICES ASSUME items[i].kind = "data" PROVE Arrived(items[i], low, high, live)
      BY DEF Arrived
    <2> DEFINE k == i - Len(gap)
    <2>1. k \in 1 .. Len(ring) /\ items[i].from = ring[k]
      BY <1>9
    <2> HIDE DEF k
    <2>2. low <= ring[k] /\ ring[k] < high /\ \A m \in 1 .. Len(live) : ring[k] < live[m]
      BY <2>1 DEF Rising, Below
    <2> QED
      BY <2>1, <2>2 DEF Arrived
  <1> QED
    BY <1>4, <1>5, <1>6, <1>10, <1>11

(* What the market's tick does to a session: a stitched one that runs is    *)
(* sent the trade.                                                          *)
Hears(s, r, tr, nw) == s \in Stitched /\ r.pc \notin {"idle", "done"} /\ r.back # "done" /\ nw \in tr
Ticked(s, r, tr, nw) == IF Hears(s, r, tr, nw) THEN [r EXCEPT !.live = Append(r.live, nw)] ELSE r

LEMMA TickOK ==
  ASSUME NEW s, NEW r, NEW tr, tr \subseteq Int, NEW nw \in Time, NEW hz, NEW cl, NEW sl, NEW fl,
         SessionOK(s, r, tr, nw, hz, cl), s \in Historical \cup Stitched,
         NEW q, q = Ticked(s, r, tr, nw)
  PROVE  /\ SessionOK(s, q, tr, nw + 1, hz, cl)
         /\ SlotOK(s, r, sl) => SlotOK(s, q, sl)
         /\ FilledOK(s, r, fl) => FilledOK(s, q, fl)
  <1>1. /\ r \in SessionType /\ ShapeOK(s, r) /\ SeamOK(s, r, tr, nw) /\ r.live \in Seq(Time) /\ r.since \in Int
        /\ nw \in Int
    BY TypeIs, ReadThroughAssumption DEF SessionOK, Time
  <1>2. q \in SessionType
    <2>1. ASSUME NEW l \in Seq(Time) PROVE [r EXCEPT !.live = l] \in SessionType
      BY <1>1 DEF SessionType
    <2>2. Append(r.live, nw) \in Seq(Time)
      BY <1>1, ListAppend
    <2> QED
      BY <1>1, <2>1, <2>2 DEF Ticked
  <1>3. /\ q.pc = r.pc /\ q.todo = r.todo /\ q.out = r.out /\ q.back = r.back
        /\ q.range = r.range /\ q.mode = r.mode /\ q.blind = r.blind
        /\ q.plan = r.plan /\ q.batch = r.batch /\ q.max = r.max /\ q.failed = r.failed
        /\ q.since = r.since /\ q.unserved = r.unserved /\ q.close = r.close
        /\ q.ring = r.ring /\ q.evicted = r.evicted
        /\ q.live = IF Hears(s, r, tr, nw) THEN Append(r.live, nw) ELSE r.live
    BY <1>1 DEF SessionType, Ticked
  <1>4. Phase(q) = Phase(r) /\ Log(q) = Log(r)
    BY <1>3 DEF Phase, Log
  <1>5. SameServed(r, q)
    BY <1>3, <1>4 DEF SameServed
  <1>6. ShapeOK(s, q)
    <2>1. Phase(r) = "idle" => q.live = r.live
      BY <1>1, <1>3 DEF ShapeOK, Hears, Phase
    <2>2. Working(q) <=> Working(r)
      BY <1>4 DEF Working
    <2> QED
      BY <1>1, <1>3, <1>4, <2>1, <2>2 DEF ShapeOK
  <1>7. SeamOK(s, q, tr, nw + 1)
    <2> SUFFICES ASSUME s \in Stitched PROVE SeamOK(s, q, tr, nw + 1)
      BY DEF SeamOK
    <2>1. \A x : InPlan(q, x) <=> InPlan(r, x)
      BY <1>3, <1>4 DEF InPlan, Left, Working
    <2>2. ASSUME Phase(r) \notin {"idle", "done"}
          PROVE  /\ r.since <= nw + 1 /\ QueuesOK(q, nw + 1)
                 /\ \A x \in tr : r.since <= x /\ x < nw + 1 =>
                      Lists(q.live, x) \/ Lists(r.ring, x) \/ x \in r.evicted \/ ToldIn(Log(r), x)
      <3>1. r.pc \notin {"idle", "done"} /\ r.back # "done"
        BY <1>1, <2>2 DEF ShapeOK, Phase
      <3>2. \A x : Lists(r.live, x) => Lists(q.live, x)
        BY <1>1, <1>3, ListAppend
      <3>3. nw \in tr => Lists(q.live, nw)
        <4> SUFFICES ASSUME nw \in tr PROVE Lists(q.live, nw)
          OBVIOUS
        <4>1. Hears(s, r, tr, nw)
          BY <3>1 DEF Hears
        <4>2. Lists(Append(r.live, nw), nw)
          BY <1>1, ListAppend
        <4> QED
          BY <1>3, <4>1, <4>2
      <3>4. \A x \in tr : x < nw + 1 => x < nw \/ x = nw
        BY <1>1
      <3>5. Rising(r.ring, r.since, nw) /\ Rising(r.live, r.since, nw) /\ Below(r.ring, r.live)
        BY <1>1, <2>2 DEF SeamOK, QueuesOK
      <3>6. /\ \A i \in 1 .. Len(r.ring) : r.ring[i] \in Int
            /\ \A i \in 1 .. Len(r.live) : r.live[i] \in Int
        <4>1. r.ring \in Seq(Time) /\ r.live \in Seq(Time)
          BY <1>1, TypeIs
        <4>2. ASSUME NEW l \in Seq(Time), NEW i \in 1 .. Len(l) PROVE l[i] \in Int
          <5>1. l[i] \in Time
            OBVIOUS
          <5> QED
            BY <5>1, TimeIs
        <4> QED
          BY <4>1, <4>2
      <3>7. Rising(r.ring, r.since, nw + 1) /\ Rising(r.live, r.since, nw + 1)
        BY <1>1, <3>5, <3>6 DEF Rising
      <3>8. r.since <= nw
        BY <1>1, <2>2 DEF SeamOK
      <3>9. Rising(Append(r.live, nw), r.since, nw + 1)
        <4>1. \A i \in 1 .. Len(r.live) : r.live[i] < nw
          BY <3>5 DEF Rising
        <4>2. r.since <= nw /\ nw < nw + 1
          BY <1>1, <3>8
        <4> QED
          BY <1>1, <3>7, <4>1, <4>2, RisingAppend
      <3>10. Below(r.ring, Append(r.live, nw))
        <4>1. /\ Len(Append(r.live, nw)) = Len(r.live) + 1 /\ Append(r.live, nw)[Len(r.live) + 1] = nw
              /\ \A i \in 1 .. Len(r.live) : Append(r.live, nw)[i] = r.live[i]
              /\ \A i \in 1 .. Len(r.live) + 1 : i \in 1 .. Len(r.live) \/ i = Len(r.live) + 1
          BY <1>1
        <4> QED
          BY <3>5, <4>1 DEF Below, Rising
      <3>11. QueuesOK(q, nw + 1)
        BY <1>3, <3>5, <3>7, <3>9, <3>10 DEF QueuesOK
      <3> QED
        BY <1>1, <2>2, <3>2, <3>3, <3>4, <3>11 DEF SeamOK
    <2>3. ASSUME Phase(r) = "live" PROVE SeamIn(Log(r), r.range[2], r.since, nw + 1, q.live)
      <3>1. PICK n \in 0 .. Len(Log(r)) : SeamAt(Log(r), n, r.range[2], r.since, nw, r.live)
        BY <1>1, <2>3 DEF SeamOK, SeamIn
      <3>2. /\ Log(r) \in Seq(Item)
            /\ \A i \in 1 .. Len(q.live) : q.live[i] = nw \/ Lists(r.live, q.live[i])
        <4>1. /\ Len(Append(r.live, nw)) = Len(r.live) + 1 /\ Append(r.live, nw)[Len(r.live) + 1] = nw
              /\ \A i \in 1 .. Len(r.live) : Append(r.live, nw)[i] = r.live[i]
              /\ \A i \in 1 .. Len(r.live) + 1 : i \in 1 .. Len(r.live) \/ i = Len(r.live) + 1
          BY <1>1
        <4> QED
          BY <1>1, <1>3, <4>1, TypeIs DEF Lists
      <3>3. ASSUME NEW i \in n + 1 .. Len(Log(r)) PROVE Arrived(Log(r)[i], r.since, nw + 1, q.live)
        <4>1. Arrived(Log(r)[i], r.since, nw, r.live)
          BY <3>1 DEF SeamAt
        <4>2. i \in 1 .. Len(Log(r)) /\ Log(r)[i].from \in Int
          BY <3>2, ItemIs
        <4> QED
          BY <1>1, <3>2, <4>1, <4>2 DEF Arrived, Lists
      <3> QED
        BY <3>1, <3>3 DEF SeamAt, SeamIn
    <2> QED
      BY <1>1, <1>3, <1>4, <2>1, <2>2, <2>3 DEF SeamOK
  <1> QED
    BY <1>2, <1>5, <1>6, <1>7, SameServedOK, Zenon

-----------------------------------------------------------------------------
(* The steps of the whole system.                                           *)

LEMMA InvIs ==
  ASSUME IInv, NEW s \in Sessions
  PROVE  /\ SessionOK(s, ses[s], truth, now, horizon, claimed)
         /\ SlotOK(s, ses[s], slot) /\ FilledOK(s, ses[s], filled)
         /\ ses[s] \in SessionType /\ ShapeOK(s, ses[s]) /\ SeamOK(s, ses[s], truth, now)
         /\ truth \subseteq Time /\ truth \subseteq Int /\ now \in Time /\ horizon \in Int
         /\ s \in Historical \cup Stitched /\ (s \in Historical => s \notin Stitched)
  <1>1. SessionOK(s, ses[s], truth, now, horizon, claimed) /\ SlotOK(s, ses[s], slot) /\ FilledOK(s, ses[s], filled)
    BY DEF IInv
  <1>2. truth \subseteq Time /\ truth \subseteq Int /\ now \in Time /\ horizon \in Int
    BY ReadThroughAssumption DEF IInv, ClockOK, Span, Time
  <1>3. s \in Historical \cup Stitched /\ (s \in Historical => s \notin Stitched)
    BY ReadThroughAssumption DEF Sessions
  <1> QED
    BY <1>1, <1>2, <1>3 DEF SessionOK

(* One session moves, and what it writes to the cache or does to the slots  *)
(* suits the others.                                                        *)
LEMMA SessionMoves ==
  ASSUME IInv, NEW s \in Sessions, NEW q, Becomes(s, q),
         ClockOK', CacheOK', truth' = truth, now' = now, horizon' = horizon, claimed \subseteq claimed',
         SessionOK(s, q, truth, now, horizon, claimed'),
         SlotOK(s, q, slot'), FilledOK(s, q, filled'),
         \A o \in Sessions \ {s} : SlotOK(o, ses[o], slot') /\ FilledOK(o, ses[o], filled')
  PROVE  IInv'
  <1>1. ses' = [ses EXCEPT ![s] = q] /\ DOMAIN ses = Sessions
    BY DEF IInv, Becomes
  <1>2. ses' = [o \in Sessions |-> ses'[o]] /\ ses'[s] = q /\ \A o \in Sessions \ {s} : ses'[o] = ses[o]
    BY <1>1
  <1>3. ASSUME NEW o \in Sessions
        PROVE  SessionOK(o, ses'[o], truth', now', horizon', claimed') /\ SlotOK(o, ses'[o], slot')
                 /\ FilledOK(o, ses'[o], filled')
    <2>1. CASE o = s
      BY <1>2, <2>1
    <2>2. CASE o # s
      <3>1. SessionOK(o, ses[o], truth, now, horizon, claimed) /\ truth \subseteq Time /\ horizon \in Int
        BY InvIs
      <3>2. SessionOK(o, ses[o], truth, now, horizon, claimed')
        BY <3>1, SessionMonotone
      <3> QED
        BY <1>2, <2>2, <3>2
    <2> QED
      BY <2>1, <2>2
  <1> QED
    BY <1>2, <1>3 DEF IInv

(* One session moves and touches nothing else.                              *)
LEMMA SessionMovesAlone ==
  ASSUME IInv, NEW s \in Sessions, NEW q, Becomes(s, q), UNCHANGED <<clock, cache, slot>>,
         SessionOK(s, q, truth, now, horizon, claimed), SlotOK(s, q, slot), FilledOK(s, q, filled)
  PROVE  IInv'
  <1>1. /\ truth' = truth /\ now' = now /\ horizon' = horizon /\ rows' = rows /\ doc' = doc
        /\ claimed' = claimed /\ lagging' = lagging /\ filled' = filled /\ slot' = slot
    BY DEF clock, cache
  <1>2. ClockOK' /\ CacheOK'
    BY <1>1 DEF IInv, ClockOK, CacheOK
  <1>3. \A o \in Sessions \ {s} : SlotOK(o, ses[o], slot') /\ FilledOK(o, ses[o], filled')
    BY <1>1 DEF IInv
  <1> QED
    BY <1>1, <1>2, <1>3, SessionMoves

(* ... and tells the same story.                                            *)
LEMMA SessionStays ==
  ASSUME IInv, NEW s \in Sessions, NEW q, Becomes(s, q), UNCHANGED <<clock, cache, slot>>,
         q \in SessionType, ShapeOK(s, q), SameStory(ses[s], q)
  PROVE  IInv'
  <1>1. SessionOK(s, ses[s], truth, now, horizon, claimed) /\ SlotOK(s, ses[s], slot) /\ FilledOK(s, ses[s], filled)
    BY InvIs
  <1>2. SessionOK(s, q, truth, now, horizon, claimed) /\ SlotOK(s, q, slot) /\ FilledOK(s, q, filled)
    BY <1>1, SameStoryOK
  <1> QED
    BY <1>2, SessionMovesAlone

(* ... and goes on with its plan.                                           *)
LEMMA SessionStreams ==
  ASSUME IInv, NEW s \in Sessions, NEW q, Becomes(s, q), UNCHANGED <<clock, cache, slot>>,
         SessionOK(s, q, truth, now, horizon, claimed) /\ Shrinks(ses[s], q)
  PROVE  IInv'
  <1>1. SlotOK(s, q, slot) /\ FilledOK(s, q, filled)
    BY InvIs, ShrinksOK
  <1> QED
    BY <1>1, SessionMovesAlone

LEMMA CallerSteps ==
  ASSUME IInv, NEW s \in Sessions,
         TakeEvents(s) \/ Recv(s) \/ DropStream(s) \/ DropSession(s) \/ AskClose(s)
  PROVE  IInv'
  <1> DEFINE r == ses[s]
  <1>1. r \in SessionType /\ ShapeOK(s, r)
    BY InvIs
  <1>2. /\ r.stream \in {"held", "taken", "dropped", "orphan"} /\ r.unread \in Int /\ r.close \in BOOLEAN
    BY <1>1, TypeIs
  <1>3. PICK stream \in {"held", "taken", "dropped", "orphan"}, unread \in Int, close \in BOOLEAN :
          /\ r.close => close
          /\ Becomes(s, [r EXCEPT !.stream = stream, !.unread = unread, !.close = close])
          /\ UNCHANGED <<clock, cache, slot>>
    <2>1. CASE TakeEvents(s)
      <3>1. [r EXCEPT !.stream = "taken"] = [r EXCEPT !.stream = "taken", !.unread = r.unread, !.close = r.close]
        BY <1>1 DEF SessionType
      <3>2. Becomes(s, [r EXCEPT !.stream = "taken", !.unread = r.unread, !.close = r.close])
        BY <2>1, <3>1 DEF TakeEvents
      <3> QED
        BY <1>2, <2>1, <3>2 DEF TakeEvents
    <2>2. CASE Recv(s)
      <3> DEFINE less == r.unread - 1
      <3>1. [r EXCEPT !.unread = less]
              = [r EXCEPT !.stream = r.stream, !.unread = less, !.close = r.close]
        BY <1>1 DEF SessionType
      <3>2. /\ Becomes(s, [r EXCEPT !.stream = r.stream, !.unread = less, !.close = r.close])
            /\ UNCHANGED <<clock, cache, slot>>
        BY <2>2, <3>1 DEF Recv
      <3>3. less \in Int
        BY <1>2
      <3> HIDE DEF less
      <3> QED
        BY <1>2, <3>2, <3>3
    <2>3. CASE DropStream(s)
      <3> DEFINE none == 0
      <3>1. [r EXCEPT !.stream = "dropped", !.unread = none]
              = [r EXCEPT !.stream = "dropped", !.unread = none, !.close = r.close]
        BY <1>1 DEF SessionType
      <3>2. /\ Becomes(s, [r EXCEPT !.stream = "dropped", !.unread = none, !.close = r.close])
            /\ UNCHANGED <<clock, cache, slot>>
        BY <2>3, <3>1 DEF DropStream
      <3>3. none \in Int
        OBVIOUS
      <3> HIDE DEF none
      <3> QED
        BY <1>2, <3>2, <3>3
    <2>4. CASE DropSession(s)
      <3>1. [r EXCEPT !.stream = "orphan"] = [r EXCEPT !.stream = "orphan", !.unread = r.unread, !.close = r.close]
        BY <1>1 DEF SessionType
      <3>2. Becomes(s, [r EXCEPT !.stream = "orphan", !.unread = r.unread, !.close = r.close])
        BY <2>4, <3>1 DEF DropSession
      <3> QED
        BY <1>2, <2>4, <3>2 DEF DropSession
    <2>5. CASE AskClose(s)
      <3>1. [r EXCEPT !.close = TRUE] = [r EXCEPT !.stream = r.stream, !.unread = r.unread, !.close = TRUE]
        BY <1>1 DEF SessionType
      <3>2. Becomes(s, [r EXCEPT !.stream = r.stream, !.unread = r.unread, !.close = TRUE])
        BY <2>5, <3>1 DEF AskClose
      <3> QED
        BY <1>2, <2>5, <3>2 DEF AskClose
    <2> QED
      BY <2>1, <2>2, <2>3, <2>4, <2>5
  <1> DEFINE q == [r EXCEPT !.stream = stream, !.unread = unread, !.close = close]
  <1> HIDE DEF r
  <1>4. q \in SessionType /\ ShapeOK(s, q) /\ SameStory(r, q)
    BY <1>1, <1>3, CallerOK
  <1>5. Becomes(s, q)
    BY <1>3
  <1> HIDE DEF q
  <1> QED
    BY <1>3, <1>4, <1>5, SessionStays DEF r

LEMMA DeliverSteps ==
  ASSUME IInv, NEW s \in Sessions, DeliverTodo(s)
  PROVE  IInv'
  <1> DEFINE r == ses[s]
             rest == Tail(r.todo)
             more == Append(r.out, Head(r.todo))
             unread == IF s \in Historical /\ r.stream # "dropped" THEN r.unread + 1 ELSE r.unread
             pc == IF rest = << >> THEN r.back ELSE "emit"
             q == [r EXCEPT !.out = more, !.unread = unread, !.todo = rest, !.pc = pc]
  <1>1. r \in SessionType /\ ShapeOK(s, r) /\ r.pc = "emit"
    BY InvIs DEF DeliverTodo, At
  <1>2. unread \in Int
    BY <1>1, TypeIs
  <1>3. Becomes(s, q) /\ UNCHANGED <<clock, cache, slot>>
    BY DEF DeliverTodo
  <1> HIDE DEF r, unread
  <1>4. q \in SessionType /\ ShapeOK(s, q) /\ SameStory(r, q)
    BY <1>1, <1>2, DeliverOK
  <1> HIDE DEF q
  <1> QED
    BY <1>3, <1>4, SessionStays DEF r

LEMMA StreamSteps ==
  ASSUME IInv, NEW s \in Sessions,
         OpenReplay(s) \/ Replay(s) \/ StartFetch(s) \/ FetchEvent(s) \/ FetchEnds(s)
  PROVE  IInv'
  <1> DEFINE r == ses[s]
  <1>1. /\ SessionOK(s, r, truth, now, horizon, claimed) /\ r \in SessionType
        /\ truth \subseteq Time /\ truth \subseteq Int /\ horizon \in Int
        /\ s \in Historical \cup Stitched /\ (s \in Historical => s \notin Stitched)
    BY InvIs
  <1>2. UNCHANGED <<clock, cache, slot>>
    BY DEF OpenReplay, Replay, StartFetch, FetchEvent, FetchEnds
  <1>3. SUFFICES \E q : Becomes(s, q) /\ SessionOK(s, q, truth, now, horizon, claimed) /\ Shrinks(r, q)
    BY <1>2, SessionStreams
  <1> HIDE DEF r
  <1>4. CASE OpenReplay(s)
    <2> DEFINE read == RowsRead(r, rows, lagging)
               skip == [Emit(r, <<Gap(Head(r.plan).from, Head(r.plan).to)>>, "next") EXCEPT !.plan = Tail(r.plan)]
    <2>1. r.pc = "next" /\ r.plan # << >> /\ Head(r.plan).kind = "covered" /\ (Becomes(s, read) \/ Becomes(s, skip))
      BY <1>4 DEF OpenReplay, At, Current, PlanRest, RowsRead, r
    <2>2. CASE Becomes(s, read)
      <3>1. rows \subseteq Time /\ lagging \subseteq Int /\ truth \cap claimed \subseteq rows \cup lagging
        BY TimeIs DEF IInv, CacheOK
      <3>2. SessionOK(s, read, truth, now, horizon, claimed) /\ Shrinks(r, read)
        BY <1>1, <2>1, <3>1, OpenReplayOK
      <3> QED
        BY <2>2, <3>2
    <2>3. CASE Becomes(s, skip)
      <3>1. SessionOK(s, skip, truth, now, horizon, claimed) /\ Shrinks(r, skip)
        <4>1. skip = [Emit(r, <<Gap(Head(r.plan).from, Head(r.plan).to)>>, "next") EXCEPT !.plan = Tail(r.plan)]
          OBVIOUS
        <4> HIDE DEF skip
        <4> QED
          BY <1>1, <2>1, <4>1, ReplayGapOK
      <3> QED
        BY <2>3, <3>1
    <2> QED
      BY <2>1, <2>2, <2>3
  <1>5. CASE Replay(s)
    <2> DEFINE t == Min(r.batch)
               last == NextSegment(r)
               one == [Emit(r, <<Data(t)>>, "replay") EXCEPT !.batch = @ \ {t}]
    <2>1. r.pc = "replay" /\ IF r.batch = {} THEN Becomes(s, last) ELSE Becomes(s, one)
      BY <1>5 DEF Replay, At, r
    <2>2. CASE r.batch = {}
      <3>1. SessionOK(s, last, truth, now, horizon, claimed) /\ Shrinks(r, last)
        BY <1>1, <2>1, <2>2, NextSegmentOK
      <3> QED
        BY <2>1, <2>2, <3>1
    <2>3. CASE r.batch # {}
      <3>1. SessionOK(s, one, truth, now, horizon, claimed) /\ Shrinks(r, one)
        BY <1>1, <2>1, <2>3, ReplayEventOK
      <3> QED
        BY <2>1, <2>3, <3>1
    <2> QED
      BY <2>2, <2>3
  <1>6. CASE StartFetch(s)
    <2> DEFINE q == [r EXCEPT !.pc = "fetch",
                       !.batch = truth \cap Span(Head(r.plan).from, Lower(Head(r.plan).to, horizon)),
                       !.unserved = @ \cup (truth \cap Span(Upper(Head(r.plan).from, horizon),
                                                         Head(r.plan).to))]
    <2>1. r.pc = "next" /\ r.plan # << >> /\ Head(r.plan).kind = "gap" /\ Becomes(s, q)
      BY <1>6 DEF StartFetch, At, Current, r
    <2>2. SessionOK(s, q, truth, now, horizon, claimed) /\ Shrinks(r, q)
      BY <1>1, <2>1, StartFetchOK
    <2> QED
      BY <2>1, <2>2
  <1>7. CASE FetchEvent(s)
    <2> DEFINE t == Min(r.batch)
               q == FetchedOne(r, t)
    <2>1. r.pc = "fetch" /\ r.batch # {} /\ Becomes(s, q)
      BY <1>7 DEF FetchEvent, FetchedOne, At, r
    <2>2. SessionOK(s, q, truth, now, horizon, claimed) /\ Shrinks(r, q)
      <3>1. t = Min(r.batch)
        OBVIOUS
      <3> HIDE DEF t
      <3> QED
        BY <1>1, <2>1, <3>1, FetchEventOK, Zenon
    <2> QED
      BY <2>1, <2>2
  <1>8. CASE FetchEnds(s)
    <2>1. PICK failed \in BOOLEAN :
            /\ r.batch = {} \/ failed = TRUE
            /\ Becomes(s, FetchOver(r, failed))
      <3>1. r.failed \in BOOLEAN /\ [r EXCEPT !.pc = "settle"] = FetchOver(r, r.failed)
        BY <1>1 DEF SessionType, FetchOver
      <3> QED
        BY <1>8, <3>1 DEF FetchEnds, FetchOver, r
    <2> DEFINE q == FetchOver(r, failed)
    <2>2. r.pc = "fetch" /\ Becomes(s, q)
      BY <1>8, <2>1 DEF FetchEnds, At, r
    <2>3. SessionOK(s, q, truth, now, horizon, claimed) /\ Shrinks(r, q)
      BY <1>1, <2>1, <2>2, FetchEndsOK
    <2> QED
      BY <2>2, <2>3
  <1> QED
    BY <1>4, <1>5, <1>6, <1>7, <1>8

(* A plan made of the whole range, or of what the coverage says is missing. *)
LEMMA PlansMade ==
  ASSUME IInv, NEW s \in Sessions, NEW r, r = ses[s], r.pc \in {"plan", "replan"}, NEW blind \in BOOLEAN,
         NEW gaps, gaps = WholeRange(s) \/ gaps = GapsOf(s),
         NEW q, q = Planned(r, gaps, blind)
  PROVE  /\ SessionOK(s, q, truth, now, horizon, claimed)
         /\ q.mode = r.mode /\ q.range = r.range /\ q.blind = blind /\ Phase(q) # "replan"
         /\ gaps = GapsOf(s) => FilledOK(s, q, filled)
         /\ gaps = << >> => \A sl : SlotOK(s, q, sl)
  <1>1. /\ r \in SessionType /\ ShapeOK(s, r) /\ SeamOK(s, r, truth, now)
        /\ truth \subseteq Int /\ horizon \in Int
        /\ s \in Historical \cup Stitched /\ (s \in Historical => s \notin Stitched)
        /\ SessionOK(s, r, truth, now, horizon, claimed)
    BY InvIs
  <1>2. /\ r.range \in Time \X Time /\ r.mode \in BOOLEAN \X BOOLEAN
        /\ r.range[1] \in Int /\ r.range[2] \in Int /\ r.range = <<r.range[1], r.range[2]>>
    BY <1>1, TypeIs
  <1>3. Phase(r) = r.pc /\ r.range[1] < r.range[2] /\ (s \in Historical => r.range \in Ranges)
    BY <1>1 DEF Phase, ShapeOK
  <1>4. s \in Stitched => r.pc = "plan"
    BY <1>1, <1>3 DEF ShapeOK
  <1>5. /\ doc.segments \in Intervals /\ Canonical(doc.segments) /\ claimed = Spans(doc.segments)
    BY DEF IInv, CacheOK
  <1> DEFINE f == r.range[1]
             t == r.range[2]
             plan == tile(f, t, gaps)
  <1>6. /\ Plans(plan, f, t, claimed)
        /\ gaps = GapsOf(s) =>
             \A j \in 1 .. Len(plan) : plan[j].kind = "gap" =>
               gaps # << >> /\ \A x \in claimed : ~(plan[j].from <= x /\ x < plan[j].to)
    <2>1. CASE gaps = GapsOf(s)
      <3>1. gaps = gaps_within(doc.segments, f, t)
        BY <2>1 DEF GapsOf
      <3>2. f \in Int /\ t \in Int /\ f < t
        BY <1>2, <1>3
      <3> HIDE DEF f, t
      <3> QED
        BY <1>1, <1>5, <3>1, <3>2, GapsPlan
    <2>2. CASE gaps = WholeRange(s) /\ gaps # GapsOf(s)
      <3>1. gaps = << <<f, t>> >>
        BY <1>2, <2>2 DEF WholeRange
      <3>2. f \in Int /\ t \in Int /\ f < t
        BY <1>2, <1>3
      <3> HIDE DEF f, t
      <3> QED
        BY <2>2, <3>1, <3>2, WholeRangePlans
    <2> QED
      BY <2>1, <2>2
  <1> DEFINE range == r.range
             mode == r.mode
  <1>7. q = PlanMade(r, range, mode, blind, plan)
    BY <1>1 DEF Planned, PlanMade, SessionType
  <1>8. /\ range = r.range /\ mode = r.mode
        /\ Plans(plan, range[1], range[2], claimed)
        /\ range \in Time \X Time /\ mode \in BOOLEAN \X BOOLEAN
    BY <1>2, <1>6
  <1>9. /\ q.pc = "next" /\ q.range = r.range /\ q.mode = r.mode /\ q.blind = blind /\ q.plan = plan
    BY <1>1, <1>7 DEF PlanMade, SessionType
  <1> HIDE DEF plan, range, mode
  <1>10. SessionOK(s, q, truth, now, horizon, claimed)
    <2>1. Plannable(s, r, truth, now, horizon, claimed, range, mode, blind, plan)
      BY <1>1, <1>3, <1>4, <1>8 DEF Plannable
    <2> QED
      BY <1>7, <2>1, PlannedOK
  <1>11. Phase(q) # "replan"
    BY <1>9 DEF Phase
  <1>12. gaps = GapsOf(s) => FilledOK(s, q, filled)
    <2>1. s \in Historical => filled[r.range] \subseteq claimed
      BY <1>3 DEF IInv, CacheOK
    <2> QED
      BY <1>6, <1>9, <2>1 DEF FilledOK
  <1>13. gaps = << >> => \A sl : SlotOK(s, q, sl)
    <2>1. WholeRange(s) # << >>
      BY DEF WholeRange
    <2>2. gaps = << >> => \A j \in 1 .. Len(plan) : plan[j].kind # "gap"
      BY <1>6, <2>1
    <2> QED
      BY <1>9, <1>11, <2>2 DEF SlotOK
  <1> QED
    BY <1>9, <1>10, <1>11, <1>12, <1>13

LEMMA WaitOK ==
  ASSUME IInv, NEW s \in Sessions, NEW r, r = ses[s], NEW from, NEW to, r.pc = from,
         <<from, to>> \in {<<"plan", "wait">>, <<"wait", "replan">>}, s \in Historical, r.mode[1],
         NEW q, q = [r EXCEPT !.pc = to]
  PROVE  /\ SessionOK(s, q, truth, now, horizon, claimed)
         /\ \A sl : (to = "replan" => sl[r.range] = s) => SlotOK(s, q, sl)
         /\ \A fl : FilledOK(s, q, fl)
  <1>1. /\ r \in SessionType /\ ShapeOK(s, r) /\ s \notin Stitched
        /\ SessionOK(s, r, truth, now, horizon, claimed)
    BY InvIs
  <1>2. from \in {"plan", "wait"} /\ to \in {"wait", "replan"}
    OBVIOUS
  <1>3. Phase(r) = from /\ ~Working(r)
    BY <1>2 DEF Phase, Working
  <1>4. /\ q \in SessionType /\ q.pc = to /\ q.todo = r.todo /\ q.out = r.out /\ q.back = r.back
        /\ q.range = r.range /\ q.mode = r.mode /\ q.plan = r.plan /\ q.batch = r.batch /\ q.max = r.max
    <2>1. to \in Pcs
      BY <1>2 DEF Pcs
    <2> QED
      BY <1>1, <2>1, PcMoves
  <1>5. Phase(q) = to /\ ~Working(q)
    BY <1>2, <1>4 DEF Phase, Working
  <1>6. /\ ShapeOK(s, q) /\ q.out = << >> /\ q.todo = << >> /\ 1 .. Len(q.plan) = {}
    BY <1>1, <1>2, <1>3, <1>4, <1>5 DEF ShapeOK
  <1>7. SeamOK(s, q, truth, now)
    BY <1>1 DEF SeamOK
  <1>8. Phase(q) \in {"idle", "subscribed", "plan", "wait", "replan", "live"}
    BY <1>2, <1>5
  <1>9. /\ SessionOK(s, q, truth, now, horizon, claimed)
        /\ \A sl : Phase(q) # "replan" => SlotOK(s, q, sl)
        /\ \A fl : FilledOK(s, q, fl)
    <2>1. Quiet(s, q, truth, now, horizon)
      BY <1>1, <1>4, <1>6, <1>7, <1>8 DEF Quiet
    <2> QED
      BY <2>1, QuietOK
  <1>10. ASSUME NEW sl, to = "replan" => sl[r.range] = s PROVE SlotOK(s, q, sl)
    BY <1>4, <1>5, <1>6, <1>10 DEF SlotOK
  <1> QED
    BY <1>9, <1>10

LEMMA PlanSteps ==
  ASSUME IInv, NEW s \in Sessions, PlanRefresh(s) \/ PlanCheck(s)
  PROVE  IInv'
  <1> DEFINE r == ses[s]
  <1>1. r.pc = "plan" /\ r \in SessionType /\ ShapeOK(s, r) /\ s \in Historical \cup Stitched
        /\ UNCHANGED <<clock, cache, slot>>
    BY InvIs DEF PlanRefresh, PlanCheck, At
  <1>2. SUFFICES \E q : /\ Becomes(s, q) /\ SessionOK(s, q, truth, now, horizon, claimed)
                        /\ SlotOK(s, q, slot) /\ FilledOK(s, q, filled)
    BY <1>1, SessionMovesAlone
  <1>3. CASE PlanRefresh(s)
    <2> DEFINE q == Planned(r, WholeRange(s), FALSE)
    <2>1. Becomes(s, q) /\ ~r.mode[1]
      BY <1>3 DEF PlanRefresh, Read
    <2>2. SessionOK(s, q, truth, now, horizon, claimed)
      BY <1>1, PlansMade
    <2>3. q.mode = r.mode
      BY <1>1 DEF Planned, SessionType
    <2>4. SlotOK(s, q, slot) /\ FilledOK(s, q, filled)
      BY <2>1, <2>3 DEF SlotOK, FilledOK
    <2> QED
      BY <2>1, <2>2, <2>4
  <1>4. ASSUME GapsOf(s) = << >> \/ s \in Stitched, Becomes(s, Planned(r, GapsOf(s), FALSE))
        PROVE  \E q : /\ Becomes(s, q) /\ SessionOK(s, q, truth, now, horizon, claimed)
                      /\ SlotOK(s, q, slot) /\ FilledOK(s, q, filled)
    <2> DEFINE q == Planned(r, GapsOf(s), FALSE)
    <2>1. SessionOK(s, q, truth, now, horizon, claimed) /\ FilledOK(s, q, filled)
      BY <1>1, PlansMade
    <2>2. GapsOf(s) = << >> => SlotOK(s, q, slot)
      <3> DEFINE gaps == GapsOf(s)
                 p == Planned(r, gaps, FALSE)
      <3>1. gaps = GapsOf(s) /\ p = Planned(r, gaps, FALSE) /\ r = ses[s]
        OBVIOUS
      <3> HIDE DEF gaps, p
      <3>2. gaps = << >> => \A sl : SlotOK(s, p, sl)
        BY <1>1, <3>1, PlansMade
      <3> QED
        BY <3>2 DEF gaps, p
    <2>3. s \in Stitched => SlotOK(s, q, slot)
      BY InvIs DEF SlotOK
    <2> QED
      BY <1>4, <2>1, <2>2, <2>3
  <1>5. ASSUME s \in Historical, r.mode[1], Becomes(s, [r EXCEPT !.pc = "wait"])
        PROVE  \E q : /\ Becomes(s, q) /\ SessionOK(s, q, truth, now, horizon, claimed)
                      /\ SlotOK(s, q, slot) /\ FilledOK(s, q, filled)
    <2> DEFINE q == [r EXCEPT !.pc = "wait"]
    <2>1. /\ SessionOK(s, q, truth, now, horizon, claimed)
          /\ SlotOK(s, q, slot) /\ FilledOK(s, q, filled)
      BY <1>1, <1>5, WaitOK
    <2> QED
      BY <1>5, <2>1
  <1>6. ASSUME s \in Stitched, Becomes(s, Planned(r, WholeRange(s), TRUE))
        PROVE  \E q : /\ Becomes(s, q) /\ SessionOK(s, q, truth, now, horizon, claimed)
                      /\ SlotOK(s, q, slot) /\ FilledOK(s, q, filled)
    <2> DEFINE q == Planned(r, WholeRange(s), TRUE)
    <2>1. SessionOK(s, q, truth, now, horizon, claimed)
      BY <1>1, PlansMade
    <2>2. SlotOK(s, q, slot) /\ FilledOK(s, q, filled)
      BY <1>6, InvIs DEF SlotOK, FilledOK
    <2> QED
      BY <1>6, <2>1, <2>2
  <1>7. CASE PlanCheck(s)
    <2>1. r.mode[1]
      BY <1>7 DEF PlanCheck, Read
    <2>2. \/ (GapsOf(s) = << >> \/ s \in Stitched) /\ Becomes(s, Planned(r, GapsOf(s), FALSE))
          \/ s \in Historical /\ Becomes(s, [r EXCEPT !.pc = "wait"])
          \/ s \in Stitched /\ Becomes(s, Planned(r, WholeRange(s), TRUE))
      BY <1>1, <1>7 DEF PlanCheck
    <2> QED
      BY <1>4, <1>5, <1>6, <2>1, <2>2
  <1> QED
    BY <1>3, <1>7

LEMMA OpenHistoricalStep ==
  ASSUME IInv, NEW s \in Historical, NEW range \in Ranges, NEW mode \in Modes, OpenHistorical(s, range, mode)
  PROVE  IInv'
  <1> DEFINE r == ses[s]
             cached == mode[1] \/ mode[2]
  <1>1. s \in Sessions
    BY DEF Sessions
  <1>2. /\ r.pc = "idle" /\ range[1] < range[2] /\ UNCHANGED <<clock, cache, slot>>
        /\ Becomes(s, [r EXCEPT !.range = range, !.mode = mode,
                         !.pc = IF cached THEN "plan" ELSE "next",
                         !.plan = IF cached THEN << >> ELSE tile(range[1], range[2], << range >>)])
    BY DEF OpenHistorical, At
  <1>3. /\ r \in SessionType /\ ShapeOK(s, r) /\ SeamOK(s, r, truth, now)
        /\ truth \subseteq Int /\ horizon \in Int /\ s \notin Stitched
    BY <1>1, InvIs
  <1>4. /\ range \in Time \X Time /\ mode \in BOOLEAN \X BOOLEAN
        /\ range[1] \in Int /\ range[2] \in Int /\ range = <<range[1], range[2]>>
    BY ReadThroughAssumption DEF Time
  <1>5. Phase(r) = "idle" /\ ~Working(r)
    BY <1>2 DEF Phase, Working
  <1>6. r.plan = << >> /\ r.batch = {} /\ r.max = -1 /\ r.out = << >> /\ r.todo = << >>
        /\ r.back # "emit" /\ r.back # "done"
    BY <1>2, <1>3, <1>5 DEF ShapeOK
  <1>7. SUFFICES \E q : /\ Becomes(s, q) /\ SessionOK(s, q, truth, now, horizon, claimed)
                        /\ SlotOK(s, q, slot) /\ FilledOK(s, q, filled)
    BY <1>1, <1>2, SessionMovesAlone
  <1> HIDE DEF r
  <1>8. CASE cached
    <2> DEFINE q == [r EXCEPT !.pc = "plan", !.range = range, !.mode = mode]
    <2>1. Becomes(s, q)
      <3>1. [r EXCEPT !.range = range, !.mode = mode, !.pc = "plan", !.plan = << >>] = q
        BY <1>3, <1>6 DEF SessionType
      <3> QED
        BY <1>2, <1>8, <3>1
    <2>2. q \in SessionType
      BY <1>3, <1>4 DEF SessionType, Pcs
    <2>3. /\ q.pc = "plan" /\ q.todo = r.todo /\ q.out = r.out /\ q.back = r.back
          /\ q.range = range /\ q.plan = r.plan /\ q.batch = r.batch /\ q.max = r.max
      BY <1>3 DEF SessionType
    <2> HIDE DEF q
    <2>4. Phase(q) = "plan" /\ ~Working(q)
      BY <2>3 DEF Phase, Working
    <2>5. ShapeOK(s, q) /\ SeamOK(s, q, truth, now)
      BY <1>2, <1>3, <1>6, <2>3, <2>4 DEF ShapeOK, SeamOK
    <2>6. Quiet(s, q, truth, now, horizon)
      BY <1>2, <1>3, <1>6, <2>2, <2>3, <2>4, <2>5 DEF Quiet
    <2>7. /\ SessionOK(s, q, truth, now, horizon, claimed)
          /\ \A sl : Phase(q) # "replan" => SlotOK(s, q, sl)
          /\ \A fl : FilledOK(s, q, fl)
      BY <2>6, QuietOK
    <2> QED
      BY <2>1, <2>4, <2>7
  <1>9. CASE ~cached
    <2> DEFINE gaps == << range >>
               plan == tile(range[1], range[2], gaps)
               blind == r.blind
               q == PlanMade(r, range, mode, blind, plan)
    <2>1. Becomes(s, q)
      <3>1. ASSUME NEW p
            PROVE  [r EXCEPT !.range = range, !.mode = mode, !.pc = "next", !.plan = p]
                     = PlanMade(r, range, mode, blind, p)
        BY <1>3 DEF SessionType, PlanMade
      <3> QED
        BY <1>2, <1>9, <3>1
    <2>2. gaps = << <<range[1], range[2]>> >>
      BY <1>4
    <2>3. Plans(plan, range[1], range[2], claimed)
      <3>1. range[1] \in Int /\ range[2] \in Int /\ range[1] < range[2]
        BY <1>2, <1>4
      <3> HIDE DEF gaps
      <3> QED
        BY <2>2, <3>1, WholeRangePlans
    <2>4. blind \in BOOLEAN
      BY <1>3, TypeIs
    <2> HIDE DEF plan, gaps, blind
    <2>5. Plannable(s, r, truth, now, horizon, claimed, range, mode, blind, plan)
      BY <1>2, <1>3, <1>4, <2>3, <2>4 DEF Plannable
    <2>6. SessionOK(s, q, truth, now, horizon, claimed)
      BY <2>5, PlannedOK
    <2>7. SlotOK(s, q, slot) /\ FilledOK(s, q, filled)
      <3>1. q.mode = mode
        BY <1>3 DEF SessionType, PlanMade
      <3> QED
        BY <1>9, <3>1 DEF SlotOK, FilledOK
    <2> QED
      BY <2>1, <2>6, <2>7
  <1> QED
    BY <1>8, <1>9

LEMMA OpenStitchedSteps ==
  ASSUME IInv, NEW s \in Stitched,
         OpenStitched(s) \/ \E from \in Froms, mode \in Modes : StartBackfill(s, from, mode)
  PROVE  IInv'
  <1> DEFINE r == ses[s]
  <1>1. s \in Sessions
    BY DEF Sessions
  <1>2. /\ r \in SessionType /\ ShapeOK(s, r) /\ SeamOK(s, r, truth, now)
        /\ truth \subseteq Int /\ now \in Time /\ s \notin Historical
        /\ UNCHANGED <<clock, cache, slot>> /\ r.pc \in {"idle", "subscribed"}
    BY <1>1, InvIs DEF OpenStitched, StartBackfill, At
  <1>3. now \in Int /\ (\A from \in Froms : from \in Int /\ from \in Time) /\ Modes \subseteq BOOLEAN \X BOOLEAN
    <2>1. Froms \subseteq Time /\ Modes \subseteq BOOLEAN \X BOOLEAN
      BY ReadThroughAssumption DEF Time
    <2> QED
      BY <1>2, <2>1, TimeIs
  <1>4. Phase(r) = r.pc /\ ~Working(r)
    BY <1>2 DEF Phase, Working
  <1>5. /\ r.plan = << >> /\ r.batch = {} /\ r.max = -1 /\ r.out = << >> /\ r.todo = << >>
        /\ r.back # "emit" /\ r.back # "done" /\ r.ring = << >> /\ r.evicted = {}
        /\ (r.pc = "idle" => r.live = << >>)
    BY <1>2, <1>4 DEF ShapeOK
  <1>6. SUFFICES \E q : Becomes(s, q) /\ Quiet(s, q, truth, now, horizon) /\ Phase(q) # "replan"
    <2>1. PICK q : Becomes(s, q) /\ Quiet(s, q, truth, now, horizon) /\ Phase(q) # "replan"
      BY <1>6
    <2>2. /\ SessionOK(s, q, truth, now, horizon, claimed)
          /\ \A sl : Phase(q) # "replan" => SlotOK(s, q, sl)
          /\ \A fl : FilledOK(s, q, fl)
      BY <2>1, QuietOK
    <2> QED
      BY <1>1, <1>2, <2>1, <2>2, SessionMovesAlone
  <1>7. CASE OpenStitched(s)
    <2> DEFINE q == [r EXCEPT !.pc = "subscribed", !.since = now]
    <2>1. Becomes(s, q)
      BY <1>7 DEF OpenStitched
    <2>2. q \in SessionType
      BY <1>2, <1>3 DEF SessionType, Pcs
    <2>3. /\ q.pc = "subscribed" /\ q.todo = r.todo /\ q.out = r.out /\ q.back = r.back /\ q.since = now
          /\ q.plan = r.plan /\ q.batch = r.batch /\ q.max = r.max /\ q.ring = r.ring /\ q.evicted = r.evicted
          /\ q.live = r.live /\ r.pc = "idle"
      BY <1>2, <1>7 DEF SessionType, OpenStitched, At
    <2> HIDE DEF q, r
    <2>4. Phase(q) = "subscribed" /\ ~Working(q)
      BY <2>3 DEF Phase, Working
    <2>5. ShapeOK(s, q)
      BY <1>2, <1>5, <2>3, <2>4 DEF ShapeOK
    <2>6. SeamOK(s, q, truth, now)
      <3>1. \A x \in truth : ~(now <= x /\ x < now)
        BY <1>2, <1>3
      <3>2. QueuesOK(q, now)
        <4>1. q.live = << >> /\ q.ring = << >>
          BY <1>5, <2>3
        <4> QED
          BY <4>1 DEF QueuesOK, Rising, Below
      <3> QED
        BY <1>3, <2>3, <2>4, <3>1, <3>2 DEF SeamOK
    <2> QED
      BY <1>2, <1>5, <2>1, <2>2, <2>3, <2>4, <2>5, <2>6 DEF Quiet
  <1>8. CASE \E from \in Froms, mode \in Modes : StartBackfill(s, from, mode)
    <2>1. PICK from \in Froms, mode \in Modes : StartBackfill(s, from, mode)
      BY <1>8
    <2> DEFINE pc == IF from >= now THEN "live" ELSE "plan"
               range == <<from, now>>
               q == [r EXCEPT !.range = range, !.mode = mode, !.pc = pc]
    <2>2. Becomes(s, q) /\ r.pc = "subscribed"
      BY <2>1 DEF StartBackfill, At
    <2>3. pc \in {"live", "plan"} /\ (pc = "live" => from >= now) /\ (pc = "plan" => from < now)
      BY <1>3
    <2>4. range \in Time \X Time /\ range[1] = from /\ range[2] = now
      BY <1>2, <1>3
    <2> HIDE DEF pc, range
    <2>5. q \in SessionType
      BY <1>2, <1>3, <2>3, <2>4 DEF SessionType, Pcs
    <2>6. /\ q.pc = pc /\ q.todo = r.todo /\ q.out = r.out /\ q.back = r.back /\ q.since = r.since
          /\ q.range = range /\ q.live = r.live /\ q.unserved = r.unserved
          /\ q.plan = r.plan /\ q.batch = r.batch /\ q.max = r.max /\ q.ring = r.ring /\ q.evicted = r.evicted
      BY <1>2 DEF SessionType
    <2> HIDE DEF q, r
    <2>7. Phase(q) = pc /\ ~Working(q)
      BY <2>3, <2>6 DEF Phase, Working
    <2>8. ShapeOK(s, q)
      BY <1>2, <1>3, <1>5, <2>3, <2>4, <2>6, <2>7 DEF ShapeOK
    <2>9. SeamOK(s, q, truth, now)
      <3>1. Log(q) = Log(r)
        BY <2>6 DEF Log
      <3>2. /\ r.since <= now /\ r.since \in Int /\ QueuesOK(r, now)
            /\ \A x \in truth : r.since <= x /\ x < now =>
                 Lists(r.live, x) \/ Lists(r.ring, x) \/ x \in r.evicted \/ ToldIn(Log(r), x)
        BY <1>2, <1>4, <2>2, TypeIs DEF SeamOK
      <3>3. pc = "live" => \A x \in truth : ~(from <= x /\ x < r.since)
        <4> SUFFICES ASSUME pc = "live", NEW x \in truth, from <= x, x < r.since PROVE FALSE
          OBVIOUS
        <4>1. x \in Int /\ from >= now
          BY <1>2, <2>3
        <4> QED
          BY <1>3, <3>2, <4>1
      <3>4. QueuesOK(q, now)
        BY <2>6, <3>2 DEF QueuesOK
      <3>5. SeamIn(Log(q), q.range[2], q.since, now, q.live)
        <4> DEFINE log == Log(q)
        <4>1. log = << >>
          BY <1>5, <2>6, <3>1 DEF Log
        <4> HIDE DEF log
        <4>2. 0 \in 0 .. Len(log) /\ 1 .. 0 = {} /\ 0 + 1 .. Len(log) = {}
          BY <4>1
        <4>3. SeamAt(log, 0, q.range[2], q.since, now, q.live)
          BY <4>2 DEF SeamAt, Rises
        <4> QED
          BY <4>2, <4>3 DEF SeamIn, log
      <3> QED
        BY <2>3, <2>4, <2>6, <2>7, <3>1, <3>2, <3>3, <3>4, <3>5 DEF SeamOK
    <2> QED
      BY <1>2, <1>5, <2>2, <2>3, <2>5, <2>6, <2>7, <2>8, <2>9 DEF Quiet
  <1> QED
    BY <1>7, <1>8

(* ... or only the fetch slots, and none that another holds.                *)
LEMMA SessionMovesSlots ==
  ASSUME IInv, NEW s \in Sessions, NEW q, Becomes(s, q), UNCHANGED <<clock, cache>>,
         slot' \in [Ranges -> Sessions \cup {None}],
         \A o \in Sessions \ {s} : \A range \in Ranges : slot[range] = o => slot'[range] = o,
         SessionOK(s, q, truth, now, horizon, claimed), SlotOK(s, q, slot'), FilledOK(s, q, filled)
  PROVE  IInv'
  <1>1. /\ truth' = truth /\ now' = now /\ horizon' = horizon /\ rows' = rows /\ doc' = doc
        /\ claimed' = claimed /\ lagging' = lagging /\ filled' = filled
    BY DEF clock, cache
  <1>2. ClockOK' /\ CacheOK'
    BY <1>1 DEF IInv, ClockOK, CacheOK
  <1>3. ASSUME NEW o \in Sessions \ {s}
        PROVE  SlotOK(o, ses[o], slot') /\ FilledOK(o, ses[o], filled')
    <2>1. SlotOK(o, ses[o], slot) /\ FilledOK(o, ses[o], filled) /\ ShapeOK(o, ses[o])
      BY InvIs
    <2>2. ASSUME o \in Historical,
                 Phase(ses[o]) = "replan" \/ \E j \in 1 .. Len(ses[o].plan) : ses[o].plan[j].kind = "gap"
          PROVE  ses[o].range \in Ranges
      BY <2>1, <2>2 DEF ShapeOK
    <2> QED
      BY <1>1, <2>1, <2>2 DEF SlotOK
  <1> QED
    BY <1>1, <1>2, <1>3, SessionMoves

LEMMA SlotSteps ==
  ASSUME IInv, NEW s \in Sessions, Acquire(s) \/ Replan(s)
  PROVE  IInv'
  <1> DEFINE r == ses[s]
  <1>1. /\ r \in SessionType /\ ShapeOK(s, r) /\ SlotOK(s, r, slot)
        /\ s \in Historical \cup Stitched /\ (s \in Historical => s \notin Stitched)
        /\ r.pc \in {"wait", "replan"} /\ UNCHANGED <<clock, cache>>
    BY InvIs DEF Acquire, Replan, At
  <1>2. s \in Historical /\ r.mode[1] /\ r.range \in Ranges /\ Phase(r) = r.pc
    BY <1>1 DEF ShapeOK, Phase
  <1>3. slot \in [Ranges -> Sessions \cup {None}]
    BY DEF IInv, CacheOK
  <1>4. SUFFICES /\ slot' \in [Ranges -> Sessions \cup {None}]
                 /\ \A o \in Sessions \ {s} : \A range \in Ranges : slot[range] = o => slot'[range] = o
                 /\ \E q : /\ Becomes(s, q) /\ SessionOK(s, q, truth, now, horizon, claimed)
                           /\ SlotOK(s, q, slot') /\ FilledOK(s, q, filled)
    BY <1>1, SessionMovesSlots
  <1>5. CASE Acquire(s)
    <2>1. /\ slot[r.range] = None /\ slot' = [slot EXCEPT ![r.range] = s] /\ r.pc = "wait"
          /\ Becomes(s, [r EXCEPT !.pc = "replan"])
      BY <1>5 DEF Acquire, At
    <2> DEFINE q == [r EXCEPT !.pc = "replan"]
    <2>2. slot'[r.range] = s /\ slot' \in [Ranges -> Sessions \cup {None}]
      BY <1>2, <1>3, <2>1
    <2>3. \A o \in Sessions \ {s} : \A range \in Ranges : slot[range] = o => slot'[range] = o
      BY <1>2, <1>3, <2>1, ReadThroughAssumption DEF Sessions
    <2>4. SessionOK(s, q, truth, now, horizon, claimed) /\ SlotOK(s, q, slot') /\ FilledOK(s, q, filled)
      <3> DEFINE from == "wait"
                 to == "replan"
      <3>1. /\ r = ses[s] /\ q = [r EXCEPT !.pc = to] /\ r.pc = from
            /\ <<from, to>> \in {<<"plan", "wait">>, <<"wait", "replan">>}
        BY <2>1
      <3> HIDE DEF r, q, from, to
      <3>2. /\ SessionOK(s, q, truth, now, horizon, claimed)
            /\ \A sl : (to = "replan" => sl[r.range] = s) => SlotOK(s, q, sl)
            /\ \A fl : FilledOK(s, q, fl)
        BY <1>2, <3>1, WaitOK
      <3> QED
        BY <2>2, <3>2
    <2> QED
      BY <2>1, <2>2, <2>3, <2>4
  <1>6. CASE Replan(s)
    <2>1. r.pc = "replan" /\ slot[r.range] = s
      BY <1>1, <1>2, <1>6 DEF Replan, At, SlotOK
    <2>2. CASE /\ Becomes(s, Planned(r, GapsOf(s), FALSE))
               /\ slot' = IF GapsOf(s) = << >> THEN [slot EXCEPT ![r.range] = None] ELSE slot
      <3> DEFINE gaps == GapsOf(s)
                 q == Planned(r, gaps, FALSE)
      <3>1. gaps = GapsOf(s) /\ q = Planned(r, gaps, FALSE) /\ Becomes(s, q)
        BY <2>2
      <3>2. slot' \in [Ranges -> Sessions \cup {None}]
        BY <1>3, <2>2
      <3>3. \A o \in Sessions \ {s} : \A range \in Ranges : slot[range] = o => slot'[range] = o
        BY <1>2, <1>3, <2>1, <2>2
      <3>4. gaps # << >> => slot'[r.range] = s
        BY <2>1, <2>2
      <3> HIDE DEF gaps, q
      <3>5. SessionOK(s, q, truth, now, horizon, claimed) /\ FilledOK(s, q, filled)
        BY <2>1, <3>1, PlansMade
      <3>6. gaps = << >> => \A sl : SlotOK(s, q, sl)
        BY <2>1, <3>1, PlansMade
      <3>7. q.range = r.range
        BY <1>1, <3>1 DEF Planned, SessionType
      <3>8. SlotOK(s, q, slot')
        BY <3>4, <3>6, <3>7 DEF SlotOK
      <3> QED
        BY <3>1, <3>2, <3>3, <3>5, <3>8
    <2>3. CASE Becomes(s, Planned(r, WholeRange(s), TRUE)) /\ slot' = slot
      <3> DEFINE gaps == WholeRange(s)
                 q == Planned(r, gaps, TRUE)
      <3>1. gaps = WholeRange(s) /\ q = Planned(r, gaps, TRUE) /\ Becomes(s, q)
        BY <2>3
      <3> HIDE DEF gaps, q
      <3>2. SessionOK(s, q, truth, now, horizon, claimed)
        BY <2>1, <3>1, PlansMade
      <3>3. q.range = r.range /\ q.blind = TRUE
        BY <1>1, <3>1 DEF Planned, SessionType
      <3>4. SlotOK(s, q, slot') /\ FilledOK(s, q, filled)
        BY <2>1, <2>3, <3>3 DEF SlotOK, FilledOK
      <3> QED
        BY <1>3, <2>3, <3>1, <3>2, <3>4
    <2> QED
      BY <1>6, <2>2, <2>3 DEF Replan
  <1> QED
    BY <1>1, <1>5, <1>6

(* The end of a session, and the fetch slot it gives back.                  *)
LEMMA EndSteps ==
  ASSUME IInv, NEW s \in Sessions,
         FinishHistorical(s) \/ Drained(s) \/ HandleClose(s) \/ LastReferrerLeaves(s)
  PROVE  IInv'
  <1> DEFINE r == ses[s]
  <1>1. /\ SessionOK(s, r, truth, now, horizon, claimed) /\ r \in SessionType /\ ShapeOK(s, r)
        /\ s \in Historical \cup Stitched /\ (s \in Historical => s \notin Stitched)
    BY InvIs
  <1>2. UNCHANGED <<clock, cache>> /\ r.pc \in {"next", "replay", "fetch", "drain"}
    BY DEF FinishHistorical, Drained, HandleClose, LastReferrerLeaves, At
  <1>3. slot \in [Ranges -> Sessions \cup {None}]
    BY DEF IInv, CacheOK
  <1>4. slot' = slot \/ slot' = Freed(s)
    BY DEF FinishHistorical, Drained, HandleClose, LastReferrerLeaves
  <1>5. /\ slot' \in [Ranges -> Sessions \cup {None}]
        /\ \A o \in Sessions \ {s} : \A range \in Ranges : slot[range] = o => slot'[range] = o
    BY <1>3, <1>4 DEF Freed
  <1>6. ASSUME NEW back, NEW items, NEW live, NEW ring, Ending(s, r, back, items, live, ring),
               Becomes(s, SessionEnds(r, back, items, live, ring))
        PROVE  IInv'
    <2> DEFINE q == SessionEnds(r, back, items, live, ring)
    <2>1. SessionOK(s, q, truth, now, horizon, claimed) /\ SlotOK(s, q, slot') /\ FilledOK(s, q, filled)
      <3>1. q = SessionEnds(r, back, items, live, ring)
        OBVIOUS
      <3> HIDE DEF q
      <3> QED
        BY <1>1, <1>6, <3>1, EndingOK
    <2> QED
      BY <1>2, <1>5, <1>6, <2>1, SessionMovesSlots
  <1> DEFINE one == <<SessionClosing>>
             two == <<SessionClosing, SessionClosing>>
  <1>7. \A items \in {one, two} : /\ items \in Seq(Item) /\ items # << >>
                                  /\ \A i \in 1 .. Len(items) : items[i].kind = "closing"
    <2>1. SessionClosing \in Item /\ SessionClosing.kind = "closing"
      BY DEF SessionClosing, Item
    <2>2. ASSUME NEW item \in Item, item.kind = "closing"
          PROVE  \A items \in {<<item>>, <<item, item>>} :
                   /\ items \in Seq(Item) /\ items # << >>
                   /\ \A i \in 1 .. Len(items) : items[i].kind = "closing"
      <3> DEFINE a == <<item>>
                 b == <<item, item>>
      <3>1. Len(a) = 1 /\ a[1] = item /\ a \in Seq(Item) /\ a # << >>
        OBVIOUS
      <3>2. Len(b) = 2 /\ b[1] = item /\ b[2] = item /\ b \in Seq(Item) /\ b # << >>
        OBVIOUS
      <3> HIDE DEF a, b
      <3>3. \A i \in 1 .. Len(a) : a[i].kind = "closing"
        BY <2>2, <3>1
      <3>4. \A i \in 1 .. Len(b) : i = 1 \/ i = 2
        BY <3>2
      <3>5. \A i \in 1 .. Len(b) : b[i].kind = "closing"
        BY <2>2, <3>2, <3>4
      <3>6. \A items \in {a, b} : /\ items \in Seq(Item) /\ items # << >>
                                  /\ \A i \in 1 .. Len(items) : items[i].kind = "closing"
        BY <3>1, <3>2, <3>3, <3>5
      <3> QED
        BY <3>6 DEF a, b
    <2> QED
      BY <2>1, <2>2, Zenon
  <1>8. r.live \in Seq(Time) /\ r.ring \in Seq(Time)
    BY <1>1, TypeIs
  <1> HIDE DEF r, one, two
  <1>9. ASSUME NEW back \in {"drain", "done"}, NEW items \in {one, two}, NEW live \in Seq(Time), NEW ring \in Seq(Time),
               s \in Stitched => back = "done",
               r.close \/ s \in Stitched \/ (r.plan = << >> /\ r.batch = {})
        PROVE  Ending(s, r, back, items, live, ring)
    BY <1>1, <1>2, <1>7, <1>9 DEF Ending
  <1>10. CASE FinishHistorical(s)
    <2> DEFINE items == IF r.stream = "dropped" THEN two ELSE one
               back == IF r.stream = "taken" THEN "drain" ELSE "done"
               q == SessionEnds(r, back, items, r.live, r.ring)
    <2>1. s \in Historical /\ r.plan = << >> /\ r.pc = "next" /\ Becomes(s, Emit(r, items, back))
      BY <1>10 DEF FinishHistorical, At, r, one, two
    <2>2. back \in {"drain", "done"} /\ items \in {one, two}
      OBVIOUS
    <2> HIDE DEF items, back
    <2>3. r.batch = {}
      BY <1>1, <2>1 DEF ShapeOK, Working, Phase
    <2>4. Emit(r, items, back) = q
      BY <1>1, <2>1, <2>3 DEF SessionType, Emit, SessionEnds
    <2> QED
      BY <1>1, <1>6, <1>8, <1>9, <2>1, <2>2, <2>3, <2>4
  <1>11. CASE Drained(s)
    <2> DEFINE q == SessionEnds(r, "done", one, r.live, r.ring)
    <2>1. r.pc = "drain" /\ Becomes(s, Emit(r, one, "done"))
      BY <1>11 DEF Drained, At, r, one
    <2>2. r.plan = << >> /\ r.batch = {}
      BY <1>1, <2>1 DEF ShapeOK, Working, Phase
    <2>3. Emit(r, one, "done") = q
      BY <1>1, <2>2 DEF SessionType, Emit, SessionEnds
    <2> QED
      BY <1>6, <1>8, <1>9, <2>1, <2>2, <2>3
  <1>12. CASE HandleClose(s)
    <2> DEFINE q == SessionEnds(r, "done", one, r.live, r.ring)
    <2>1. r.close /\ Becomes(s, [Emit(r, one, "done") EXCEPT !.plan = << >>, !.batch = {}])
      BY <1>12 DEF HandleClose, r, one
    <2>2. [Emit(r, one, "done") EXCEPT !.plan = << >>, !.batch = {}] = q
      BY <1>1 DEF SessionType, Emit, SessionEnds
    <2> QED
      BY <1>6, <1>8, <1>9, <2>1, <2>2
  <1>13. CASE LastReferrerLeaves(s)
    <2> DEFINE none == << >>
               q == SessionEnds(r, "done", one, none, none)
    <2>1. s \in Stitched
          /\ Becomes(s, [Emit(r, one, "done") EXCEPT !.plan = << >>, !.batch = {}, !.live = << >>, !.ring = << >>])
      BY <1>13 DEF LastReferrerLeaves, r, one
    <2>2. [Emit(r, one, "done") EXCEPT !.plan = << >>, !.batch = {}, !.live = << >>, !.ring = << >>] = q
      BY <1>1 DEF SessionType, Emit, SessionEnds
    <2>3. none \in Seq(Time)
      OBVIOUS
    <2> HIDE DEF none
    <2> QED
      BY <1>6, <1>9, <2>1, <2>2, <2>3
  <1> QED
    BY <1>10, <1>11, <1>12, <1>13

(* Live arrivals wait in the ring, pass the seam, or are forwarded.         *)
LEMMA LiveSteps ==
  ASSUME IInv, NEW s \in Sessions, BufferLive(s) \/ FlushPending(s) \/ ForwardLive(s)
  PROVE  IInv'
  <1> DEFINE r == ses[s]
  <1>1. /\ SessionOK(s, r, truth, now, horizon, claimed) /\ SlotOK(s, r, slot) /\ FilledOK(s, r, filled)
        /\ r \in SessionType /\ ShapeOK(s, r)
        /\ s \in Historical \cup Stitched /\ (s \in Historical => s \notin Stitched)
    BY InvIs
  <1>2. r.live \in Seq(Time) /\ r.ring \in Seq(Time) /\ r.evicted \subseteq Time
    BY <1>1, TypeIs
  <1>3. ASSUME s \in Stitched, Phase(r) \in {"next", "live"} PROVE QueuesOK(r, now)
    BY <1>1, <1>3 DEF SessionOK, SeamOK
  <1>4. SUFFICES \E q : /\ Becomes(s, q) /\ SessionOK(s, q, truth, now, horizon, claimed)
                        /\ SlotOK(s, q, slot) /\ FilledOK(s, q, filled)
    BY SessionMovesAlone DEF BufferLive, FlushPending, ForwardLive
  <1> HIDE DEF r
  <1>5. CASE BufferLive(s)
    <2> DEFINE full == Len(r.ring) = RingCap
               kept == IF full THEN Tail(r.ring) ELSE r.ring
               ring == Append(kept, Head(r.live))
               evicted == IF full THEN r.evicted \cup {Head(r.ring)} ELSE r.evicted
               q == [r EXCEPT !.live = Tail(r.live), !.ring = ring, !.evicted = evicted]
    <2>1. r.pc \in {"replay", "fetch"} /\ r.live # << >> /\ Becomes(s, q)
      BY <1>1, <1>5 DEF BufferLive, SessionType, r
    <2>2. q \in SessionType /\ ShapeOK(s, q) /\ SameServed(r, q) /\ SeamOK(s, q, truth, now)
      <3>1. /\ full = (Len(r.ring) = RingCap) /\ kept = (IF full THEN Tail(r.ring) ELSE r.ring)
            /\ ring = Append(kept, Head(r.live))
            /\ evicted = (IF full THEN r.evicted \cup {Head(r.ring)} ELSE r.evicted)
            /\ q = [r EXCEPT !.live = Tail(r.live), !.ring = ring, !.evicted = evicted]
        OBVIOUS
      <3> HIDE DEF full, kept, ring, evicted, q
      <3> QED
        BY <1>1, <2>1, <3>1, BufferOK
    <2> HIDE DEF q
    <2>3. SessionOK(s, q, truth, now, horizon, claimed) /\ SlotOK(s, q, slot) /\ FilledOK(s, q, filled)
      BY <1>1, <2>2, SameServedOK
    <2> QED
      BY <2>1, <2>3
  <1>6. CASE FlushPending(s)
    <2> DEFINE gap == EvictedGap(s)
               rest == [i \in DOMAIN r.ring |-> Data(r.ring[i])]
               items == gap \o rest
               live == r.live
               q == WentLive(r, items, live)
    <2>1. /\ r.pc = "next" /\ s \in Stitched /\ r.plan = << >>
          /\ Becomes(s, IF items = << >> THEN [[r EXCEPT !.ring = << >>, !.evicted = {}] EXCEPT !.pc = "live"]
                        ELSE Emit([r EXCEPT !.ring = << >>, !.evicted = {}], items, "live"))
      BY <1>6 DEF FlushPending, At, r
    <2>2. gap = IF r.evicted = {} THEN << >> ELSE <<Gap(Min(r.evicted), Max(r.evicted) + 1)>>
      BY DEF EvictedGap, r
    <2>3. QueuesOK(r, now)
      BY <1>3, <2>1 DEF Phase
    <2>4. /\ items \in Seq(Item) /\ \A x : Lists(r.ring, x) \/ x \in r.evicted => ToldIn(items, x)
          /\ Rises(items, 1, Len(items)) /\ \A i \in 1 .. Len(items) : Arrived(items[i], r.since, now, r.live)
      <3> DEFINE low == r.since
                 waiting == r.live ring == r.ring
                 evicted == r.evicted
      <3>1. rest = [i \in DOMAIN ring |-> Data(ring[i])] /\ items = gap \o rest
        OBVIOUS
      <3>2. gap = IF evicted = {} THEN << >> ELSE <<Gap(Min(evicted), Max(evicted) + 1)>>
        BY <2>2
      <3>3. /\ ring \in Seq(Time) /\ evicted \subseteq Time
            /\ Rising(ring, low, now) /\ Below(ring, waiting)
        BY <1>2, <2>3 DEF QueuesOK
      <3> HIDE DEF gap, rest, items, ring, evicted, low, waiting
      <3>4. /\ items \in Seq(Item) /\ \A x : Lists(ring, x) \/ x \in evicted => ToldIn(items, x)
            /\ Rises(items, 1, Len(items)) /\ \A i \in 1 .. Len(items) : Arrived(items[i], low, now, waiting)
        BY <3>1, <3>2, <3>3, SeamTold, Zenon
      <3> QED
        BY <3>4 DEF ring, evicted, low, waiting
    <2> HIDE DEF items, gap, rest
    <2>5. Becomes(s, q)
      <3>1. CASE items = << >>
        <4>1. r.todo = << >>
          BY <1>1, <2>1 DEF ShapeOK
        <4>2. [[r EXCEPT !.ring = << >>, !.evicted = {}] EXCEPT !.pc = "live"] = q
          BY <1>1, <3>1, <4>1 DEF SessionType, WentLive
        <4> QED
          BY <2>1, <3>1, <4>2
      <3>2. CASE items # << >>
        <4>1. Emit([r EXCEPT !.ring = << >>, !.evicted = {}], items, "live") = q
          BY <1>1, <3>2 DEF SessionType, Emit, WentLive
        <4> QED
          BY <2>1, <3>2, <4>1
      <3> QED
        BY <3>1, <3>2
    <2>6. SessionOK(s, q, truth, now, horizon, claimed) /\ SlotOK(s, q, slot) /\ FilledOK(s, q, filled)
      <3>1. q = WentLive(r, items, live) /\ live = r.live
        OBVIOUS
      <3> HIDE DEF q, live
      <3>2. HoldsOrTells(r, items, live)
        BY <2>4, <3>1 DEF HoldsOrTells
      <3>3. Onward(r, items, live, now)
        <4>1. r.pc # "live" /\ Rising(live, r.since, now)
          BY <2>1, <2>3, <3>1 DEF QueuesOK
        <4>2. \A k \in 1 .. Len(live) : Lists(r.live, live[k])
          BY <3>1 DEF Lists
        <4> QED
          BY <2>4, <3>1, <4>1, <4>2 DEF Onward
      <3> QED
        BY <1>1, <1>2, <2>1, <2>4, <3>1, <3>2, <3>3, LiveOK
    <2> QED
      BY <2>5, <2>6
  <1>7. CASE ForwardLive(s)
    <2> DEFINE t == Head(r.live)
               items == <<Data(t)>>
               live == Tail(r.live)
               q == WentLive(r, items, live)
    <2>1. r.pc = "live" /\ r.live # << >> /\ Becomes(s, [Emit(r, items, "live") EXCEPT !.live = Tail(@)])
      BY <1>7 DEF ForwardLive, At, r
    <2>2. s \in Stitched /\ r.plan = << >> /\ r.ring = << >> /\ r.evicted = {}
      BY <1>1, <2>1 DEF ShapeOK, Phase
    <2>3. t \in Time /\ live \in Seq(Time) /\ \A x : Lists(r.live, x) <=> x = t \/ Lists(live, x)
      BY <1>2, <2>1, ListTail
    <2>4. items \in Seq(Item) /\ ToldIn(items, t) /\ items # << >>
      <3>1. t \in Int
        BY <2>3, ReadThroughAssumption DEF Time
      <3>2. Data(t) \in Item /\ Tells(Data(t), t)
        BY <3>1 DEF Data, Item, Tells
      <3>3. items = <<Data(t)>>
        OBVIOUS
      <3> HIDE DEF t, items
      <3> QED
        BY <3>2, <3>3, LogOne
    <2> HIDE DEF items
    <2>5. Becomes(s, q)
      <3>1. [Emit(r, items, "live") EXCEPT !.live = Tail(@)] = q
        BY <1>1, <2>2, <2>4 DEF SessionType, Emit, WentLive
      <3> QED
        BY <2>1, <3>1 DEF items
    <2>6. SessionOK(s, q, truth, now, horizon, claimed) /\ SlotOK(s, q, slot) /\ FilledOK(s, q, filled)
      <3>1. q = WentLive(r, items, live)
        OBVIOUS
      <3>2. \A x : ~Lists(r.ring, x)
        BY <2>2 DEF Lists
      <3> HIDE DEF q, live, t
      <3>3. HoldsOrTells(r, items, live)
        BY <2>2, <2>3, <2>4, <3>2 DEF HoldsOrTells
      <3>4. Onward(r, items, live, now)
        <4>1. Len(items) = 1 /\ items[1].kind = "data" /\ items[1].from = t
          BY DEF items, Data
        <4>2. /\ Rising(live, r.since, now) /\ r.since <= t /\ t < now
              /\ \A k \in 1 .. Len(live) : t < live[k] /\ Lists(r.live, live[k])
          <5> DEFINE l == r.live
                     low == r.since
          <5>1. l \in Seq(Time) /\ l # << >> /\ Rising(l, low, now)
            BY <1>2, <1>3, <2>1, <2>2 DEF QueuesOK, Phase
          <5> HIDE DEF l, low
          <5>2. /\ Rising(Tail(l), low, now) /\ low <= Head(l) /\ Head(l) < now
                /\ \A k \in 1 .. Len(Tail(l)) : Head(l) < Tail(l)[k] /\ Lists(l, Tail(l)[k])
            BY <5>1, RisingTail
          <5> QED
            BY <5>2 DEF l, low, live, t
        <4>3. Rises(items, 1, Len(items))
          <5>1. \A i, j \in 1 .. Len(items) : ~(i < j)
            BY <4>1
          <5> QED
            BY <5>1 DEF Rises
        <4>4. \A i \in 1 .. Len(items) : i = 1
          BY <4>1
        <4>5. \A i \in 1 .. Len(items) : Arrived(items[i], r.since, now, live)
          BY <4>1, <4>2, <4>4 DEF Arrived
        <4>6. \A i \in 1 .. Len(items) : items[i].kind = "data" => Lists(r.live, items[i].from)
          BY <2>3, <4>1, <4>4
        <4> QED
          BY <4>2, <4>3, <4>5, <4>6 DEF Onward
      <3> QED
        BY <1>1, <2>1, <2>2, <2>3, <2>4, <3>1, <3>3, <3>4, LiveOK
    <2> QED
      BY <2>5, <2>6
  <1> QED
    BY <1>5, <1>6, <1>7

-----------------------------------------------------------------------------
(* The end of a fetch.                                                      *)

(* What a fetch claims lies in its segment; the fetched events are all that *)
(* traded in it, save what was not served yet.                              *)
LEMMA SettleClaims ==
  ASSUME IInv, NEW s \in Sessions, NEW r, r = ses[s], r.pc = "settle",
         NEW f, f = Head(r.plan).from, NEW t, t = Head(r.plan).to,
         NEW to, to = confirmed_prefix_end(r.max, f, t) \/ (to = t /\ ~AtEdge(s) /\ ~r.failed)
  PROVE  /\ f \in Int /\ to \in Int /\ to <= t
         /\ Span(f, to) \subseteq Time
         /\ Fetched(s) \subseteq truth \cap Span(f, to)
         /\ truth \cap Span(f, to) \subseteq Fetched(s) \cup r.unserved
  <1>1. /\ SessionOK(s, r, truth, now, horizon, claimed)
        /\ truth \subseteq Int /\ horizon \in Int
        /\ r \in SessionType /\ PlanOK(s, r, claimed) /\ FetchOK(s, r, truth, horizon)
        /\ Streaming(r) /\ r.pc # "emit" /\ r.pc # "next" /\ Phase(r) = "settle"
    BY InvIs DEF SessionOK, Streaming, Phase
  <1>2. /\ r.plan \in Seq(Piece) /\ r.plan # << >> /\ r.max \in Int /\ r.range[2] \in Int /\ 1 \in 1 .. Len(r.plan)
        /\ 0 <= r.range[1] /\ r.range[1] \in Int
        /\ r.plan[1].from \in Int /\ r.plan[1].to \in Int
        /\ r.range[1] <= r.plan[1].from /\ r.plan[1].from < r.plan[1].to
    BY <1>1, StreamingIs
  <1>3. f = r.plan[1].from /\ t = r.plan[1].to /\ f \in Int /\ t \in Int /\ 0 <= f /\ f < t
    <2>1. Head(r.plan) = r.plan[1]
      BY <1>2, PlanTail
    <2> QED
      BY <1>2, <2>1
  <1>4. /\ r.plan[1].kind = "gap"
        /\ r.max = -1 \/ (f <= r.max /\ r.max < t /\ r.max < horizon)
        /\ \A x \in truth : f <= x /\ x < t => x \in r.batch \/ x <= r.max \/ x \in r.unserved
        /\ ~r.failed => r.batch = {}
    BY <1>1, <1>3 DEF FetchOK
  <1>5. ASSUME NEW x \in Int, f <= x, x < t PROVE x \in Time
    <2>1. t <= r.range[2] /\ r.range[2] \in 0 .. Ticks /\ Ticks \in Int
      BY <1>1, <1>2, <1>3, TypeIs, ReadThroughAssumption DEF PlanOK, Time
    <2>2. 0 <= x /\ x <= Ticks
      BY <1>2, <1>3, <1>5, <2>1
    <2> QED
      BY <2>1, <2>2 DEF Time
  <1>6. Fetched(s) = truth \cap Span(f, Upper(f, r.max + 1))
    BY DEF Fetched, Current
  <1>7. \A a, b \in Int : \A x : x \in Span(a, b) <=> x \in Int /\ a <= x /\ x < b
    BY DEF Span
  <1>8. \A x : x \in Fetched(s) <=> x \in truth /\ f <= x /\ x <= r.max
    <2> DEFINE end == Upper(f, r.max + 1)
    <2>1. end \in Int /\ (end = f \/ end = r.max + 1) /\ end >= r.max + 1
      BY <1>2, <1>3 DEF Upper
    <2> HIDE DEF end
    <2>2. \A x \in Int : f <= x /\ x < end <=> f <= x /\ x <= r.max
      BY <1>2, <1>3, <2>1
    <2>3. \A x : x \in Fetched(s) <=> x \in truth /\ x \in Span(f, end)
      BY <1>6 DEF end
    <2> QED
      BY <1>1, <1>3, <1>7, <2>1, <2>2, <2>3
  <1>9. CASE to = t /\ ~AtEdge(s) /\ ~r.failed
    <2>1. \A x \in truth : f <= x /\ x <= r.max => x < t
      BY <1>1, <1>2, <1>3, <1>4
    <2>2. \A x \in truth : f <= x /\ x < t => x <= r.max \/ x \in r.unserved
      BY <1>4, <1>9
    <2>3. /\ Fetched(s) \subseteq truth \cap Span(f, t)
          /\ truth \cap Span(f, t) \subseteq Fetched(s) \cup r.unserved
      BY <1>1, <1>3, <1>7, <1>8, <2>1, <2>2
    <2>4. Span(f, t) \subseteq Time
      BY <1>3, <1>5, <1>7
    <2> QED
      BY <1>3, <1>9, <2>3, <2>4
  <1>10. CASE to = confirmed_prefix_end(r.max, f, t)
    <2>1. to \in Int /\ f <= to /\ to <= t /\ (r.max = -1 => to = f) /\ (r.max # -1 => to = r.max + 1)
      <3> DEFINE max == r.max
      <3>1. max \in Int /\ (max = -1 \/ (f <= max /\ max < t)) /\ to = confirmed_prefix_end(max, f, t)
        BY <1>2, <1>4, <1>10
      <3> HIDE DEF max
      <3>2. /\ to \in Int /\ f <= to /\ to <= t
            /\ max = -1 => to = f
            /\ max # -1 => to = max + 1
        BY <1>3, <3>1, PrefixEndIs
      <3> QED
        BY <3>2 DEF max
    <2>2. Span(f, to) \subseteq Time
      <3>1. \A x \in Int : x < to => x < t
        BY <1>3, <2>1
      <3> QED
        BY <1>3, <1>5, <1>7, <2>1, <3>1
    <2>3. \A x \in truth : f <= x /\ x < to <=> f <= x /\ x <= r.max
      BY <1>1, <1>2, <1>3, <2>1
    <2>4. Fetched(s) = truth \cap Span(f, to)
      BY <1>1, <1>3, <1>7, <1>8, <2>1, <2>3
    <2> QED
      BY <1>3, <2>1, <2>2, <2>4
  <1> QED
    BY <1>9, <1>10

(* A store keeps the cache exact.                                           *)
LEMMA StoreKeeps ==
  ASSUME IInv, NEW s, NEW f \in Int, NEW to \in Int, NEW events, Stored(s, f, to, events),
         Span(f, to) \subseteq Time, events \subseteq Span(f, to),
         truth \cap Span(f, to) \subseteq events \cup ses[s].unserved, UNCHANGED <<clock, slot>>,
         s \in Historical => ses[s].range \in Ranges
  PROVE  CacheOK' /\ claimed' = claimed \cup Span(f, to)
  <1>1. /\ doc.segments \in Intervals /\ Canonical(doc.segments) /\ Spans(doc.segments) = claimed
        /\ claimed \subseteq Time /\ lagging \subseteq Time
        /\ rows \subseteq claimed /\ truth \cap claimed \subseteq rows \cup lagging
        /\ filled \in [Ranges -> SUBSET claimed] /\ slot \in [Ranges -> Sessions \cup {None}]
    BY DEF IInv, CacheOK
  <1> DEFINE segs == merge_in(doc.segments, f, to)
             table == (rows \ Span(f, to)) \cup events
             more == claimed \cup Span(f, to)
             late == (lagging \ Span(f, to)) \cup (ses[s].unserved \cap Span(f, to))
  <1>2. segs \in Intervals /\ Canonical(segs) /\ Spans(segs) = more
    BY <1>1, MergeInExact
  <1>3. table \subseteq more /\ truth \cap more \subseteq table \cup late
    BY <1>1
  <1>4. table \cap Spans(segs) = table
    BY <1>2, <1>3
  <1>5. more \subseteq Time /\ late \subseteq Time
    BY <1>1
  <1>6. filled' \in [Ranges -> SUBSET more]
    <2>1. filled' = filled \/ (s \in Historical /\ filled' = [filled EXCEPT ![ses[s].range] = @ \cup Span(f, to)])
      BY DEF Stored
    <2> QED
      BY <1>1, <2>1
  <1>7. /\ rows' = table /\ claimed' = more /\ lagging' = late
        /\ doc' = [segments |-> segs, event_count |-> Cardinality(table \cap Spans(segs))]
        /\ truth' = truth /\ horizon' = horizon /\ slot' = slot
    BY DEF Stored, clock
  <1> HIDE DEF segs, table, more, late
  <1>8. DOMAIN doc' = {"segments", "event_count"} /\ doc'.segments = segs /\ doc'.event_count = Cardinality(table)
    BY <1>4, <1>7
  <1> QED
    BY <1>1, <1>2, <1>3, <1>5, <1>6, <1>7, <1>8 DEF CacheOK, more

(* Only the holder of the fetch slot adds to what is filled of its range,   *)
(* and what it adds lies before the rest of its plan.                       *)
LEMMA StoreFills ==
  ASSUME IInv, NEW s \in Sessions, NEW r, r = ses[s], r.pc = "settle",
         NEW f \in Int, NEW to \in Int, to <= Head(r.plan).to,
         filled' = filled \/ (/\ Read(s) /\ s \in Historical
                              /\ filled' = [filled EXCEPT ![r.range] = @ \cup Span(f, to)])
  PROVE  /\ \A o \in Sessions \ {s} : FilledOK(o, ses[o], filled')
         /\ \A q : q.mode = r.mode /\ q.range = r.range /\ q.blind = r.blind
                     /\ (\A j \in 1 .. Len(q.plan) : \E k \in 2 .. Len(r.plan) : q.plan[j] = r.plan[k])
                   => FilledOK(s, q, filled')
  <1>1. /\ SessionOK(s, r, truth, now, horizon, claimed) /\ SlotOK(s, r, slot) /\ FilledOK(s, r, filled)
        /\ FetchOK(s, r, truth, horizon) /\ Phase(r) = "settle"
        /\ Streaming(r) /\ r.pc # "emit" /\ r.pc # "next"
    BY InvIs DEF SessionOK, Streaming, Phase
  <1>2. /\ r.plan \in Seq(Piece) /\ r.plan # << >> /\ 1 \in 1 .. Len(r.plan)
        /\ s \in Historical => r.range \in Ranges
        /\ r.plan[1].to \in Int
        /\ \A k \in 2 .. Len(r.plan) : /\ k \in 1 .. Len(r.plan) /\ r.plan[1].to <= r.plan[k].from
                                       /\ r.plan[k].from \in Int
        /\ r.plan[1].kind = "gap"
    BY <1>1, StreamingIs DEF FetchOK
  <1>3. to <= r.plan[1].to
    BY <1>2, PlanTail
  <1>4. filled \in [Ranges -> SUBSET claimed]
    BY DEF IInv, CacheOK
  <1>5. ASSUME NEW x, NEW range \in Ranges, x \in filled'[range]
        PROVE  x \in filled[range] \/ (range = r.range /\ Read(s) /\ s \in Historical /\ x \in Int /\ x < to)
    BY <1>2, <1>4, <1>5 DEF Span
  <1>6. ASSUME NEW o \in Sessions \ {s} PROVE FilledOK(o, ses[o], filled')
    <2> DEFINE p == ses[o]
    <2>1. SlotOK(o, p, slot) /\ FilledOK(o, p, filled) /\ ShapeOK(o, p)
      BY InvIs
    <2> SUFFICES ASSUME o \in Historical, p.mode[1], ~p.blind,
                        NEW j \in 1 .. Len(p.plan), p.plan[j].kind = "gap", NEW x \in filled'[p.range]
                 PROVE  ~(p.plan[j].from <= x /\ x < p.plan[j].to)
      BY DEF FilledOK
    <2>2. p.plan # << >>
      OBVIOUS
    <2>3. p.range \in Ranges
      BY <2>1, <2>2 DEF ShapeOK
    <2>4. slot[p.range] = o
      BY <2>1 DEF SlotOK
    <2>5. CASE x \in filled[p.range]
      BY <2>1, <2>5 DEF FilledOK
    <2>6. CASE p.range = r.range /\ Read(s) /\ s \in Historical
      <3>1. slot[r.range] = s
        BY <1>1, <1>2, <2>6 DEF SlotOK, Read
      <3> QED
        BY <2>4, <2>6, <3>1
    <2> QED
      BY <1>5, <2>3, <2>5, <2>6
  <1>7. ASSUME NEW q, q.mode = r.mode, q.range = r.range, q.blind = r.blind,
               \A j \in 1 .. Len(q.plan) : \E k \in 2 .. Len(r.plan) : q.plan[j] = r.plan[k]
        PROVE  FilledOK(s, q, filled')
    <2> SUFFICES ASSUME s \in Historical, r.mode[1], ~r.blind,
                        NEW j \in 1 .. Len(q.plan), q.plan[j].kind = "gap", NEW x \in filled'[r.range]
                 PROVE  ~(q.plan[j].from <= x /\ x < q.plan[j].to)
      BY <1>7, Zenon DEF FilledOK
    <2>1. PICK k \in 2 .. Len(r.plan) : q.plan[j] = r.plan[k]
      BY <1>7
    <2>2. CASE x \in filled[r.range]
      BY <1>1, <1>2, <2>1, <2>2 DEF FilledOK
    <2>3. CASE x \in Int /\ x < to
      BY <1>2, <1>3, <2>1, <2>3
    <2> QED
      BY <1>2, <1>5, <2>2, <2>3
  <1> QED
    BY <1>6, <1>7

(* A fetch is settled: its claim is stored, or not, and the session goes on.*)
LEMMA SettleSteps ==
  ASSUME IInv, NEW s \in Sessions, SettleFetched(s) \/ SettleFailed(s)
  PROVE  IInv'
  <1> DEFINE r == ses[s]
             f == Head(r.plan).from
             t == Head(r.plan).to
             upto == confirmed_prefix_end(r.max, f, t)
  <1>1. /\ SessionOK(s, r, truth, now, horizon, claimed) /\ r \in SessionType /\ ShapeOK(s, r)
        /\ FetchOK(s, r, truth, horizon) /\ Phase(r) = "settle"
        /\ truth \subseteq Time /\ truth \subseteq Int /\ horizon \in Int
        /\ s \in Historical \cup Stitched /\ (s \in Historical => s \notin Stitched)
        /\ UNCHANGED <<clock, slot>> /\ r.pc = "settle"
    BY InvIs DEF SessionOK, Phase, SettleFetched, SettleFailed, At
  <1>2. s \in Historical => r.range \in Ranges
    BY <1>1 DEF ShapeOK
  <1>3. ASSUME NEW to, to = upto \/ (to = t /\ ~AtEdge(s) /\ ~r.failed),
               StoreOrRollBack(s, f, to, Fetched(s)),
               NEW q, Becomes(s, q), SessionOK(s, q, truth, now, horizon, claimed), Shrinks(r, q),
               \A j \in 1 .. Len(q.plan) : \E k \in 2 .. Len(r.plan) : q.plan[j] = r.plan[k]
        PROVE  IInv'
    <2>1. /\ f \in Int /\ to \in Int /\ to <= t
          /\ Span(f, to) \subseteq Time
          /\ Fetched(s) \subseteq truth \cap Span(f, to)
          /\ truth \cap Span(f, to) \subseteq Fetched(s) \cup r.unserved
      <3>1. r = ses[s] /\ f = Head(r.plan).from /\ t = Head(r.plan).to /\ r.pc = "settle"
            /\ (to = confirmed_prefix_end(r.max, f, t) \/ (to = t /\ ~AtEdge(s) /\ ~r.failed))
        BY <1>1, <1>3
      <3> HIDE DEF r, f, t, upto
      <3> QED
        BY <3>1, SettleClaims
    <2>2. Stored(s, f, to, Fetched(s)) \/ UNCHANGED cache
      BY <1>3 DEF StoreOrRollBack
    <2>3. /\ truth' = truth /\ now' = now /\ horizon' = horizon /\ slot' = slot /\ ClockOK'
      BY <1>1 DEF clock, IInv, ClockOK
    <2>4. CacheOK' /\ claimed \subseteq claimed'
      <3>1. CASE Stored(s, f, to, Fetched(s))
        <4> DEFINE events == Fetched(s)
        <4>1. /\ Stored(s, f, to, events) /\ events \subseteq Span(f, to)
              /\ truth \cap Span(f, to) \subseteq events \cup ses[s].unserved
          BY <2>1, <3>1
        <4>2. ses[s].range = r.range
          OBVIOUS
        <4> HIDE DEF f, events, r
        <4> QED
          BY <1>1, <1>2, <2>1, <4>1, <4>2, StoreKeeps
      <3>2. CASE UNCHANGED cache
        BY <2>3, <3>2 DEF cache, IInv, CacheOK
      <3> QED
        BY <2>2, <3>1, <3>2
    <2>5. filled' = filled \/ (/\ Read(s) /\ s \in Historical
                               /\ filled' = [filled EXCEPT ![r.range] = @ \cup Span(f, to)])
      BY <2>2 DEF Stored, cache
    <2>6. /\ \A o \in Sessions \ {s} : FilledOK(o, ses[o], filled')
          /\ FilledOK(s, q, filled')
      <3>1. r = ses[s] /\ r.pc = "settle" /\ to <= Head(r.plan).to
        BY <1>1, <2>1
      <3>2. q.mode = r.mode /\ q.range = r.range /\ q.blind = r.blind
        BY <1>3 DEF Shrinks
      <3> HIDE DEF r, f, t, upto
      <3> QED
        BY <1>3, <2>1, <2>5, <3>1, <3>2, StoreFills
    <2>7. SlotOK(s, q, slot') /\ \A o \in Sessions \ {s} : SlotOK(o, ses[o], slot')
      BY <1>3, <2>3, InvIs, ShrinksOK
    <2>8. SessionOK(s, q, truth, now, horizon, claimed')
      <3>1. horizon <= horizon
        BY <1>1
      <3> DEFINE more == claimed'
      <3>2. claimed \subseteq more
        BY <2>4
      <3> HIDE DEF more, r
      <3>3. SessionOK(s, q, truth, now, horizon, more)
        BY <1>1, <1>3, <3>1, <3>2, SessionMonotone
      <3> QED
        BY <3>3 DEF more
    <2> QED
      BY <1>3, <2>3, <2>4, <2>6, <2>7, <2>8, SessionMoves
  <1>4. CASE SettleFetched(s)
    <2> DEFINE to == IF AtEdge(s) THEN upto ELSE t
               q == NextSegment(r)
    <2>1. ~r.failed /\ StoreOrRollBack(s, f, to, Fetched(s)) /\ Becomes(s, q)
      BY <1>4 DEF SettleFetched, Current
    <2>2. to = upto \/ (to = t /\ ~AtEdge(s) /\ ~r.failed)
      BY <2>1
    <2>3. r.batch = {} /\ r.plan \in Seq(Piece) /\ r.plan # << >>
      BY <1>1, <2>1, TypeIs DEF FetchOK, ShapeOK, Working
    <2>4. SessionOK(s, q, truth, now, horizon, claimed) /\ Shrinks(r, q)
      <3> HIDE DEF r
      <3> QED
        BY <1>1, <2>3, NextSegmentOK
    <2>5. \A j \in 1 .. Len(q.plan) : \E k \in 2 .. Len(r.plan) : q.plan[j] = r.plan[k]
      <3>1. q.plan = Tail(r.plan)
        BY <1>1 DEF NextSegment, SessionType
      <3> HIDE DEF r, q
      <3> QED
        BY <2>3, <3>1, PlanTail
    <2> HIDE DEF to, q, r, f, t, upto
    <2> QED
      BY <1>3, <2>1, <2>2, <2>4, <2>5
  <1>5. CASE SettleFailed(s)
    <2> DEFINE cached == UsesCache(s)
               q == FailureSettled(s, r, cached)
    <2>1. StoreOrRollBack(s, f, upto, Fetched(s)) /\ Becomes(s, q)
      BY <1>5 DEF SettleFailed, Current, FailureSettled, FailureEnds, GapThenError
    <2>2. cached \in BOOLEAN
      BY <1>1, TypeIs DEF UsesCache, Read, Write
    <2>3. SessionOK(s, q, truth, now, horizon, claimed) /\ Shrinks(r, q)
      <3>1. q = FailureSettled(s, r, cached)
        OBVIOUS
      <3> HIDE DEF r, cached, q
      <3> QED
        BY <1>1, <2>2, <3>1, SettleFailedOK
    <2>4. \A j \in 1 .. Len(q.plan) : \E k \in 2 .. Len(r.plan) : q.plan[j] = r.plan[k]
      <3>1. q.plan = << >>
        BY <1>1 DEF FailureSettled, FailureEnds, NextSegment, Emit, SessionType
      <3> HIDE DEF q
      <3> QED
        BY <3>1
    <2> HIDE DEF q, cached, r, f, t, upto
    <2> QED
      BY <1>3, <2>1, <2>3, <2>4
  <1> QED
    BY <1>4, <1>5

-----------------------------------------------------------------------------
(* The clocks.                                                              *)

LEMMA TickSteps ==
  ASSUME IInv, MarketTick
  PROVE  IInv'
  <1>1. /\ now < Ticks /\ now' = now + 1
        /\ truth' = truth /\ horizon' = horizon /\ slot' = slot
        /\ rows' = rows /\ doc' = doc /\ claimed' = claimed /\ lagging' = lagging
        /\ filled' = filled
        /\ ses' = [s \in Sessions |->
                     IF s \in Stitched /\ Running(s) /\ ses[s].back # "done" /\ now \in truth
                     THEN [ses[s] EXCEPT !.live = Append(@, now)] ELSE ses[s]]
    BY DEF MarketTick, cache
  <1>2. ClockOK' /\ CacheOK'
    <2>1. now + 1 \in Time /\ horizon <= now + 1
      BY <1>1, ReadThroughAssumption DEF IInv, ClockOK, Time
    <2> QED
      BY <1>1, <2>1 DEF IInv, ClockOK, CacheOK
  <1>3. ses' = [s \in Sessions |-> ses'[s]]
    BY <1>1
  <1>4. ASSUME NEW s \in Sessions
        PROVE  SessionOK(s, ses'[s], truth, now + 1, horizon, claimed) /\ SlotOK(s, ses'[s], slot)
                 /\ FilledOK(s, ses'[s], filled)
    <2> DEFINE r == ses[s]
               q == Ticked(s, r, truth, now)
    <2>1. /\ SessionOK(s, r, truth, now, horizon, claimed) /\ SlotOK(s, r, slot) /\ FilledOK(s, r, filled)
          /\ truth \subseteq Int /\ now \in Time /\ s \in Historical \cup Stitched
          /\ r \in SessionType
      BY InvIs
    <2>2. ses'[s] = q
      BY <1>1, <2>1 DEF Running, SessionType, Hears, Ticked
    <2>3. q = Ticked(s, r, truth, now)
      OBVIOUS
    <2> HIDE DEF r, q
    <2>4. SessionOK(s, q, truth, now + 1, horizon, claimed)
      BY <2>1, <2>3, TickOK, Zenon
    <2>5. SlotOK(s, q, slot) /\ FilledOK(s, q, filled)
      BY <2>1, <2>3, TickOK, Zenon
    <2> QED
      BY <2>2, <2>4, <2>5
  <1> QED
    BY <1>1, <1>2, <1>3, <1>4 DEF IInv

LEMMA CatchUpSteps ==
  ASSUME IInv, HistoryCatchesUp
  PROVE  IInv'
  <1>1. /\ horizon < now /\ horizon' = now /\ truth' = truth /\ now' = now /\ slot' = slot /\ ses' = ses
        /\ rows' = rows /\ doc' = doc /\ claimed' = claimed /\ lagging' = lagging
        /\ filled' = filled
    BY DEF HistoryCatchesUp, cache
  <1>2. horizon \in Int /\ now \in Int /\ now \in Time /\ truth \subseteq Time
    BY TimeIs, ReadThroughAssumption DEF IInv, ClockOK, Span, Time
  <1>3. ClockOK'
    BY <1>1, <1>2 DEF IInv, ClockOK
  <1>4. CacheOK'
    BY <1>1 DEF IInv, CacheOK
  <1>5. ASSUME NEW s \in Sessions
        PROVE  SessionOK(s, ses[s], truth, now, now, claimed) /\ SlotOK(s, ses[s], slot) /\ FilledOK(s, ses[s], filled)
    <2>1. SessionOK(s, ses[s], truth, now, horizon, claimed) /\ SlotOK(s, ses[s], slot) /\ FilledOK(s, ses[s], filled)
      BY InvIs
    <2>2. horizon <= now
      BY <1>1, <1>2
    <2> QED
      BY <1>2, <2>1, <2>2, SessionMonotone
  <1> QED
    BY <1>1, <1>3, <1>4, <1>5 DEF IInv

-----------------------------------------------------------------------------
(* The invariant.                                                           *)

LEMMA InitIInv ==
  ASSUME Init
  PROVE  IInv
  <1>1. PICK b \in Beginnings :
          /\ truth = b.market /\ now = b.start /\ horizon = b.served
          /\ ses = [s \in Sessions |-> IF s \in b.who THEN NewSession ELSE [NewSession EXCEPT !.pc = "done"]]
    BY DEF Init
  <1>2. /\ rows = {} /\ doc = [segments |-> << >>, event_count |-> 0]
        /\ slot = [r \in Ranges |-> None] /\ claimed = {} /\ lagging = {}
        /\ filled = [r \in Ranges |-> {}]
    BY DEF Init
  <1>3. ClockOK
    <2>1. b.start \in 0 .. Ticks /\ b.served \in 0 .. b.start /\ Ticks \in Nat /\ b.market \subseteq Span(0, Ticks)
      BY ReadThroughAssumption
    <2> QED
      BY <1>1, <2>1 DEF ClockOK, Time
  <1>4. CacheOK
    <2>1. Spans(<< >>) = {}
      BY DEF Spans
    <2>2. Cardinality({}) = 0
      BY FS_EmptySet
    <2>3. /\ DOMAIN doc = {"segments", "event_count"} /\ doc.segments = << >> /\ doc.event_count = 0
      BY <1>2
    <2>4. /\ filled \in [Ranges -> SUBSET claimed] /\ slot \in [Ranges -> Sessions \cup {None}]
      BY <1>2
    <2> QED
      BY <1>2, <2>1, <2>2, <2>3, <2>4, CanonicalEmpty DEF CacheOK
  <1>5. truth \subseteq Time /\ truth \subseteq Int /\ now \in Int /\ horizon \in Int
    BY <1>3, TimeIs, ReadThroughAssumption DEF ClockOK, Span, Time
  <1>6. ASSUME NEW s \in Sessions
        PROVE  SessionOK(s, ses[s], truth, now, horizon, claimed) /\ SlotOK(s, ses[s], slot) /\ FilledOK(s, ses[s], filled)
    <2> DEFINE r == ses[s]
    <2>1. NewSession \in SessionType
      <3>1. 0 \in Time
        BY ReadThroughAssumption DEF Time
      <3>2. ASSUME NEW a \in Time \X Time, NEW m \in BOOLEAN \X BOOLEAN, NEW p \in Seq(Piece),
                     NEW i \in Seq(Item), NEW l \in Seq(Time), NEW e \in SUBSET Time, NEW u \in SUBSET Int,
                     NEW n \in Int, NEW z \in Int
              PROVE  [pc |-> "idle", range |-> a, mode |-> m, blind |-> FALSE,
                      plan |-> p, batch |-> e, max |-> n, failed |-> FALSE,
                      todo |-> i, back |-> "idle", out |-> i,
                      stream |-> "held", unread |-> z, close |-> FALSE,
                      since |-> z, unserved |-> u, live |-> l, ring |-> l, evicted |-> e] \in SessionType
        BY DEF SessionType, Pcs
      <3>3. <<0, 0>> \in Time \X Time /\ <<FALSE, FALSE>> \in BOOLEAN \X BOOLEAN
        BY <3>1
      <3>4. << >> \in Seq(Piece) /\ << >> \in Seq(Item) /\ << >> \in Seq(Time)
        OBVIOUS
      <3>5. {} \in SUBSET Time /\ {} \in SUBSET Int /\ -1 \in Int /\ 0 \in Int
        OBVIOUS
      <3> QED
        BY <3>2, <3>3, <3>4, <3>5, Zenon DEF NewSession
    <2>2. r = NewSession \/ r = [NewSession EXCEPT !.pc = "done"]
      BY <1>1
    <2>3. /\ r.pc \in {"idle", "done"} /\ r.range = <<0, 0>> /\ r.mode = <<FALSE, FALSE>> /\ r.plan = << >>
          /\ r.batch = {} /\ r.max = -1 /\ r.todo = << >> /\ r.back = "idle" /\ r.out = << >>
          /\ r.ring = << >> /\ r.evicted = {} /\ r.close = FALSE /\ r.live = << >>
      <3> DEFINE new == NewSession
      <3>1. /\ new.pc = "idle" /\ new.range = <<0, 0>> /\ new.mode = <<FALSE, FALSE>> /\ new.plan = << >>
            /\ new.batch = {} /\ new.max = -1 /\ new.todo = << >> /\ new.back = "idle" /\ new.out = << >>
            /\ new.ring = << >> /\ new.evicted = {} /\ new.close = FALSE /\ new.live = << >>
        BY DEF NewSession
      <3>2. ASSUME NEW n \in SessionType
            PROVE  LET d == [n EXCEPT !.pc = "done"]
                   IN  /\ d.pc = "done" /\ d.range = n.range /\ d.mode = n.mode /\ d.plan = n.plan
                       /\ d.batch = n.batch /\ d.max = n.max /\ d.todo = n.todo /\ d.back = n.back /\ d.out = n.out
                       /\ d.ring = n.ring /\ d.evicted = n.evicted /\ d.close = n.close /\ d.live = n.live
                       /\ d \in SessionType
        <4>1. "done" \in Pcs
          BY DEF Pcs
        <4> QED
          BY <4>1, PcMoves
      <3> HIDE DEF new
      <3> QED
        BY <2>1, <2>2, <3>1, <3>2 DEF new
    <2>4. r \in SessionType
      <3>1. ASSUME NEW n \in SessionType PROVE [n EXCEPT !.pc = "done"] \in SessionType
        BY PcMoves DEF Pcs
      <3> QED
        BY <2>1, <2>2, <3>1
    <2> HIDE DEF r
    <2>5. Phase(r) = r.pc /\ ~Working(r) /\ 1 .. Len(r.plan) = {} /\ Log(r) = << >>
      <3>1. Phase(r) = r.pc /\ ~Working(r)
        BY <2>3 DEF Phase, Working
      <3>2. Log(r) = << >>
        BY <2>3, <2>4, TypeIs
      <3>3. 1 .. Len(r.plan) = {}
        BY <2>3
      <3> QED
        BY <3>1, <3>2, <3>3
    <2>6. s \in Historical \cup Stitched
      BY DEF Sessions
    <2>7. ShapeOK(s, r)
      BY <2>3, <2>5 DEF ShapeOK
    <2>8. PlanOK(s, r, claimed)
      BY <2>5 DEF PlanOK
    <2>9. FetchOK(s, r, truth, horizon)
      BY <2>3, <2>5 DEF FetchOK
    <2>10. OrderOK(s, r)
      BY <2>5, LogNone DEF OrderOK
    <2>11. WholeOK(s, r, truth)
      <3>1. \A x \in truth : ~(r.range[1] <= x /\ x < r.range[2])
        BY <1>5, <2>3
      <3> QED
        BY <3>1 DEF WholeOK
    <2>12. SeamOK(s, r, truth, now)
      BY <2>3, <2>5 DEF SeamOK
    <2>13. SlotOK(s, r, slot) /\ FilledOK(s, r, filled)
      BY <2>3, <2>5 DEF SlotOK, FilledOK
    <2> QED
      BY <2>4, <2>7, <2>8, <2>9, <2>10, <2>11, <2>12, <2>13 DEF SessionOK, r
  <1> QED
    BY <1>1, <1>3, <1>4, <1>6 DEF IInv

LEMMA NextIInv ==
  ASSUME IInv, [Next]_vars
  PROVE  IInv'
  <1>1. ASSUME NEW s \in Sessions, Controller(s) PROVE IInv'
    <2>1. CASE PlanRefresh(s) \/ PlanCheck(s)
      BY <2>1, PlanSteps
    <2>2. CASE Acquire(s) \/ Replan(s)
      BY <2>2, SlotSteps
    <2>3. CASE OpenReplay(s) \/ Replay(s) \/ StartFetch(s) \/ FetchEvent(s) \/ FetchEnds(s)
      BY <2>3, StreamSteps
    <2>4. CASE SettleFetched(s) \/ SettleFailed(s)
      BY <2>4, SettleSteps
    <2>5. CASE DeliverTodo(s)
      BY <2>5, DeliverSteps
    <2>6. CASE FinishHistorical(s) \/ Drained(s) \/ HandleClose(s)
      BY <2>6, EndSteps
    <2>7. CASE BufferLive(s) \/ FlushPending(s) \/ ForwardLive(s)
      BY <2>7, LiveSteps
    <2> QED
      BY <1>1, <2>1, <2>2, <2>3, <2>4, <2>5, <2>6, <2>7 DEF Controller
  <1>2. ASSUME NEW s \in Sessions, Caller(s) PROVE IInv'
    <2>1. CASE \E r \in Ranges, m \in Modes : s \in Historical /\ OpenHistorical(s, r, m)
      BY <2>1, OpenHistoricalStep
    <2>2. CASE \E f \in Froms, m \in Modes : s \in Stitched /\ StartBackfill(s, f, m)
      BY <2>2, OpenStitchedSteps
    <2>3. CASE TakeEvents(s) \/ Recv(s) \/ DropStream(s) \/ AskClose(s) \/ DropSession(s)
      BY <2>3, CallerSteps
    <2>4. CASE OpenStitched(s)
      <3>1. s \in Stitched
        BY <2>4 DEF OpenStitched
      <3> QED
        BY <2>4, <3>1, OpenStitchedSteps
    <2>5. CASE LastReferrerLeaves(s)
      BY <2>5, EndSteps
    <2> QED
      BY <1>2, <2>1, <2>2, <2>3, <2>4, <2>5 DEF Caller
  <1>3. CASE MarketTick
    BY <1>3, TickSteps
  <1>4. CASE HistoryCatchesUp
    BY <1>4, CatchUpSteps
  <1>5. CASE UNCHANGED vars
    BY <1>5 DEF vars, IInv, ClockOK, CacheOK
  <1> QED
    BY <1>1, <1>2, <1>3, <1>4, <1>5 DEF Next

(***************************************************************************)
(* The inductive invariant of the read-through cache: every session has    *)
(* told, holds or has planned what it owes, in source order, holds the slot*)
(* of the range it fetches, and the cache is exactly what was claimed.     *)
(***************************************************************************)
THEOREM Invariance == Spec => []IInv
  <1>1. Init => IInv
    BY InitIInv
  <1>2. IInv /\ [Next]_vars => IInv'
    BY NextIInv
  <1> QED
    BY <1>1, <1>2, PTL DEF Spec

-----------------------------------------------------------------------------
(* What the invariant says of the sessions.                                 *)

LEMMA ToldIs ==
  ASSUME NEW s, NEW out, out = ses[s].out, out \in Seq(Item)
  PROVE  \A x : x \in Told(s, {"data", "gap"}) <=> x \in Int /\ ToldIn(out, x)
  <1>1. DOMAIN out = 1 .. Len(out)
    OBVIOUS
  <1>2. \A i \in 1 .. Len(out) : out[i] \in Item
    OBVIOUS
  <1>3. ASSUME NEW i \in 1 .. Len(out), NEW x
        PROVE  x \in Span(out[i].from, out[i].to) <=> x \in Int /\ out[i].from <= x /\ x < out[i].to
    BY <1>2, ItemIs DEF Span
  <1>4. ASSUME NEW x
        PROVE  x \in Told(s, {"data", "gap"}) <=>
                 \E i \in 1 .. Len(out) : out[i].kind \in {"data", "gap"} /\ x \in Span(out[i].from, out[i].to)
    BY <1>1 DEF Told
  <1> QED
    BY <1>3, <1>4 DEF ToldIn, Tells

LEMMA SourceOrderIs ==
  ASSUME IInv
  PROVE  SourceOrder
  <1> SUFFICES ASSUME NEW s \in Historical, NEW i \in DOMAIN ses[s].out, NEW j \in DOMAIN ses[s].out,
                      i < j, "closing" \notin {ses[s].out[i].kind, ses[s].out[j].kind}
               PROVE  /\ ses[s].out[i].from <= ses[s].out[j].from
                      /\ ses[s].out[j].kind = "data" => ses[s].out[i].to <= ses[s].out[j].from
    BY DEF SourceOrder
  <1> DEFINE r == ses[s]
             log == Log(r)
             out == r.out
  <1>1. s \in Sessions
    BY DEF Sessions
  <1>2. r \in SessionType /\ OrderOK(s, r)
    BY <1>1, InvIs DEF SessionOK
  <1>3. out \in Seq(Item) /\ r.todo \in Seq(Item)
    BY <1>2, TypeIs
  <1>4. \A k \in 1 .. Len(out) : k \in 1 .. Len(log) /\ log[k] = out[k]
    <2>1. /\ Len(log) = Len(out) + Len(r.todo) /\ Len(out) \in Nat /\ Len(r.todo) \in Nat
          /\ \A k \in 1 .. Len(log) : log[k] = IF k <= Len(out) THEN out[k] ELSE r.todo[k - Len(out)]
      <3> DEFINE todo == r.todo
      <3>1. log = out \o todo /\ out \in Seq(Item) /\ todo \in Seq(Item)
        BY <1>3 DEF Log
      <3> HIDE DEF log, out, todo
      <3>2. Len(log) = Len(out) + Len(todo) /\ Len(out) \in Nat /\ Len(todo) \in Nat
        BY <3>1
      <3>3. \A k \in 1 .. Len(log) : log[k] = IF k <= Len(out) THEN out[k] ELSE todo[k - Len(out)]
        BY <3>1, ConcatIs
      <3> QED
        BY <3>2, <3>3 DEF todo
    <2> HIDE DEF log, out, r
    <2> QED
      BY <2>1
  <1>5. Ordered(log)
    BY <1>2 DEF OrderOK, Timely
  <1>6. i \in 1 .. Len(out) /\ j \in 1 .. Len(out) /\ i < j /\ out[i].kind # "closing" /\ out[j].kind # "closing"
    BY <1>3
  <1> SUFFICES Before(out[i], out[j])
    BY <1>6 DEF Before
  <1> HIDE DEF log, out, r
  <1> QED
    BY <1>4, <1>5, <1>6 DEF Ordered

LEMMA SingleFlightIs ==
  ASSUME IInv
  PROVE  SingleFlight
  <1> SUFFICES ASSUME NEW s \in Historical, At(s, "fetch"), Read(s), ~ses[s].blind
               PROVE  Span(Current(s).from, Current(s).to) \cap filled[ses[s].range] = {}
    BY DEF SingleFlight
  <1> DEFINE r == ses[s]
  <1>1. s \in Sessions
    BY DEF Sessions
  <1>2. /\ SessionOK(s, r, truth, now, horizon, claimed) /\ FilledOK(s, r, filled) /\ FetchOK(s, r, truth, horizon)
        /\ r.pc = "fetch" /\ Phase(r) = "fetch" /\ Streaming(r) /\ r.mode[1] /\ ~r.blind
    BY <1>1, InvIs DEF SessionOK, At, Read, Phase, Streaming
  <1> HIDE DEF r
  <1>3. /\ r.plan \in Seq(Piece) /\ r.plan # << >> /\ 1 \in 1 .. Len(r.plan) /\ r.plan[1].kind = "gap"
        /\ r.plan[1].from \in Int /\ r.plan[1].to \in Int
    BY <1>2, StreamingIs DEF FetchOK
  <1>4. Current(s) = r.plan[1]
    BY <1>3, PlanTail DEF Current, r
  <1>5. \A x \in filled[r.range] : ~(r.plan[1].from <= x /\ x < r.plan[1].to)
    BY <1>2, <1>3 DEF FilledOK
  <1> QED
    BY <1>3, <1>4, <1>5 DEF Span, r

LEMMA NothingMissingIs ==
  ASSUME IInv
  PROVE  NothingMissing
  <1> SUFFICES ASSUME NEW s \in Historical, Ended(s), ~Failed(s),
                      NEW x \in truth, x \in Span(ses[s].range[1], ses[s].range[2])
               PROVE  x \in Told(s, {"data", "gap"}) \cup ses[s].unserved
    BY DEF NothingMissing
  <1> DEFINE r == ses[s]
             out == r.out
  <1>1. s \in Sessions
    BY DEF Sessions
  <1>2. /\ r \in SessionType /\ ShapeOK(s, r) /\ WholeOK(s, r, truth)
        /\ truth \subseteq Int /\ r.pc \in {"drain", "done"} /\ ~r.close
    BY <1>1, InvIs DEF SessionOK, Ended
  <1>3. /\ out \in Seq(Item) /\ r.range[1] \in Int /\ r.range[2] \in Int
        /\ (r.todo = << >> => Log(r) = out) /\ r.todo \in Seq(Item)
    BY <1>2, TypeIs
  <1>4. Phase(r) = r.pc /\ ~Working(r)
    BY <1>2 DEF Phase, Working
  <1>5. r.todo = << >> /\ r.plan = << >> /\ r.batch = {}
    BY <1>2, <1>4 DEF ShapeOK
  <1>6. NoError(out)
    <2>1. DOMAIN out = 1 .. Len(out)
      BY <1>3
    <2> QED
      BY <2>1 DEF Failed, NoError
  <1>7. r.range[1] <= x /\ x < r.range[2] /\ x \in Int
    BY <1>2, <1>3 DEF Span
  <1>8. ~InPlan(r, x)
    BY <1>4, <1>5 DEF InPlan, Left
  <1>9. ToldIn(out, x) \/ x \in r.unserved
    BY <1>2, <1>3, <1>4, <1>5, <1>6, <1>7, <1>8 DEF WholeOK
  <1> QED
    BY <1>3, <1>7, <1>9, ToldIs

LEMMA SeamCompleteIs ==
  ASSUME IInv
  PROVE  SeamComplete
  <1> SUFFICES ASSUME NEW s \in Stitched, At(s, "live")
               PROVE  /\ \A x \in truth : x \in Span(ses[s].since, now) =>
                           x \in Told(s, {"data", "gap"}) \cup Range(ses[s].live)
                      /\ \A x \in truth : x \in Span(ses[s].range[1], ses[s].since) =>
                           x \in Told(s, {"data", "gap"}) \cup ses[s].unserved
                      /\ \A i, j \in DOMAIN ses[s].out : Twice(s, i, j) =>
                           /\ ses[s].out[i].from \in Span(ses[s].since, ses[s].range[2])
                           /\ \A k \in DOMAIN ses[s].out : Twice(s, j, k) => k = i
    BY DEF SeamComplete
  <1> DEFINE r == ses[s]
             out == r.out
  <1>1. s \in Sessions
    BY DEF Sessions
  <1>2. /\ r \in SessionType /\ ShapeOK(s, r) /\ SeamOK(s, r, truth, now)
        /\ truth \subseteq Int /\ now \in Time /\ now \in Int /\ r.pc = "live" /\ Phase(r) = "live"
    BY <1>1, InvIs, TimeIs DEF At, Phase
  <1>3. /\ out \in Seq(Item) /\ r.range[1] \in Int /\ r.range[2] \in Int
        /\ r.live \in Seq(Time) /\ r.since \in Int
        /\ (r.todo = << >> => Log(r) = out) /\ r.todo \in Seq(Item)
    BY <1>2, TypeIs
  <1>4. /\ r.todo = << >> /\ r.plan = << >> /\ r.batch = {} /\ r.ring = << >> /\ r.evicted = {}
        /\ Log(r) = out
    BY <1>2, <1>3 DEF ShapeOK, Working
  <1>5. \A x : ~InPlan(r, x)
    BY <1>2, <1>4 DEF InPlan, Left, Working
  <1>6. ASSUME NEW x \in truth, x \in Span(r.since, now)
        PROVE  x \in Told(s, {"data", "gap"}) \cup Range(r.live)
    <2>1. x \in Int /\ r.since <= x /\ x < now
      BY <1>2, <1>3, <1>6 DEF Span
    <2>2. Lists(r.live, x) \/ Lists(r.ring, x) \/ ToldIn(out, x)
      BY <1>2, <1>4, <2>1 DEF SeamOK
    <2>3. ~Lists(r.ring, x)
      BY <1>4 DEF Lists
    <2>4. Lists(r.live, x) => x \in Range(r.live)
      <3>1. DOMAIN r.live = 1 .. Len(r.live)
        BY <1>3
      <3> QED
        BY <3>1 DEF Lists, Range
    <2> QED
      BY <1>3, <2>1, <2>2, <2>3, <2>4, ToldIs
  <1>7. ASSUME NEW x \in truth, x \in Span(r.range[1], r.since)
        PROVE  x \in Told(s, {"data", "gap"}) \cup r.unserved
    <2>1. x \in Int /\ r.range[1] <= x /\ x < r.since
      BY <1>2, <1>3, <1>7 DEF Span
    <2>2. ToldIn(out, x) \/ x \in r.unserved
      BY <1>2, <1>4, <1>5, <2>1 DEF SeamOK
    <2> QED
      BY <1>3, <2>1, <2>2, ToldIs
  <1>8. PICK n \in 0 .. Len(out) : SeamAt(out, n, r.range[2], r.since, now, r.live)
    BY <1>2, <1>4 DEF SeamOK, SeamIn
  <1>9. /\ DOMAIN out = 1 .. Len(out) /\ Len(out) \in Nat
        /\ \A i \in 1 .. Len(out) : out[i].from \in Int
    BY <1>3, ItemIs
  <1>10. ASSUME NEW i \in 1 .. Len(out), NEW j \in 1 .. Len(out), Twice(s, i, j)
         PROVE  out[i].kind = "data" /\ out[j].kind = "data" /\ out[i].from = out[j].from /\ i # j
    BY <1>10 DEF Twice
  <1> HIDE DEF out, r
  <1>11. ASSUME NEW i \in 1 .. Len(out), NEW j \in 1 .. Len(out),
                out[i].kind = "data", out[j].kind = "data", i < j, (i <= n /\ j <= n) \/ (n < i /\ n < j)
         PROVE  out[i].from < out[j].from
    <2>1. Sooner(out[i], out[j])
      <3>1. CASE i <= n /\ j <= n
        <4>1. i \in 1 .. n /\ j \in 1 .. n
          BY <3>1
        <4> QED
          BY <1>8, <1>11, <4>1 DEF SeamAt, Rises
      <3>2. CASE n < i /\ n < j
        <4>1. i \in n + 1 .. Len(out) /\ j \in n + 1 .. Len(out)
          BY <1>9, <3>2
        <4> QED
          BY <1>8, <1>11, <4>1 DEF SeamAt, Rises
      <3> QED
        BY <1>11, <3>1, <3>2
    <2> QED
      BY <1>11, <2>1 DEF Sooner
  <1>12. ASSUME NEW i \in 1 .. Len(out), NEW j \in 1 .. Len(out), Twice(s, i, j)
         PROVE  i <= n <=> n < j
    <2>1. /\ out[i].kind = "data" /\ out[j].kind = "data" /\ out[i].from = out[j].from /\ i # j
          /\ out[i].from \in Int
      BY <1>9, <1>10, <1>12
    <2>2. ~(out[i].from < out[j].from) /\ ~(out[j].from < out[i].from)
      BY <2>1
    <2>3. i < j \/ j < i
      BY <2>1
    <2>4. ~((i <= n /\ j <= n) \/ (n < i /\ n < j))
      BY <1>11, <2>1, <2>2, <2>3
    <2> QED
      BY <2>4
  <1>13. ASSUME NEW i \in 1 .. Len(out), NEW j \in 1 .. Len(out), Twice(s, i, j)
         PROVE  out[i].from \in Span(r.since, r.range[2])
    <2>1. /\ out[i].kind = "data" /\ out[j].kind = "data" /\ out[i].from = out[j].from
          /\ out[i].from \in Int
      BY <1>9, <1>10, <1>13
    <2>2. ASSUME NEW a \in 1 .. Len(out), NEW b \in 1 .. Len(out),
                 out[a].kind = "data", out[b].kind = "data", out[a].from = out[b].from, a <= n, n < b
          PROVE  r.since <= out[a].from /\ out[a].from < r.range[2]
      <3>1. a \in 1 .. n /\ b \in n + 1 .. Len(out)
        BY <1>9, <2>2
      <3> QED
        BY <1>8, <2>2, <3>1 DEF SeamAt, Arrived
    <2>3. (i <= n /\ n < j) \/ (j <= n /\ n < i)
      BY <1>12, <1>13
    <2>4. r.since <= out[i].from /\ out[i].from < r.range[2]
      BY <2>1, <2>2, <2>3
    <2> QED
      BY <1>3, <2>1, <2>4 DEF Span
  <1>14. ASSUME NEW i \in 1 .. Len(out), NEW j \in 1 .. Len(out), NEW k \in 1 .. Len(out),
                Twice(s, i, j), Twice(s, j, k)
         PROVE  k = i
    <2>1. /\ out[i].kind = "data" /\ out[k].kind = "data" /\ out[i].from = out[k].from
          /\ out[i].from \in Int
      BY <1>9, <1>10, <1>14
    <2>2. (i <= n /\ k <= n) \/ (n < i /\ n < k)
      BY <1>12, <1>14
    <2>3. ~(out[i].from < out[k].from) /\ ~(out[k].from < out[i].from)
      BY <2>1
    <2>4. ~(i < k) /\ ~(k < i)
      BY <1>11, <2>1, <2>2, <2>3
    <2> QED
      BY <2>4
  <1> QED
    BY <1>6, <1>7, <1>9, <1>13, <1>14 DEF out, r

LEMMA CoverageExactIs ==
  ASSUME IInv
  PROVE  CoverageExact
  <1> DEFINE segs == doc.segments
  <1>1. /\ segs \in Intervals /\ Canonical(segs) /\ Spans(segs) = claimed
        /\ rows \subseteq claimed /\ truth \cap claimed \subseteq rows \cup lagging /\ doc.event_count = Cardinality(rows)
    BY DEF IInv, CacheOK
  <1>2. ASSUME NEW f \in Time, NEW t \in f .. Ticks
        PROVE  LET gaps == gaps_within(segs, f, t)
                   best == intersect(segs, f, t)
                   pieces == tile(f, t, gaps)
               IN  /\ Canonical(gaps) /\ Spans(gaps) = Span(f, t) \ claimed
                   /\ best = << >> <=> Span(f, t) \cap claimed = {}
                   /\ best # << >> => Span(best[1], best[2]) \subseteq Span(f, t) \cap claimed
                   /\ f < t => /\ pieces # << >> /\ pieces[1].from = f /\ pieces[Len(pieces)].to = t
                               /\ \A i \in 1 .. Len(pieces) - 1 : pieces[i].to = pieces[i + 1].from
                               /\ \A i \in DOMAIN pieces :
                                    LET span == Span(pieces[i].from, pieces[i].to)
                                    IN  IF pieces[i].kind = "gap" THEN span \cap claimed = {}
                                        ELSE span \subseteq claimed
    <2> DEFINE gaps == gaps_within(segs, f, t)
               best == intersect(segs, f, t)
               pieces == tile(f, t, gaps)
    <2>1. f \in Int /\ t \in Int
      BY TimeIs, ReadThroughAssumption
    <2>2. Canonical(gaps) /\ Spans(gaps) = Span(f, t) \ claimed
      BY <1>1, <2>1, GapsWithinExact
    <2>3. /\ best = << >> <=> Span(f, t) \cap claimed = {}
          /\ best # << >> => Span(best[1], best[2]) \subseteq Span(f, t) \cap claimed
      <3>1. best = intersect(segs, f, t)
        OBVIOUS
      <3> HIDE DEF best, segs
      <3> QED
        BY <1>1, <2>1, <3>1, IntersectExact
    <2>4. ASSUME f < t
          PROVE  /\ pieces # << >> /\ pieces[1].from = f /\ pieces[Len(pieces)].to = t
                 /\ \A i \in 1 .. Len(pieces) - 1 : pieces[i].to = pieces[i + 1].from
                 /\ \A i \in DOMAIN pieces :
                      LET span == Span(pieces[i].from, pieces[i].to)
                      IN  IF pieces[i].kind = "gap" THEN span \cap claimed = {} ELSE span \subseteq claimed
      <3>1. gaps = gaps_within(segs, f, t) /\ pieces = tile(f, t, gaps) /\ claimed = Spans(segs)
        BY <1>1
      <3> HIDE DEF gaps, pieces, segs
      <3>2. /\ Plans(pieces, f, t, claimed)
            /\ \A j \in 1 .. Len(pieces) : pieces[j].kind = "gap" =>
                 /\ gaps # << >>
                 /\ \A x \in claimed : ~(pieces[j].from <= x /\ x < pieces[j].to)
            /\ Tiles(pieces, f, t, gaps)
        BY <1>1, <2>1, <2>4, <3>1, GapsPlan
      <3>3. /\ pieces \in Seq(Piece) /\ Len(pieces) \in Nat /\ DOMAIN pieces = 1 .. Len(pieces)
            /\ Len(pieces) > 0
        BY <2>1, <2>4, <3>2 DEF Tiles
      <3>4. /\ pieces # << >> /\ pieces[1].from = f /\ pieces[Len(pieces)].to = t
            /\ \A i \in 1 .. Len(pieces) - 1 : pieces[i].to = pieces[i + 1].from
        BY <3>2, <3>3 DEF Tiles
      <3>5. ASSUME NEW i \in 1 .. Len(pieces)
            PROVE  IF pieces[i].kind = "gap" THEN Span(pieces[i].from, pieces[i].to) \cap claimed = {}
                   ELSE Span(pieces[i].from, pieces[i].to) \subseteq claimed
        <4>1. pieces[i].kind \in {"covered", "gap"} /\ pieces[i].from \in Int /\ pieces[i].to \in Int
          BY <3>3, PieceIs
        <4>2. \A x : x \in Span(pieces[i].from, pieces[i].to) <=> x \in Int /\ pieces[i].from <= x /\ x < pieces[i].to
          BY <4>1 DEF Span
        <4> QED
          BY <3>2, <4>1, <4>2 DEF Plans
      <3> QED
        BY <3>3, <3>4, <3>5
    <2> QED
      BY <2>2, <2>3, <2>4
  <1> QED
    BY <1>1, <1>2 DEF CoverageExact, covered

(***************************************************************************)
(* The cache: coverage promises no more than the table holds, save what a  *)
(* fetch claimed before the endpoint served it; it is the union of the     *)
(* claims, and its queries are exact, for any number of sessions, any      *)
(* requests, the present and the future included, and any interleaving of  *)
(* fetches and stores.                                                     *)
(***************************************************************************)
THEOREM CoverageIsExact == Spec => []CoverageExact
  BY Invariance, CoverageExactIs, PTL

(***************************************************************************)
(* Single flight: a session that reads the cache fetches nothing that one  *)
(* with its key has fetched and stored, unless it could not see it.        *)
(***************************************************************************)
THEOREM FlightIsSingle == Spec => []SingleFlight
  BY Invariance, SingleFlightIs, PTL

(***************************************************************************)
(* A historical session never steps back in source time, and no tick is    *)
(* delivered twice.                                                        *)
(***************************************************************************)
THEOREM OrderIsKept == Spec => []SourceOrder
  BY Invariance, SourceOrderIs, PTL

(***************************************************************************)
(* A historical session that ends by itself and reports no provider error  *)
(* has told every tick of its range that traded and was served by the time *)
(* it was asked for, here or by the fetch whose claim is replayed.         *)
(***************************************************************************)
THEOREM NothingIsMissing == Spec => []NothingMissing
  BY Invariance, NothingMissingIs, PTL

(***************************************************************************)
(* A stitched session that is live has told, or holds, every tick since its*)
(* subscription, and has told every earlier one of its backfill that the   *)
(* endpoint served; it tells a tick twice at most, and only one from       *)
(* between the subscription and the edge of the backfill.                  *)
(***************************************************************************)
THEOREM SeamIsComplete == Spec => []SeamComplete
  BY Invariance, SeamCompleteIs, PTL

=============================================================================

------------------------------ MODULE Coverage ------------------------------
(***************************************************************************)
(* The coverage document of the historical cache (storage/coverage.rs):    *)
(* sorted, disjoint, half-open segments <<from, to>> as a sequence, the    *)
(* three queries on it, and the tiling of a request into covered and       *)
(* missing pieces (session.rs, tile).  Pure operators; ReadThrough uses    *)
(* them and compares them with plain set arithmetic.                       *)
(***************************************************************************)
EXTENDS Integers, Sequences, FiniteSets, SequencesExt

(* The ticks of a half-open interval, and of a sequence of them. *)
Span(f, t) == f .. (t - 1)
Spans(segs) == UNION {Span(segs[i][1], segs[i][2]) : i \in DOMAIN segs}

Lower(a, b) == IF a <= b THEN a ELSE b
Upper(a, b) == IF a >= b THEN a ELSE b

(* merge_in: segments that touch or overlap the new one are absorbed.  The *)
(* accumulator is what was pushed so far, the growing segment and whether  *)
(* it has been pushed (consumed).                                          *)
MergeStep(acc, seg) ==
    IF seg[2] < acc.new[1] THEN [acc EXCEPT !.out = Append(@, seg)]
    ELSE IF seg[1] > acc.new[2]
         THEN [acc EXCEPT !.out = Append(IF acc.pushed THEN @ ELSE Append(@, acc.new), seg),
                          !.pushed = TRUE]
         ELSE [acc EXCEPT !.new = <<Lower(@[1], seg[1]), Upper(@[2], seg[2])>>]

merge_in(segs, f, t) ==
    LET end == FoldLeft(MergeStep, [out |-> <<>>, new |-> <<f, t>>, pushed |-> FALSE], segs)
    IN  IF t <= f THEN segs
        ELSE IF end.pushed THEN end.out ELSE Append(end.out, end.new)

(* intersect: the widest overlap of one segment with [f, t), the first of *)
(* equals; <<>> when there is none.                                        *)
IntersectStep(f, t, best, seg) ==
    LET lo == Upper(seg[1], f)
        hi == Lower(seg[2], t)
    IN  IF lo < hi /\ (best = <<>> \/ hi - lo > best[2] - best[1]) THEN <<lo, hi>> ELSE best

intersect(segs, f, t) == FoldLeft(LAMBDA b, s : IntersectStep(f, t, b, s), <<>>, segs)

(* gaps_within: what of [f, t) no segment covers, in order. *)
GapStep(t, acc, seg) ==
    IF seg[2] <= acc.cursor \/ seg[1] >= t \/ acc.cursor >= t THEN acc
    ELSE [gaps |-> IF seg[1] > acc.cursor
                   THEN Append(acc.gaps, <<acc.cursor, Lower(seg[1], t)>>) ELSE acc.gaps,
          cursor |-> Upper(acc.cursor, seg[2])]

gaps_within(segs, f, t) ==
    LET end == FoldLeft(LAMBDA a, s : GapStep(t, a, s), [gaps |-> <<>>, cursor |-> f], segs)
    IN  IF f >= t THEN <<>>
        ELSE IF end.cursor < t THEN Append(end.gaps, <<end.cursor, t>>) ELSE end.gaps

(* tile: the request as an ordered sequence of covered pieces and gaps. *)
Segment(kind, f, t) == [kind |-> kind, from |-> f, to |-> t]
WhenWide(seg) == IF seg.to > seg.from THEN <<seg>> ELSE <<>>

TileStep(acc, gap) ==
    [out |-> acc.out \o WhenWide(Segment("covered", acc.cursor, gap[1]))
                     \o WhenWide(Segment("gap", gap[1], gap[2])),
     cursor |-> Upper(acc.cursor, gap[2])]

tile(f, t, gaps) ==
    LET end == FoldLeft(TileStep, [out |-> <<>>, cursor |-> f], gaps)
    IN  end.out \o WhenWide(Segment("covered", end.cursor, t))

=============================================================================

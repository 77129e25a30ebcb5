------------------------------ MODULE SkipMarkers ------------------------------
(***************************************************************************)
(* The intro (or outro) of one episode as its viewers mark it, and the     *)
(* segment shown to everyone (skip-markers.service.ts, its repository and  *)
(* skip-consensus.util.ts).  A viewer has at most one mark; the rows come  *)
(* in the order of their last update, which decides between groups of the  *)
(* same size.  Edges are whole seconds; medians are given doubled, so that *)
(* the mean of two edges is exact.                                         *)
(***************************************************************************)
EXTENDS Integers, SequencesExt

CONSTANTS
    Viewers,
    Starts, Ends,           \* edges a viewer may mark
    SKIP_MAX_LENGTH_SEC

ASSUME SkipAssumption ==
    Starts \subseteq Nat /\ Ends \subseteq Nat /\ SKIP_MAX_LENGTH_SEC \in Nat

SKIP_MIN_LENGTH_SEC == 3
SKIP_TOLERANCE_SEC == 4
SKIP_MIN_VOTES == 2

VARIABLE marks    \* the rows, the one updated last first

skipVars == <<marks>>

SkipInit == marks = <<>>

Length(start, end) == end - start

\* The rows without the viewer's own.
MarksWithout(v) == RemoveFirstMatch(marks, LAMBDA m : m.by = v)

\* mark: out of range is refused; the viewer's own mark is replaced.
Mark(v, start, end) ==
    /\ Length(start, end) \in SKIP_MIN_LENGTH_SEC..SKIP_MAX_LENGTH_SEC
    /\ marks' = <<[by |-> v, start |-> start, end |-> end]>> \o MarksWithout(v)

Unmark(v) ==
    /\ \E m \in Range(marks) : m.by = v
    /\ marks' = MarksWithout(v)

SkipNext ==
    \E v \in Viewers : Unmark(v) \/ \E start \in Starts, end \in Ends : Mark(v, start, end)

SkipSpec == SkipInit /\ [][SkipNext]_skipVars

-----------------------------------------------------------------------------
(* skipConsensus.                                                          *)

Near(a, b) == a - b \in -SKIP_TOLERANCE_SEC..SKIP_TOLERANCE_SEC

\* Variant: marks agree when one of their edges does.
AgreeSomewhere(m, anchor) == Near(m.start, anchor.start) \/ Near(m.end, anchor.end)

Agree(m, anchor) == Near(m.start, anchor.start) /\ Near(m.end, anchor.end)

Group(anchor) == {m \in Range(marks) : Agree(m, anchor)}

\* The first anchor, in the order of the rows, with a group no other exceeds.
Best ==
    LET sizes == {Cardinality(Group(m)) : m \in Range(marks)}
        first == CHOOSE n \in DOMAIN marks :
                    /\ \A size \in sizes : Cardinality(Group(marks[n])) >= size
                    /\ \A p \in 1..(n - 1) :
                          \E size \in sizes : Cardinality(Group(marks[p])) < size
    IN IF marks = <<>> THEN {} ELSE Group(marks[first])

\* The k-th smallest edge of a group.
Ranked(group, edge, k) ==
    CHOOSE v \in {m[edge] : m \in group} :
        /\ Cardinality({m \in group : m[edge] < v}) < k
        /\ Cardinality({m \in group : m[edge] <= v}) >= k

MedianTwice(group, edge) ==
    LET n == Cardinality(group) IN
    Ranked(group, edge, (n + 1) \div 2) + Ranked(group, edge, n \div 2 + 1)

NoSegment == [votes |-> 0]

Segment ==
    IF Cardinality(Best) < SKIP_MIN_VOTES THEN NoSegment
    ELSE [startTwice |-> MedianTwice(Best, "start"), endTwice |-> MedianTwice(Best, "end"),
          votes |-> Cardinality(Best)]

-----------------------------------------------------------------------------
(* Properties.                                                             *)

SkipTypeOK ==
    /\ \A m \in Range(marks) : m.by \in Viewers /\ m.start \in Starts /\ m.end \in Ends
    /\ IsInjective([n \in DOMAIN marks |-> marks[n].by])

\* What everyone's player skips is backed by the marks: both edges are within
\* the tolerance of the mark of one viewer, as many viewers as are counted for it
\* agree with that mark, and
\* medians taken edge by edge never make it shorter or longer than a mark may be.
SegmentIsBacked ==
    LET s == Segment IN
    s # NoSegment =>
        /\ \E anchor \in Range(marks) :
              /\ s.startTwice - 2 * anchor.start \in -2 * SKIP_TOLERANCE_SEC..2 * SKIP_TOLERANCE_SEC
              /\ s.endTwice - 2 * anchor.end \in -2 * SKIP_TOLERANCE_SEC..2 * SKIP_TOLERANCE_SEC
              /\ Cardinality({m \in Range(marks) : /\ Near(m.start, anchor.start)
                                                   /\ Near(m.end, anchor.end)}) = s.votes
        /\ s.endTwice - s.startTwice >= 2 * SKIP_MIN_LENGTH_SEC
        /\ s.endTwice - s.startTwice <= 2 * SKIP_MAX_LENGTH_SEC
=============================================================================

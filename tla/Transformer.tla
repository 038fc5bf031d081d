------------------------------- MODULE Transformer -------------------------------
(***************************************************************************)
(* The outlier transformer (pkg/transformer/metrics_transformer.go) and    *)
(* the events it reads from a ConfigMap                                    *)
(* (pkg/integration/custom_event_integration.go): data points inside the   *)
(* interval of an event are outliers, replaced by a line between the       *)
(* points around them or, at the ends of the window, removed.              *)
(***************************************************************************)
EXTENDS Integers, Sequences, SequencesExt, Sorting

\* A time of an event that does not parse: formatTime ignores the error, and the
\* zero time becomes one in 1754, before every window.
Unparsable == -1

\* Fault for the mutants: the order of the ConfigMap is kept.
UnsortedIntervals(events) == events

getOutlierIntervals(events) ==
  SliceStable(events, [n \in DOMAIN events |-> events[n].start])

\* Intervals that overlap or touch become one.
Join(intervals, next) ==
  IF intervals # << >> /\ next.start <= Last(intervals).end
  THEN [intervals EXCEPT ![Len(intervals)].end = Max({@, next.end})]
  ELSE Append(intervals, next)

\* Only the intervals that reach into the window count.
filterIntervals(intervals, start, end) ==
  FoldLeft(LAMBDA joined, next :
             IF next.start < end /\ next.end > start THEN Join(joined, next) ELSE joined,
           << >>, intervals)

\* Fault for the mutants: the slope has the wrong sign.
OffLine(a, b, t) == a.value + ((a.value - b.value) * (t - a.time)) \div (b.time - a.time)

\* The value at time t of the line from point a to point b.
OnLine(a, b, t) == a.value + ((b.value - a.value) * (t - a.time)) \div (b.time - a.time)

CleanInterval(points, interval) ==
  LET inside == {i \in DOMAIN points :
                   interval.start < points[i].time /\ points[i].time < interval.end}
      startIndex == Min(inside)
      endIndex == Max(inside)
  IN  IF inside = {} THEN points
      ELSE IF endIndex = Len(points) THEN SubSeq(points, 1, startIndex - 1)
      ELSE IF startIndex = 1 THEN SubSeq(points, endIndex + 1, Len(points))
      ELSE [i \in DOMAIN points |->
              IF i \in inside
              THEN [points[i] EXCEPT
                      !.value = OnLine(points[startIndex - 1], points[endIndex + 1], points[i].time)]
              ELSE points[i]]

cleanOutliersAndInterpolate(points, intervals) == FoldLeft(CleanInterval, points, intervals)

\* Transform for the events in the order in which they were read.
Transformed(events, start, end, points) ==
  cleanOutliersAndInterpolate(
    points, filterIntervals(getOutlierIntervals(events), start, end))

\* The point lies inside an event of the window.
IsOutlier(events, start, end, point) ==
  \E n \in DOMAIN events :
    /\ events[n].start < point.time /\ point.time < events[n].end
    /\ events[n].start < end /\ events[n].end > start

\* Between any two intervals there is a point.
AreSeparated(intervals, points) ==
  \A m, n \in DOMAIN intervals : m < n =>
    \E i \in DOMAIN points : intervals[m].end <= points[i].time /\ points[i].time <= intervals[n].start
================================================================================

------------------------------ MODULE MetricsScraper ------------------------------
(***************************************************************************)
(* The metrics scraper (pkg/metrics/scraper.go): one call that asks every  *)
(* Prometheus instance for the points of a window.  The window is split    *)
(* and every split asked for in a goroutine of its own, so that answers    *)
(* arrive in any order; a split that fails or times out costs the whole    *)
(* instance.  The answers are merged, sorted, aggregated over the          *)
(* instances and, for the utilization, interpolated.                       *)
(*                                                                         *)
(* The window starts at time 0.  Values are integers: they are utilization *)
(* in units so small that the interpolations of a model come out even.     *)
(***************************************************************************)
EXTENDS Integers, Sequences, SequencesExt, Sorting

CONSTANTS
  Instance,       \* the Prometheus instances
  Window,         \* end - start
  Step,           \* metricStep
  SplitInterval,
  Series,         \* what an instance may hold: partial functions from 0..Window
  MaxQueryFaults  \* bound: split queries that fail

ASSUME ScraperAssumption ==
  /\ Instance # {} /\ IsFiniteSet(Instance)
  /\ {Window, Step, SplitInterval} \subseteq Nat \ {0}
  /\ \A s \in Series : DOMAIN s \subseteq 0..Window /\ \A t \in DOMAIN s : s[t] \in Nat
  /\ MaxQueryFaults \in Nat

VARIABLES
  query,      \* the call: the utilization or its breaches
  series,     \* what each instance holds of the window that is asked for
  answers,    \* the splits an instance has answered, in the order of arrival
  results,    \* the instances' results, in the order of arrival
  response,   \* what the call returned
  queryFaults \* what is left of the bound

scraperVars == <<query, series, answers, results, response, queryFaults>>

DataPoint == [time : Nat, value : Nat]

\* The ranges of QueryRangeByInterval; neighbours share their boundary.
SplitRange ==
  {[start |-> s, end |-> Min({s + SplitInterval, Window})] :
     s \in {n \in 0..(Window - 1) : n % SplitInterval = 0}}

NoResponse == [done |-> FALSE, err |-> FALSE, points |-> << >>]

ScraperTypeOK ==
  /\ query \in {"utilization", "breach"}
  /\ series \in [Instance -> Series \cup {<< >>}]
  /\ answers \in [Instance -> Seq([range : SplitRange, err : BOOLEAN])]
  /\ results \in Seq([instance : Instance, points : Seq(DataPoint)])
  /\ response \in [done : BOOLEAN, err : BOOLEAN, points : Seq(DataPoint)]
  /\ queryFaults \in Nat

ScraperInit ==
  /\ query \in {"utilization", "breach"}
  /\ series \in [Instance -> Series]
  /\ answers = [i \in Instance |-> << >>]
  /\ results = << >>
  /\ response = NoResponse
  /\ queryFaults = MaxQueryFaults

--------------------------------------------------------------------------------
(***************************************************************************)
(* One instance.                                                           *)
(***************************************************************************)
\* The times a range is asked for: start, start + step, ...
Asked(range) == {t \in range.start..range.end : (t - range.start) % Step = 0}

\* Prometheus: the points of a range that exist.
QueryRange(s, range) ==
  LET times == Asked(range) \cap DOMAIN s
      Nth(n) == CHOOSE t \in times : Cardinality({u \in times : u <= t}) = n
  IN  [n \in 1..Cardinality(times) |-> [time |-> Nth(n), value |-> s[Nth(n)]]]

Answered(i) == {answers[i][n].range : n \in DOMAIN answers[i]}
Failed(i) == \E n \in DOMAIN answers[i] : answers[i][n].err
Responded == {results[n].instance : n \in DOMAIN results}

Answer(i, range, err) ==
  /\ range \notin Answered(i)
  /\ answers' = [answers EXCEPT ![i] = Append(@, [range |-> range, err |-> err])]
  /\ UNCHANGED <<query, series, results, response>>

AnswerRange(i, range) ==
  /\ Answer(i, range, FALSE)
  /\ UNCHANGED queryFaults

FailRange(i, range) ==
  /\ queryFaults > 0
  /\ Answer(i, range, TRUE)
  /\ queryFaults' = queryFaults - 1

mergeMatrices(matrices) == FlattenSeq(matrices)

\* QueryRangeByInterval: the splits' points in the order of their arrival.
QueryRangeByInterval(i) ==
  mergeMatrices([n \in DOMAIN answers[i] |-> QueryRange(series[i], answers[i][n].range)])

\* Fault for the mutants: the points stay in the order of arrival.
NotSorted(points) == points

Sorted(points) == SliceStable(points, [n \in DOMAIN points |-> points[n].time])

InstanceResult(i, points) == IF Failed(i) THEN << >> ELSE Sorted(points)

Respond(i) ==
  /\ Answered(i) = SplitRange
  /\ i \notin Responded
  /\ \E points \in {QueryRangeByInterval(i)} :
       results' = Append(results, [instance |-> i, points |-> InstanceResult(i, points)])
  /\ UNCHANGED <<query, series, answers, response, queryFaults>>

--------------------------------------------------------------------------------
(***************************************************************************)
(* All instances.                                                          *)
(***************************************************************************)
\* Two sorted lists into one, with the larger value where both have a time.
aggregateMetrics(a, b) ==
  LET merged[index \in (1..(Len(a) + 1)) \X (1..(Len(b) + 1))] ==
        LET i == index[1]
            j == index[2]
        IN  IF i > Len(a) THEN SubSeq(b, j, Len(b))
            ELSE IF j > Len(b) THEN SubSeq(a, i, Len(a))
            ELSE IF a[i].time < b[j].time THEN <<a[i]>> \o merged[<<i + 1, j>>]
            ELSE IF b[j].time < a[i].time THEN <<b[j]>> \o merged[<<i, j + 1>>]
            ELSE <<[time |-> a[i].time, value |-> Max({a[i].value, b[j].value})]>>
                   \o merged[<<i + 1, j + 1>>]
  IN  merged[<<1, 1>>]

Aggregated ==
  FoldLeft(aggregateMetrics, << >>, [n \in DOMAIN results |-> results[n].points])

\* Point i with the points that are missing before it.
Filled(points, i) ==
  LET a == points[i - 1]
      b == points[i]
      missingIntervals == (b.time - a.time) \div Step
  IN  [j \in 1..Max({0, missingIntervals - 1}) |->
         [time |-> a.time + Step * j,
          value |-> a.value + (j * (b.value - a.value)) \div missingIntervals]] \o <<b>>

\* Fault for the mutants: a single missing point is not filled in.
interpolateLongGaps(points) ==
  FlattenSeq([i \in DOMAIN points |->
    IF i > 1 /\ (points[i].time - points[i - 1].time) \div Step > 2
    THEN Filled(points, i) ELSE <<points[i]>>])

interpolateMissingDataPoints(points) ==
  FlattenSeq([i \in DOMAIN points |-> IF i = 1 THEN <<points[i]>> ELSE Filled(points, i)])

AllResponded == Responded = Instance

Return(err, points) == response' = [done |-> TRUE, err |-> err, points |-> points]

GetAverageCPUUtilizationByWorkload ==
  /\ AllResponded
  /\ ~response.done
  /\ query = "utilization"
  /\ IF Aggregated = << >>
     THEN Return(TRUE, << >>)
     ELSE Return(FALSE, interpolateMissingDataPoints(Aggregated))
  /\ UNCHANGED <<query, series, answers, results, queryFaults>>

\* Instances that failed count as instances without a breach.
GetCPUUtilizationBreachDataPoints ==
  /\ AllResponded
  /\ ~response.done
  /\ query = "breach"
  /\ Return(FALSE, Aggregated)
  /\ UNCHANGED <<query, series, answers, results, queryFaults>>

\* The caller takes the response; nothing of the call is left.
ScraperEnds ==
  /\ series' = [i \in Instance |-> << >>]
  /\ answers' = [i \in Instance |-> << >>]
  /\ results' = << >>
  /\ response' = NoResponse
  /\ UNCHANGED <<query, queryFaults>>

ScraperNext ==
  \/ \E i \in Instance :
       \/ \E range \in SplitRange : AnswerRange(i, range) \/ FailRange(i, range)
       \/ Respond(i)
  \/ GetAverageCPUUtilizationByWorkload
  \/ GetCPUUtilizationBreachDataPoints

--------------------------------------------------------------------------------
Times(points) == {points[n].time : n \in DOMAIN points}

IsSortedByTime(points) == \A n \in 2..Len(points) : points[n - 1].time <= points[n].time

\* The instances that answered all their splits.
Healthy == {i \in Instance : ~Failed(i)}

\* Whatever the order in which splits and instances answer and whichever fail,
\* the aggregate is sorted, has a time exactly if a healthy instance has a point
\* there, once for each split that asks for it, and with the largest value of the
\* healthy instances (scraper.go:208-257, 267-299, 394-479).
AggregatesMaximum ==
  AllResponded =>
    LET points == Aggregated
    IN  /\ IsSortedByTime(points)
        /\ \A t \in 0..Window :
             LET known == {series[i][t] : i \in {h \in Healthy : t \in DOMAIN series[h]}}
                 asking == {range \in SplitRange : t \in Asked(range)}
                 found == {n \in DOMAIN points : points[n].time = t}
             IN  /\ Cardinality(found) = IF known = {} THEN 0 ELSE Cardinality(asking)
                 /\ \A n \in found : points[n].value = Max(known)

\* The utilization that is returned has no gaps: from its first point to its last
\* no two neighbours are two steps apart, the points that were fetched are all
\* there, and every filled-in value lies between its neighbours' (scraper.go:517-546).
HasNoGaps ==
  response.done /\ query = "utilization" /\ ~response.err =>
    LET points == response.points
        fetched == Aggregated
    IN  /\ IsSortedByTime(points)
        /\ \A n \in 2..Len(points) : points[n].time - points[n - 1].time < 2 * Step
        /\ \A n \in DOMAIN fetched : \E m \in DOMAIN points : points[m] = fetched[n]
        /\ \A n \in DOMAIN points : points[n].time \in Times(fetched) \/
             \E a, b \in DOMAIN fetched :
               /\ fetched[a].time < points[n].time /\ points[n].time < fetched[b].time
               /\ points[n].value <= Max({fetched[a].value, fetched[b].value})
               /\ points[n].value >= Min({fetched[a].value, fetched[b].value})
================================================================================

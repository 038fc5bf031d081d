------------------------------ MODULE HPASimulation ------------------------------
(***************************************************************************)
(* The simulation of an HPA over the data points of a window               *)
(* (pkg/reco/reco.go, simulateHPA and what is read off its result).        *)
(*                                                                         *)
(* Resources are integers and percentages are taken of integers, so that   *)
(* ceilings and comparisons are those of exact arithmetic; the rounding of *)
(* floating-point numbers is left out.  Simulated resources are counted in *)
(* replicas, as all of them are multiples of perPodResources.              *)
(***************************************************************************)
EXTENDS Integers, Sequences, SequencesExt

CeilDiv(a, b) == (a + b - 1) \div b

\* The target with the tolerance of the HPA, 10% more.
Tolerated(target) == (target * 11) \div 10

\* The replicas at which the load is at the target.
Wanted(value, target, perPodResources) ==
  CeilDiv(100 * value, Tolerated(target) * perPodResources)

Clamped(replicas, minReplicas, maxReplicas) ==
  Min({maxReplicas, Max({minReplicas, replicas})})

\* Replicas that were asked for and become ready later.
Pending(timers) == FoldLeft(LAMBDA n, timer : n + timer.delta, 0, timers)

\* The timers at the head of the list that are due.
Due(timers, now) ==
  Max({0} \cup {n \in DOMAIN timers : \A m \in 1..n : timers[m].time <= now})

\* One data point: timers that are due run off, then the HPA scales; up takes the
\* autoscaling cycle lag, down is at once and forgets what is pending.
Simulate(state, point, acl, wanted, minReplicas, maxReplicas) ==
  LET due == Due(state.timers, point.time)
      ready == state.ready + Pending(SubSeq(state.timers, 1, due))
      timers == SubSeq(state.timers, due + 1, Len(state.timers))
      newReplicas == Clamped(wanted, minReplicas, maxReplicas)
      delta == newReplicas - ready - Pending(timers)
      nowReady == Min({ready, newReplicas})
  IN  [ready |-> nowReady,
       timers |-> IF newReplicas <= ready THEN << >>
                  ELSE IF delta <= 0 THEN timers
                  ELSE Append(timers, [time |-> point.time + acl, delta |-> delta]),
       calculatedMin |-> Min({state.calculatedMin, wanted}),
       simulated |-> Append(state.simulated, nowReady)]

\* The ready replicas at every data point, and the fewest that were wanted.  The
\* set of one element makes TLC evaluate the state before a point only once.
simulateHPA(dataPoints, acl, target, perPodResources, maxReplicas, minReplicas) ==
  LET WantedAt(point) == Wanted(point.value, target, perPodResources)
      OnePoint(state, point) ==
        CHOOSE next \in {Simulate(s, point, acl, WantedAt(point), minReplicas, maxReplicas) :
                           s \in {state}} : TRUE
      replicas == Clamped(WantedAt(dataPoints[1]), minReplicas, maxReplicas)
  IN  IF dataPoints = << >> THEN [simulated |-> << >>, calculatedMin |-> 0]
      ELSE FoldLeft(OnePoint,
                    [ready |-> replicas, timers |-> << >>,
                     calculatedMin |-> WantedAt(dataPoints[1]), simulated |-> <<replicas>>],
                    Tail(dataPoints))

IsInvalidTarget(dataPoints, target) ==
  dataPoints # << >> /\ (Tolerated(target) < 1 \/ Tolerated(target) > 100)

\* redLine is the part of a replica's resources, in percent, that may be used.
hasNoBreachOccurred(dataPoints, simulated, redLine) ==
  \A n \in DOMAIN dataPoints : 100 * dataPoints[n].value <= simulated[n] * redLine

\* calculateSavings divides the sum by what is the same for all candidates.
calculateSavings(maxReplicas, simulated) ==
  FoldLeft(LAMBDA sum, replicas : sum + (maxReplicas - replicas), 0, simulated)
================================================================================

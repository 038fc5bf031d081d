-------------------------------- MODULE Recommender --------------------------------
(***************************************************************************)
(* The recommender (pkg/reco/reco.go): one call of Recommend, from the     *)
(* scraper's query over the transformer to the search for the HPA target   *)
(* and minimum that save most and would not have breached the red line in  *)
(* the window.                                                             *)
(***************************************************************************)
EXTENDS MetricsScraper, Transformer, HPASimulation

CONSTANTS
  Config,        \* the configurations of the recommender
  Workload,      \* the workloads asked about
  MetricLag,     \* metricIngestionTime + metricProbeTime
  Events,        \* the sets of events the ConfigMap may hold
  MaxCallFaults  \* bound: other calls that fail

ASSUME RecommenderAssumption ==
  /\ Config \subseteq [minTarget : Nat, maxTarget : Nat, redLineUtil : Nat, threshold : Nat]
  /\ \A c \in Config : c.minTarget <= c.maxTarget
  /\ \A w \in Workload :
       /\ w.perPodResources \in Nat \ {0}
       /\ w.annotated \in BOOLEAN
       /\ {w.annotation, w.autoscalerMax, w.replicas} \subseteq Nat
       /\ w.readyLatency \in [Instance -> Nat]
  /\ MetricLag \in Nat
  /\ \A events \in Events : IsFiniteSet(events) /\ events \subseteq [start : Int, end : Int]
  /\ MaxCallFaults \in Nat

VARIABLES
  config,     \* the configuration
  workload,   \* the workload: its limits, replicas, annotation, autoscaler and lag
  pc,         \* where Recommend is
  dataPoints, \* the data points, as scraped and then transformed
  maxReplicas,
  acl,        \* the autoscaling cycle lag
  search,     \* the variables of findOptimalHPAConfigurations
  answer,     \* the HPAConfiguration returned
  callFaults  \* what is left of the bound

recommenderVars ==
  <<config, workload, pc, dataPoints, maxReplicas, acl, search, answer,
    callFaults>>
vars == <<scraperVars, recommenderVars>>

\* Fault for the mutants: the search starts with no replica.
NewSearchFromZero ==
  [minReplicas |-> 0, low |-> config.minTarget, high |-> config.maxTarget,
   calculatedMin |-> 0, simulated |-> << >>,
   optimalTarget |-> 0, optimalMin |-> 0, savings |-> 0]

NewSearch ==
  [minReplicas |-> 1, low |-> config.minTarget, high |-> config.maxTarget,
   calculatedMin |-> 0, simulated |-> << >>,
   optimalTarget |-> 0, optimalMin |-> 0, savings |-> 0]

NoAnswer == [Min |-> 0, Max |-> 0, TargetMetricValue |-> 0]

Init ==
  /\ ScraperInit
  /\ config \in Config
  /\ workload \in Workload
  /\ pc = "scrape"
  /\ dataPoints = << >>
  /\ maxReplicas = 0
  /\ acl = 0
  /\ search = NewSearch
  /\ answer = NoAnswer
  /\ callFaults = MaxCallFaults

TypeOK ==
  /\ ScraperTypeOK
  /\ config \in Config /\ workload \in Workload
  /\ pc \in {"scrape", "maxPods", "threshold", "transform", "acl", "limits", "search",
             "answered", "failed"}
  /\ dataPoints \in Seq(DataPoint)
  /\ {maxReplicas, acl} \subseteq Nat
  /\ search \in [minReplicas : Nat, low : Nat, high : Int, calculatedMin : Nat,
                 simulated : Seq(Nat), optimalTarget : Nat, optimalMin : Nat, savings : Nat]
  /\ answer \in [Min : Nat, Max : Nat, TargetMetricValue : Nat]
  /\ callFaults \in Nat

--------------------------------------------------------------------------------
\* The simulation of a target and a minimum over the window, and whether it breaches.
Simulation(target, minReplicas) ==
  simulateHPA(dataPoints, acl, target, workload.perPodResources, maxReplicas, minReplicas)

NoBreach(simulated) ==
  hasNoBreachOccurred(dataPoints, simulated, workload.perPodResources * config.redLineUtil)

\* A target and a minimum that would not have breached in the window.
Safe(target, minReplicas) == NoBreach(Simulation(target, minReplicas).simulated)

--------------------------------------------------------------------------------
(***************************************************************************)
(* findOptimalHPAConfigurations: for every minimum a binary search for the *)
(* largest target without a breach.                                        *)
(***************************************************************************)
Searching == search.low <= search.high
Mid == search.low + (search.high - search.low) \div 2

\* Fault for the mutants: without a breach the range keeps its lower end.
NarrowedTooLittle(simulation) ==
  [search EXCEPT
     !.low = IF NoBreach(simulation.simulated) THEN Mid ELSE @,
     !.high = IF NoBreach(simulation.simulated) THEN @ ELSE Mid - 1,
     !.calculatedMin = simulation.calculatedMin,
     !.simulated = simulation.simulated]

\* Fault for the mutants: a breach also drops the target below.
NarrowedTooMuch(simulation) ==
  [search EXCEPT
     !.low = IF NoBreach(simulation.simulated) THEN Mid + 1 ELSE @,
     !.high = IF NoBreach(simulation.simulated) THEN @ ELSE Mid - 2,
     !.calculatedMin = simulation.calculatedMin,
     !.simulated = simulation.simulated]

Narrowed(simulation) ==
  [search EXCEPT
     !.low = IF NoBreach(simulation.simulated) THEN Mid + 1 ELSE @,
     !.high = IF NoBreach(simulation.simulated) THEN @ ELSE Mid - 1,
     !.calculatedMin = simulation.calculatedMin,
     !.simulated = simulation.simulated]

\* The candidate of this minimum, with the simulation that came last, not the one
\* of the target that was found.
IsCandidate ==
  /\ search.high >= config.minTarget
  /\ search.calculatedMin <= search.minReplicas
  /\ search.simulated # << >>
  /\ calculateSavings(maxReplicas, search.simulated) >= search.savings

\* The search for the next minimum.
Restarted(s) ==
  [s EXCEPT !.minReplicas = @ + 1, !.low = config.minTarget, !.high = config.maxTarget,
            !.calculatedMin = 0, !.simulated = << >>]

\* Fault for the mutants: the candidate is the target after the one that was found.
ChosenTooFar ==
  IF IsCandidate
  THEN [search EXCEPT !.optimalTarget = Min({search.low, config.maxTarget}),
                      !.optimalMin = search.minReplicas,
                      !.savings = calculateSavings(maxReplicas, search.simulated)]
  ELSE search

Chosen ==
  IF IsCandidate
  THEN [search EXCEPT !.optimalTarget = search.high, !.optimalMin = search.minReplicas,
                      !.savings = calculateSavings(maxReplicas, search.simulated)]
  ELSE search

\* No candidate, or none that saves anything.
IsUnable == search.optimalTarget < config.minTarget \/ search.savings = 0

--------------------------------------------------------------------------------
(***************************************************************************)
(* The steps of Recommend.                                                 *)
(***************************************************************************)
At(place) == pc = place
Goto(place) == pc' = place

CallFails ==
  /\ callFaults > 0
  /\ callFaults' = callFaults - 1
  /\ Goto("failed")

NoOperation ==
  [Min |-> maxReplicas, Max |-> maxReplicas, TargetMetricValue |-> config.minTarget]

Scrape ==
  /\ At("scrape")
  /\ ScraperNext
  /\ UNCHANGED recommenderVars

Scraped ==
  /\ At("scrape")
  /\ response.done
  /\ query = "utilization"
  /\ IF response.err
     THEN Goto("failed") /\ UNCHANGED dataPoints
     ELSE Goto("maxPods") /\ dataPoints' = response.points
  /\ ScraperEnds
  /\ UNCHANGED <<config, workload, maxReplicas, acl, search, answer, callFaults>>

\* The maximum of an autoscaler, else the replicas.
Unannotated == IF workload.autoscalerMax # 0 THEN workload.autoscalerMax ELSE workload.replicas

\* The annotation comes first, also when it holds zero.
MaxPods == IF workload.annotated THEN workload.annotation ELSE Unannotated

getMaxPods ==
  /\ At("maxPods")
  /\ maxReplicas' = MaxPods
  /\ Goto("threshold")
  /\ UNCHANGED <<scraperVars, config, workload, dataPoints, acl, search, answer, callFaults>>

\* An error of reading the annotation is taken for its absence.
AnnotationUnread ==
  /\ At("maxPods")
  /\ workload.annotated
  /\ callFaults > 0
  /\ callFaults' = callFaults - 1
  /\ maxReplicas' = Unannotated
  /\ Goto("threshold")
  /\ UNCHANGED <<scraperVars, config, workload, dataPoints, acl, search, answer>>

\* An error of reading the autoscalers or the replicas is returned.
getMaxPodsFails ==
  /\ At("maxPods")
  /\ ~workload.annotated
  /\ CallFails
  /\ UNCHANGED <<scraperVars, config, workload, dataPoints, maxReplicas, acl, search, answer>>

isMetricsAboveThreshold ==
  (100 * Len(dataPoints)) \div (Window \div Step) >= config.threshold

CheckThreshold ==
  /\ At("threshold")
  /\ IF isMetricsAboveThreshold
     THEN Goto("transform") /\ UNCHANGED answer
     ELSE Goto("answered") /\ answer' = NoOperation
  /\ UNCHANGED <<scraperVars, config, workload, dataPoints, maxReplicas, acl, search, callFaults>>

\* The ConfigMap is a map: its entries come in any order.
Transform ==
  /\ At("transform")
  /\ \E events \in Events : \E order \in SetToSeqs(events) :
       dataPoints' = Transformed(order, 0, Window, dataPoints)
  /\ Goto("acl")
  /\ UNCHANGED <<scraperVars, config, workload, maxReplicas, acl, search, answer, callFaults>>

TransformFails ==
  /\ At("transform")
  /\ CallFails
  /\ UNCHANGED <<scraperVars, config, workload, dataPoints, maxReplicas, acl, search, answer>>

\* The longest of what the instances that answer have seen; 0 if none has.
PodReadyLatency(answering) == Max({0} \cup {workload.readyLatency[i] : i \in answering})

GetACLByWorkload ==
  /\ At("acl")
  /\ \E failing \in SUBSET Instance :
       /\ Cardinality(failing) <= callFaults
       /\ callFaults' = callFaults - Cardinality(failing)
       /\ LET latency == PodReadyLatency(Instance \ failing)
          IN  IF latency = 0
              THEN Goto("failed") /\ UNCHANGED acl
              ELSE Goto("limits") /\ acl' = MetricLag + latency
  /\ UNCHANGED <<scraperVars, config, workload, dataPoints, maxReplicas, search, answer>>

getContainerCPULimitsSum ==
  /\ At("limits")
  /\ search' = NewSearch
  /\ Goto("search")
  /\ UNCHANGED <<scraperVars, config, workload, dataPoints, maxReplicas, acl, answer, callFaults>>

CPULimitsFail ==
  /\ At("limits")
  /\ CallFails
  /\ UNCHANGED <<scraperVars, config, workload, dataPoints, maxReplicas, acl, search, answer>>

SimulateMid ==
  /\ At("search")
  /\ search.minReplicas <= maxReplicas
  /\ Searching
  /\ IF IsInvalidTarget(dataPoints, Mid)
     THEN Goto("failed") /\ UNCHANGED search
     ELSE /\ \E simulation \in {Simulation(Mid, search.minReplicas)} :
               search' = Narrowed(simulation)
          /\ UNCHANGED pc
  /\ UNCHANGED <<scraperVars, config, workload, dataPoints, maxReplicas, acl, answer, callFaults>>

NextMinimum ==
  /\ At("search")
  /\ search.minReplicas <= maxReplicas
  /\ ~Searching
  /\ search' = Restarted(Chosen)
  /\ UNCHANGED <<scraperVars, config, workload, pc, dataPoints, maxReplicas, acl, answer,
                 callFaults>>

Recommend ==
  /\ At("search")
  /\ search.minReplicas > maxReplicas
  /\ answer' = IF IsUnable THEN NoOperation
               ELSE [Min |-> search.optimalMin, Max |-> maxReplicas,
                     TargetMetricValue |-> search.optimalTarget]
  /\ Goto("answered")
  /\ UNCHANGED <<scraperVars, config, workload, dataPoints, maxReplicas, acl, search, callFaults>>

Next ==
  \/ Scrape
  \/ Scraped
  \/ getMaxPods
  \/ AnnotationUnread
  \/ getMaxPodsFails
  \/ CheckThreshold
  \/ Transform
  \/ TransformFails
  \/ GetACLByWorkload
  \/ getContainerCPULimitsSum
  \/ CPULimitsFail
  \/ SimulateMid
  \/ NextMinimum
  \/ Recommend

Spec == Init /\ [][Next]_vars

\* Every query ends, at the latest with its timeout; the rest is computation.
FairSpec == Spec /\ WF_vars(Next)

--------------------------------------------------------------------------------
Ended == pc \in {"answered", "failed"} \/ (query = "breach" /\ response.done)

\* A recommendation that was searched for, other than "no operation".
IsFound ==
  pc = "answered" /\ search.minReplicas > maxReplicas /\ ~IsUnable

\* An HPA with the recommended target and minimum would not have breached the red
\* line at any point of the window: the target is one that was simulated, although
\* the search goes on past it (reco.go:262-293).
NeverBreaches ==
  IsFound => Safe(answer.TargetMetricValue, answer.Min)

\* The recommended target is not too cautious: the next one, with the same minimum,
\* would have breached, unless it is beyond the configured ones (reco.go:267-282;
\* reco_test.go, "should return the optimal target utilization").
TargetIsMaximal ==
  IsFound => \/ answer.TargetMetricValue = config.maxTarget
             \/ ~Safe(answer.TargetMetricValue + 1, answer.Min)

\* A recommendation is one the workflow may work with: its minimum is at most its
\* maximum and at least one, unless the workload is scaled to zero, and its target
\* within the configured ones; that is what the model of the reconciler assumes of
\* it.  Without a fault the maximum is the annotation's, if there is one
\* (reco.go:122, 155, 161, 332-349).
WithinLimits ==
  pc = "answered" =>
    /\ answer.Min <= answer.Max
    /\ answer.Max > 0 => answer.Min > 0
    /\ answer.Max = MaxPods \/ callFaults < MaxCallFaults
    /\ config.minTarget <= answer.TargetMetricValue
    /\ answer.TargetMetricValue <= config.maxTarget

\* What happens inside an event does not count: with other values there, the
\* transformer makes the same points of it, as long as a point lies between any two
\* intervals; without one, the line across an interval starts at an outlier of the
\* other (metrics_transformer.go:45-131).
OutliersAreInvisible ==
  pc = "transform" =>
    \A events \in Events : \A order \in SetToSeqs(events), value \in {0, 1000} :
      AreSeparated(filterIntervals(getOutlierIntervals(order), 0, Window), dataPoints) =>
        Transformed(order, 0, Window, dataPoints) =
          Transformed(order, 0, Window,
            [n \in DOMAIN dataPoints |->
               IF IsOutlier(order, 0, Window, dataPoints[n])
               THEN [dataPoints[n] EXCEPT !.value = value] ELSE dataPoints[n]])

\* Every call ends: the loops over minima and targets come to an end
\* (reco.go:262-293).
RecommendEnds == <>Ended
================================================================================

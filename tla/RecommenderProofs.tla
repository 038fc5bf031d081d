--------------------------- MODULE RecommenderProofs ---------------------------
(***************************************************************************)
(* The search of the recommender is right whatever the simulation of an    *)
(* HPA computes and whatever the scraper and the transformer deliver: its  *)
(* invariant knows simulateHPA only by its name.  What they do compute     *)
(* comes after it: the scraper's results, the transformer, and the types   *)
(* of all of them.                                                         *)
(***************************************************************************)
EXTENDS Recommender, ScraperProofs, FiniteSetTheorems, TLAPS

Place == {"scrape", "maxPods", "threshold", "transform", "acl", "limits", "search",
          "answered", "failed"}

\* The fields that hold results of a simulation are not typed.
SearchOf(s) ==
  [minReplicas : Nat \ {0}, low : Nat, high : Int, optimalTarget : Int, optimalMin : Nat,
   calculatedMin : {s.calculatedMin}, simulated : {s.simulated}, savings : {s.savings}]

Search == SearchOf(search)

\* The binary search: all that is left of the range is low..high; the target below
\* it, if there is one, is safe and the target above it is not.
RangeInv ==
  /\ config.minTarget <= search.low
  /\ search.low <= search.high + 1
  /\ search.high <= config.maxTarget
  /\ search.low > config.minTarget => Safe(search.low - 1, search.minReplicas)
  /\ search.high < config.maxTarget => ~Safe(search.high + 1, search.minReplicas)

\* The best candidate so far, if there is one, can be recommended.
CandidateInv ==
  search.savings # 0 =>
    /\ search.optimalTarget \in config.minTarget..config.maxTarget
    /\ search.optimalMin \in 1..maxReplicas
    /\ Safe(search.optimalTarget, search.optimalMin)
    /\ \/ search.optimalTarget = config.maxTarget
       \/ ~Safe(search.optimalTarget + 1, search.optimalMin)

Recommended ==
  IF IsUnable THEN NoOperation
  ELSE [Min |-> search.optimalMin, Max |-> maxReplicas,
        TargetMetricValue |-> search.optimalTarget]

InputInv ==
  /\ config \in Config
  /\ workload \in Workload
  /\ pc \in Place
  /\ maxReplicas \in Nat
  /\ callFaults \in Nat
  /\ callFaults <= MaxCallFaults
  /\ pc \notin {"scrape", "maxPods", "failed"} =>
       maxReplicas = MaxPods \/ callFaults < MaxCallFaults

SearchInv == search \in Search /\ RangeInv /\ CandidateInv

IInv ==
  /\ InputInv
  /\ SearchInv
  /\ pc \notin {"search", "answered", "failed"} => search = NewSearch
  /\ pc = "answered" => answer = Recommended

--------------------------------------------------------------------------------
\* Whether a target is safe depends on what Recommend has read before the search.
LEMMA SafeLemma ==
  ASSUME UNCHANGED <<config, workload, dataPoints, maxReplicas, acl>>
  PROVE  \A target, minReplicas : Safe(target, minReplicas)' = Safe(target, minReplicas)
BY DEF Safe, NoBreach, Simulation

\* The limits of a configuration and of a workload.
LEMMA InputLemma ==
  ASSUME config \in Config, workload \in Workload
  PROVE  /\ config.minTarget \in Nat /\ config.maxTarget \in Nat
         /\ config.minTarget <= config.maxTarget
         /\ MaxPods \in Nat /\ Unannotated \in Nat
BY RecommenderAssumption DEF MaxPods, Unannotated

\* A search that has not begun satisfies SearchInv, whatever the data points are.
LEMMA NewSearchLemma ==
  config \in Config /\ workload \in Workload /\ search = NewSearch => SearchInv
<1> SUFFICES ASSUME config \in Config, workload \in Workload, search = NewSearch
             PROVE  SearchInv
  OBVIOUS
<1>1. config.minTarget \in Nat /\ config.maxTarget \in Nat
  BY InputLemma
<1>2. search \in Search /\ search.savings = 0
  BY <1>1 DEF Search, SearchOf, NewSearch
<1>3. RangeInv
  BY <1>1, InputLemma DEF RangeInv, NewSearch
<1>4. QED
  BY <1>2, <1>3 DEF SearchInv, CandidateInv

\* A step that leaves the search and all it depends on alone.
LEMMA SameSearchLemma ==
  ASSUME SearchInv, UNCHANGED <<config, workload, dataPoints, maxReplicas, acl, search>>
  PROVE  SearchInv'
BY SafeLemma DEF SearchInv, Search, RangeInv, CandidateInv

\* The middle of a range that is not empty.
LEMMA MidLemma ==
  ASSUME search.low \in Nat, search.high \in Int, Searching
  PROVE  Mid \in search.low..search.high
BY DEF Mid, Searching

\* What the choice of a candidate does to the fields of the search.
LEMMA ChosenFields ==
  ASSUME search \in Search, NEW s, s = Chosen
  PROVE  /\ s \in SearchOf(s)
         /\ s.minReplicas = search.minReplicas
         /\ IsCandidate => /\ s.optimalTarget = search.high
                           /\ s.optimalMin = search.minReplicas
         /\ ~IsCandidate => s = search
<1>1. CASE IsCandidate
  <2>1. s = [search EXCEPT !.optimalTarget = search.high, !.optimalMin = search.minReplicas,
                           !.savings = calculateSavings(maxReplicas, search.simulated)]
    BY <1>1 DEF Chosen
  <2>2. QED
    BY <1>1, <2>1 DEF Search, SearchOf
<1>2. CASE ~IsCandidate
  BY <1>2 DEF Chosen, Search
<1>3. QED
  BY <1>1, <1>2

\* A simulation narrows the range to the side on which the target is still to be
\* found; a safe target becomes the one below the range.
LEMMA NarrowLemma ==
  ASSUME InputInv, SearchInv, Searching,
         search' = Narrowed(Simulation(Mid, search.minReplicas)),
         UNCHANGED <<config, workload, dataPoints, maxReplicas, acl>>
  PROVE  SearchInv'
<1> DEFINE simulation == Simulation(Mid, search.minReplicas)
           low == IF Safe(Mid, search.minReplicas) THEN Mid + 1 ELSE search.low
           high == IF Safe(Mid, search.minReplicas) THEN search.high ELSE Mid - 1
           calculatedMin == simulation.calculatedMin
           simulated == simulation.simulated
<1>1. config.minTarget \in Nat /\ config.maxTarget \in Nat
  BY InputLemma DEF InputInv
<1>2. search \in Search /\ RangeInv /\ CandidateInv
  BY DEF SearchInv
<1>3. Mid \in search.low..search.high /\ search.low \in Nat /\ search.high \in Int
  BY <1>2, MidLemma DEF Search, SearchOf
<1>4. NoBreach(simulation.simulated) <=> Safe(Mid, search.minReplicas)
  BY DEF Safe
<1>5. /\ search' \in Search'
      /\ search'.low = low /\ search'.high = high
      /\ search'.minReplicas = search.minReplicas
      /\ search'.optimalTarget = search.optimalTarget
      /\ search'.optimalMin = search.optimalMin
      /\ search'.savings = search.savings
  <2>1. low \in Nat /\ high \in Int
    BY <1>3
  <2>2. search' = [search EXCEPT !.low = low, !.high = high,
                                 !.calculatedMin = calculatedMin, !.simulated = simulated]
    BY Zenon DEF Narrowed, Safe
  <2> HIDE DEF low, high, calculatedMin, simulated
  <2>3. QED
    BY <1>2, <2>1, <2>2 DEF Search, SearchOf
<1>6. CandidateInv'
  BY <1>2, <1>5, SafeLemma DEF CandidateInv
<1>7. RangeInv'
  <2>1. CASE Safe(Mid, search.minReplicas)
    <3>1. Mid = search'.low - 1 /\ search'.high = search.high
      BY <1>3, <1>5, <2>1
    <3>2. Safe(search.low - 1, search.minReplicas)'
      BY <1>5, <2>1, <3>1, SafeLemma
    <3>3. (search.high < config.maxTarget => ~Safe(search.high + 1, search.minReplicas))'
      BY <1>2, <1>5, <3>1, SafeLemma DEF RangeInv
    <3>4. QED
      BY <1>1, <1>2, <1>3, <1>5, <2>1, <3>2, <3>3 DEF RangeInv
  <2>2. CASE ~Safe(Mid, search.minReplicas)
    <3>1. Mid = search'.high + 1 /\ search'.low = search.low
      BY <1>3, <1>5, <2>2
    <3>2. ~Safe(search.high + 1, search.minReplicas)'
      BY <1>5, <2>2, <3>1, SafeLemma
    <3>3. (search.low > config.minTarget => Safe(search.low - 1, search.minReplicas))'
      BY <1>2, <1>5, <3>1, SafeLemma DEF RangeInv
    <3>4. QED
      BY <1>1, <1>2, <1>3, <1>5, <2>2, <3>2, <3>3 DEF RangeInv
  <2>3. QED
    BY <2>1, <2>2
<1>8. QED
  BY <1>5, <1>6, <1>7 DEF SearchInv

\* At the end of a binary search its upper end is the target below the range: a
\* candidate is safe.
LEMMA ChooseLemma ==
  ASSUME InputInv, SearchInv, ~Searching, search.minReplicas <= maxReplicas,
         search' = Restarted(Chosen),
         UNCHANGED <<config, workload, dataPoints, maxReplicas, acl>>
  PROVE  SearchInv'
<1>1. /\ config.minTarget \in Nat /\ config.maxTarget \in Nat
      /\ config.minTarget <= config.maxTarget /\ maxReplicas \in Nat
  BY InputLemma DEF InputInv
<1>2. search \in Search /\ RangeInv /\ CandidateInv
  BY DEF SearchInv
<1> DEFINE chosen == Chosen
<1>3. /\ chosen \in SearchOf(chosen)
      /\ chosen.minReplicas = search.minReplicas
      /\ IsCandidate => /\ chosen.optimalTarget = search.high
                        /\ chosen.optimalMin = search.minReplicas
      /\ ~IsCandidate => chosen = search
  BY <1>2, ChosenFields
<1> HIDE DEF chosen
<1>4. /\ search' \in Search'
      /\ search'.low = config.minTarget /\ search'.high = config.maxTarget
      /\ search'.optimalTarget = chosen.optimalTarget
      /\ search'.optimalMin = chosen.optimalMin
      /\ search'.savings = chosen.savings
  <2> DEFINE minReplicas == chosen.minReplicas + 1
             calculatedMin == 0
             simulated == << >>
  <2>1. search' = [chosen EXCEPT !.minReplicas = minReplicas, !.low = config.minTarget,
                                 !.high = config.maxTarget,
                                 !.calculatedMin = calculatedMin, !.simulated = simulated]
    BY DEF chosen, Restarted
  <2>2. minReplicas \in Nat \ {0}
    BY <1>3 DEF SearchOf
  <2> HIDE DEF minReplicas, calculatedMin, simulated
  <2>3. /\ search'.low = config.minTarget /\ search'.high = config.maxTarget
        /\ search'.optimalTarget = chosen.optimalTarget
        /\ search'.optimalMin = chosen.optimalMin
        /\ search'.savings = chosen.savings
    BY <1>3, <2>1 DEF SearchOf
  <2>4. search' \in Search'
    <3>1. chosen.optimalTarget \in Int /\ chosen.optimalMin \in Nat
      BY <1>3 DEF SearchOf
    <3>2. search' = [minReplicas |-> minReplicas, low |-> config.minTarget,
                     high |-> config.maxTarget, optimalTarget |-> chosen.optimalTarget,
                     optimalMin |-> chosen.optimalMin, calculatedMin |-> calculatedMin,
                     simulated |-> simulated, savings |-> chosen.savings]
      BY <1>3, <2>1 DEF SearchOf
    <3>3. QED
      BY <1>1, <2>2, <3>1, <3>2 DEF Search, SearchOf
  <2>5. QED
    BY <2>3, <2>4
<1>5. RangeInv'
  BY <1>1, <1>4 DEF RangeInv
<1>6. CandidateInv'
  <2>1. CASE IsCandidate
    <3>1. search'.optimalTarget = search.high /\ search'.optimalMin = search.minReplicas
      BY <1>3, <1>4, <2>1
    <3>2. search.high >= config.minTarget /\ search.low = search.high + 1
      BY <1>1, <1>2, <2>1 DEF IsCandidate, RangeInv, Searching, Search, SearchOf
    <3>3. search.low > config.minTarget /\ search.low - 1 = search.high
      BY <1>1, <1>2, <3>2 DEF Search, SearchOf
    <3>4. Safe(search.high, search.minReplicas)
      BY <1>2, <3>3 DEF RangeInv
    <3>5. search.high \in config.minTarget..config.maxTarget
      BY <1>1, <1>2, <3>2 DEF RangeInv, Search, SearchOf
    <3>6. search.minReplicas \in 1..maxReplicas
      BY <1>1, <1>2 DEF Search, SearchOf
    <3>7. search.high = config.maxTarget \/ ~Safe(search.high + 1, search.minReplicas)
      BY <1>1, <1>2, <3>5 DEF RangeInv
    <3>8. QED
      BY <3>1, <3>4, <3>5, <3>6, <3>7, SafeLemma DEF CandidateInv
  <2>2. CASE ~IsCandidate
    <3>1. /\ search'.optimalTarget = search.optimalTarget
          /\ search'.optimalMin = search.optimalMin
          /\ search'.savings = search.savings
      BY <1>3, <1>4, <2>2
    <3>2. QED
      BY <1>2, <3>1, SafeLemma DEF CandidateInv
  <2>3. QED
    BY <2>1, <2>2
<1>7. QED
  BY <1>4, <1>5, <1>6 DEF SearchInv

--------------------------------------------------------------------------------
LEMMA InitLemma == Init => IInv
<1> SUFFICES ASSUME Init PROVE IInv
  OBVIOUS
<1>1. InputInv
  BY RecommenderAssumption DEF Init, InputInv, Place
<1>2. search = NewSearch /\ config \in Config /\ workload \in Workload
  BY DEF Init
<1>3. SearchInv
  BY <1>2, NewSearchLemma
<1>4. QED
  BY <1>1, <1>2, <1>3 DEF IInv, Init

\* The steps before the search: what it starts from is fixed here.
Before ==
  \/ Scrape \/ Scraped \/ getMaxPods \/ AnnotationUnread \/ CheckThreshold
  \/ Transform \/ GetACLByWorkload \/ getContainerCPULimitsSum
  \/ getMaxPodsFails \/ TransformFails \/ CPULimitsFail

LEMMA BeforeLemma ==
  ASSUME IInv, Before
  PROVE  IInv'
<1> USE DEF At, Goto
<1>1. config \in Config /\ workload \in Workload /\ InputInv
  BY DEF IInv, InputInv
<1>2. pc \notin {"search", "answered", "failed"} /\ search = NewSearch
  BY DEF Before, IInv, Scrape, Scraped, getMaxPods, AnnotationUnread, CheckThreshold,
     Transform, GetACLByWorkload, getContainerCPULimitsSum, getMaxPodsFails,
     TransformFails, CPULimitsFail
<1>3. UNCHANGED <<config, workload, search>>
  BY <1>2 DEF Before, Scrape, Scraped, getMaxPods, AnnotationUnread, CheckThreshold,
     Transform, GetACLByWorkload, getContainerCPULimitsSum, getMaxPodsFails,
     TransformFails, CPULimitsFail, recommenderVars
<1>4. search' = NewSearch'
  BY <1>2, <1>3 DEF NewSearch
<1>5. SearchInv'
  <2>1. (config \in Config /\ workload \in Workload /\ search = NewSearch => SearchInv)'
    BY NewSearchLemma, PTL
  <2>2. QED
    BY <1>1, <1>3, <1>4, <2>1
<1>6. MaxPods' = MaxPods
  BY <1>3 DEF MaxPods, Unannotated
<1>7. MaxCallFaults \in Nat
  BY RecommenderAssumption
<1>8. InputInv' /\ (pc' = "answered" => answer' = NoOperation')
  <2>1. CASE \/ Scrape \/ Scraped \/ Transform \/ getContainerCPULimitsSum \/ TransformFails
             \/ CPULimitsFail \/ getMaxPodsFails
    BY <1>1, <1>2, <1>3, <1>6, <1>7, <2>1 DEF InputInv, Place, Scrape, Scraped, Transform,
       getContainerCPULimitsSum, TransformFails, CPULimitsFail, getMaxPodsFails, CallFails,
       recommenderVars
  <2>2. CASE getMaxPods \/ AnnotationUnread
    BY <1>1, <1>2, <1>3, <1>6, <1>7, <2>2, InputLemma
       DEF InputInv, Place, getMaxPods, AnnotationUnread
  <2>3. CASE CheckThreshold
    BY <1>1, <1>2, <1>3, <1>6, <2>3 DEF InputInv, Place, CheckThreshold, NoOperation
  <2>4. CASE GetACLByWorkload
    <3>1. PICK failing \in SUBSET Instance :
            /\ Cardinality(failing) <= callFaults
            /\ callFaults' = callFaults - Cardinality(failing)
      BY <2>4 DEF GetACLByWorkload
    <3>2. Cardinality(failing) \in Nat
      BY ScraperAssumption, FS_Subset, FS_CardinalityType DEF ScraperAssumption
    <3>3. callFaults' \in Nat /\ callFaults' <= callFaults
      BY <1>1, <3>1, <3>2 DEF InputInv
    <3>4. UNCHANGED maxReplicas /\ pc = "acl" /\ pc' \in {"failed", "limits"}
      BY <2>4 DEF GetACLByWorkload
    <3>5. QED
      BY <1>1, <1>3, <1>6, <1>7, <3>3, <3>4 DEF InputInv, Place
  <2>5. QED
    BY <2>1, <2>2, <2>3, <2>4 DEF Before
<1>9. (pc = "answered" => answer = Recommended)'
  BY <1>4, <1>8 DEF Recommended, IsUnable, NewSearch
<1>10. QED
  BY <1>4, <1>5, <1>8, <1>9 DEF IInv

LEMMA SearchLemma ==
  ASSUME IInv, SimulateMid \/ NextMinimum \/ Recommend
  PROVE  IInv'
<1> USE DEF At, Goto
<1>1. InputInv /\ SearchInv /\ pc = "search"
  BY DEF IInv, SimulateMid, NextMinimum, Recommend
<1>2. UNCHANGED <<config, workload, dataPoints, maxReplicas, acl, callFaults>>
  BY DEF SimulateMid, NextMinimum, Recommend
<1>3. pc' \in {"search", "answered", "failed"}
  BY <1>1 DEF SimulateMid, NextMinimum, Recommend
<1>4. InputInv'
  BY <1>1, <1>2, <1>3 DEF InputInv, Place, MaxPods, Unannotated
<1>5. CASE SimulateMid
  <2>1. CASE search' = Narrowed(Simulation(Mid, search.minReplicas)) /\ pc' = "search"
    BY <1>1, <1>2, <1>4, <1>5, <2>1, NarrowLemma DEF IInv, SimulateMid
  <2>2. CASE UNCHANGED search /\ pc' = "failed"
    BY <1>1, <1>2, <1>4, <2>2, SameSearchLemma DEF IInv
  <2>3. QED
    BY <1>1, <1>5, <2>1, <2>2 DEF SimulateMid
<1>6. CASE NextMinimum
  BY <1>1, <1>2, <1>4, <1>6, ChooseLemma DEF IInv, NextMinimum
<1>7. CASE Recommend
  <2>1. UNCHANGED search /\ pc' = "answered" /\ answer' = Recommended
    BY <1>7 DEF Recommend, Recommended
  <2>2. Recommended' = Recommended
    BY <1>2, <2>1 DEF Recommended, IsUnable, NoOperation
  <2>3. SearchInv'
    BY <1>1, <1>2, <2>1, SameSearchLemma
  <2>4. QED
    BY <1>4, <2>1, <2>2, <2>3 DEF IInv
<1>8. QED
  BY <1>5, <1>6, <1>7

LEMMA NextLemma == IInv /\ [Next]_vars => IInv'
<1> SUFFICES ASSUME IInv, [Next]_vars PROVE IInv'
  OBVIOUS
<1>1. CASE Before
  BY <1>1, BeforeLemma
<1>2. CASE SimulateMid \/ NextMinimum \/ Recommend
  BY <1>2, SearchLemma
<1>3. CASE UNCHANGED vars
  <2>1. UNCHANGED <<config, workload, pc, dataPoints, maxReplicas, acl, search, answer,
                    callFaults>>
    BY <1>3 DEF vars, recommenderVars
  <2>2. SearchInv'
    BY <2>1, SameSearchLemma DEF IInv
  <2>3. QED
    BY <2>1, <2>2 DEF IInv, InputInv, MaxPods, Unannotated, NewSearch, Recommended, IsUnable,
       NoOperation
<1>4. QED
  BY <1>1, <1>2, <1>3 DEF Next, Before

--------------------------------------------------------------------------------
\* The inductive invariant of the search (reco.go:250-299).
THEOREM Invariance == Spec => []IInv
<1>1. QED
  BY InitLemma, NextLemma, PTL DEF Spec

(***************************************************************************)
(* Whatever the simulation computes, however many targets and minima there *)
(* are and whichever of them are safe: the target and the minimum that     *)
(* Recommend returns are a pair that it simulated without a breach         *)
(* (reco.go:262-293, where savings, minimum and target of a candidate come *)
(* from different iterations).                                             *)
(***************************************************************************)
THEOREM RecommendationIsSafe == Spec => []NeverBreaches
<1>1. IInv => NeverBreaches
  BY DEF IInv, SearchInv, CandidateInv, NeverBreaches, IsFound, IsUnable, Recommended
<1>2. QED
  BY <1>1, Invariance, PTL

(***************************************************************************)
(* The target that Recommend returns is next to one that breaches, or the  *)
(* largest one: the binary search does not stop early (reco.go:267-282).   *)
(* No monotonicity of the simulation is needed for this; without it there  *)
(* may be another safe target further up.                                  *)
(***************************************************************************)
THEOREM RecommendationIsMaximal == Spec => []TargetIsMaximal
<1>1. IInv => TargetIsMaximal
  BY DEF IInv, SearchInv, CandidateInv, TargetIsMaximal, IsFound, IsUnable, Recommended
<1>2. QED
  BY <1>1, Invariance, PTL

(***************************************************************************)
(* Every answer of Recommend has a minimum from one to its maximum, unless *)
(* that is zero, the maximum the workload asks for unless a call failed,   *)
(* and a target within the configured ones (reco.go:112-161): what         *)
(* ControllerAssumption of the reconciler's model takes for granted.       *)
(***************************************************************************)
THEOREM RecommendationIsWithinLimits == Spec => []WithinLimits
<1>1. IInv => WithinLimits
  <2> SUFFICES ASSUME IInv, pc = "answered"
               PROVE  /\ answer.Min <= answer.Max
                      /\ answer.Max > 0 => answer.Min > 0
                      /\ answer.Max = MaxPods \/ callFaults < MaxCallFaults
                      /\ config.minTarget <= answer.TargetMetricValue
                      /\ answer.TargetMetricValue <= config.maxTarget
    BY DEF WithinLimits
  <2>1. /\ config.minTarget \in Nat /\ config.maxTarget \in Nat
        /\ config.minTarget <= config.maxTarget /\ maxReplicas \in Nat
    BY InputLemma DEF IInv, InputInv
  <2>2. maxReplicas = MaxPods \/ callFaults < MaxCallFaults
    BY DEF IInv, InputInv
  <2>3. CASE IsUnable
    <3>1. answer = NoOperation
      BY <2>3 DEF IInv, Recommended
    <3>2. QED
      BY <2>1, <2>2, <3>1 DEF NoOperation
  <2>4. CASE ~IsUnable
    <3>1. /\ answer.Min = search.optimalMin
          /\ answer.Max = maxReplicas
          /\ answer.TargetMetricValue = search.optimalTarget
      BY <2>4 DEF IInv, Recommended
    <3>2. /\ search.optimalTarget \in config.minTarget..config.maxTarget
          /\ search.optimalMin \in 1..maxReplicas
      BY <2>4 DEF IInv, SearchInv, CandidateInv, IsUnable
    <3>3. QED
      BY <2>1, <2>2, <3>1, <3>2
  <2>5. QED
    BY <2>3, <2>4
<1>2. QED
  BY <1>1, Invariance, PTL

--------------------------------------------------------------------------------
(***************************************************************************)
(* The scraper, as a part of Recommend.                                    *)
(***************************************************************************)
LEMMA ScraperInvariance == Spec => []ScraperInv
<1>1. Init => ScraperInv
  BY ScraperInitLemma DEF Init
<1>2. ScraperInv /\ [Next]_vars => ScraperInv'
  <2> SUFFICES ASSUME ScraperInv, [Next]_vars PROVE ScraperInv'
    OBVIOUS
  <2>1. CASE Scrape
    BY <2>1, ScraperNextLemma DEF Scrape
  <2>2. CASE Scraped
    BY <2>2, ScraperEndsLemma DEF Scraped
  <2>3. CASE UNCHANGED scraperVars
    BY <2>3, ScraperStutterLemma
  <2> QED
    BY <2>1, <2>2, <2>3
    DEF Next, vars, getMaxPods, AnnotationUnread, getMaxPodsFails, CheckThreshold, Transform,
        TransformFails, GetACLByWorkload, getContainerCPULimitsSum, CPULimitsFail, SimulateMid,
        NextMinimum, Recommend
<1> QED
  BY <1>1, <1>2, PTL DEF Spec

(***************************************************************************)
(* Whatever the number of instances and splits, the order in which they    *)
(* answer, and the series that they hold: the merge of the sorted answers  *)
(* is sorted, has a time once for every split that asks for it if a        *)
(* healthy instance knows it, and with the largest value that one knows    *)
(* (scraper.go:208-257, 267-299, 394-479).                                 *)
(***************************************************************************)
THEOREM AggregateIsMaximum == Spec => []AggregatesMaximum
<1>1. ScraperInv => AggregatesMaximum
  BY AggregatesLemma
<1> QED
  BY <1>1, ScraperInvariance, PTL

(***************************************************************************)
(* The utilization that the scraper returns has no gap of two steps, keeps *)
(* every point that was fetched, and fills gaps with values between their  *)
(* ends, whatever the step and however irregular the times are             *)
(* (scraper.go:517-546).                                                   *)
(***************************************************************************)
THEOREM UtilizationHasNoGaps == Spec => []HasNoGaps
<1>1. ScraperInv => HasNoGaps
  BY NoGapsLemma
<1> QED
  BY <1>1, ScraperInvariance, PTL

--------------------------------------------------------------------------------
(***************************************************************************)
(* The intervals of the transformer: sorted, and joined where they touch.  *)
(***************************************************************************)
Interval == [start : Int, end : Int]

ByStart(w) == \A i, j \in DOMAIN w : i <= j => w[i].start <= w[j].start

LEMMA IntervalLemma ==
  ASSUME NEW x \in Interval
  PROVE  x.start \in Int /\ x.end \in Int
BY DEF Interval

\* The intervals of the events are sorted, and none is lost.
LEMMA IntervalsLemma ==
  ASSUME NEW events \in Seq(Interval)
  PROVE  /\ getOutlierIntervals(events) \in Seq(Interval)
         /\ ByStart(getOutlierIntervals(events))
         /\ \A n \in DOMAIN events : \E i \in DOMAIN getOutlierIntervals(events) :
              getOutlierIntervals(events)[i] = events[n]
<1> DEFINE key == [n \in DOMAIN events |-> events[n].start]
           w == getOutlierIntervals(events)
           N == Len(events)
<1>1. N \in Nat /\ DOMAIN events = 1..N /\ \A n \in 1..N : events[n] \in Interval
  OBVIOUS
<1>2. key \in [1..N -> Int]
  BY <1>1, IntervalLemma
<1>3. \A n \in 1..N : key[n] = events[n].start
  OBVIOUS
<1>4. w = SliceStable(events, key)
  BY DEF getOutlierIntervals
<1> HIDE DEF key, w
<1>5. w \in Seq(Interval) /\ Len(w) = N
  BY <1>2, <1>4, SliceStableLemma
<1>6. PICK p : SortedBy(w, events, key, p)
  BY <1>2, <1>4, SliceStableLemma
<1>7. /\ p \in [1..N -> 1..N]
      /\ \A n \in 1..N : \E i \in 1..N : p[i] = n
      /\ \A i, j \in 1..N : i <= j => key[p[i]] <= key[p[j]]
      /\ \A i \in 1..N : w[i] = events[p[i]]
  BY <1>6 DEF SortedBy
<1>8. DOMAIN w = 1..N
  BY <1>5
<1> HIDE DEF N
<1>9. \A i \in 1..N : w[i].start = key[p[i]]
  BY <1>1, <1>3, <1>7
<1>10. ByStart(w)
  <2> SUFFICES ASSUME NEW i \in 1..N, NEW j \in 1..N, i <= j PROVE w[i].start <= w[j].start
    BY <1>8 DEF ByStart
  <2>1. key[p[i]] <= key[p[j]]
    BY <1>7
  <2> QED
    BY <1>9, <2>1
<1>11. ASSUME NEW n \in DOMAIN events PROVE \E i \in DOMAIN w : w[i] = events[n]
  BY <1>1, <1>7, <1>8
<1> QED
  BY <1>5, <1>10, <1>11 DEF w

\* An interval that touches the last one makes it longer.
LEMMA JoinLemma ==
  ASSUME NEW joined \in Seq(Interval), NEW next \in Interval
  PROVE  /\ Join(joined, next) \in Seq(Interval)
         /\ Join(joined, next) # << >>
         /\ joined = << >> => Join(joined, next) = <<next>>
         /\ \A k \in DOMAIN joined :
              /\ k \in DOMAIN Join(joined, next)
              /\ Join(joined, next)[k].start = joined[k].start
              /\ joined[k].end <= Join(joined, next)[k].end
         /\ LET last == Last(Join(joined, next))
            IN  /\ last.start = next.start \/ (joined # << >> /\ last.start = Last(joined).start)
                /\ next.end <= last.end
<1> DEFINE w == Join(joined, next)
           L == Len(joined)
<1>1. L \in Nat /\ DOMAIN joined = 1..L /\ \A k \in 1..L : joined[k] \in Interval
  OBVIOUS
<1>2. /\ next.start \in Int /\ next.end \in Int
      /\ \A k \in 1..L : joined[k].start \in Int /\ joined[k].end \in Int
  BY <1>1, IntervalLemma
<1>3. CASE joined # << >> /\ next.start <= Last(joined).end
  <2> DEFINE e == joined[L].end
             m == Max({e, next.end})
             x == [joined[L] EXCEPT !.end = m]
  <2>1. L \in 1..L /\ Last(joined) = joined[L]
    BY <1>1, <1>3 DEF Last
  <2>2. w = [joined EXCEPT ![L] = x]
    BY <1>3 DEF Join
  <2>3. e \in Int /\ next.end \in Int
    BY <1>2, <2>1
  <2> HIDE DEF e
  <2>4. m \in Int /\ e <= m /\ next.end <= m
    BY <2>3, MaxOfTwoLemma
  <2> HIDE DEF m
  <2>5. x \in Interval /\ x.start = joined[L].start /\ x.end = m
    BY <1>1, <2>1, <2>4 DEF Interval
  <2> HIDE DEF x, w
  <2>6. w \in Seq(Interval) /\ Len(w) = L /\ DOMAIN w = 1..L /\ w[L] = x
    BY <1>1, <2>1, <2>2, <2>5
  <2>7. \A k \in 1..L : k # L => w[k] = joined[k]
    BY <1>1, <2>2
  <2>8. Last(w) = x /\ w # << >>
    BY <2>1, <2>6 DEF Last
  <2>9. ASSUME NEW k \in 1..L PROVE w[k].start = joined[k].start /\ joined[k].end <= w[k].end
    <3>1. CASE k = L
      BY <2>4, <2>5, <2>6, <3>1 DEF e
    <3>2. CASE k # L
      BY <1>2, <2>7, <3>2
    <3> QED
      BY <3>1, <3>2
  <2>10. Last(w).start = Last(joined).start /\ next.end <= Last(w).end
    BY <2>1, <2>4, <2>5, <2>8
  <2> QED
    BY <1>1, <1>3, <2>6, <2>8, <2>9, <2>10 DEF w
<1>4. CASE ~(joined # << >> /\ next.start <= Last(joined).end)
  <2>1. w = Append(joined, next)
    BY <1>4 DEF Join
  <2> HIDE DEF w
  <2>2. /\ w \in Seq(Interval) /\ Len(w) = L + 1 /\ DOMAIN w = 1..(L + 1)
        /\ w[L + 1] = next
        /\ \A k \in 1..L : w[k] = joined[k]
    BY <1>1, <2>1
  <2>3. Last(w) = next /\ w # << >>
    BY <1>1, <2>2 DEF Last
  <2>4. joined = << >> => w = <<next>>
    BY <2>1
  <2>5. \A k \in 1..L : /\ k \in DOMAIN w
                        /\ w[k].start = joined[k].start /\ joined[k].end <= w[k].end
    BY <1>1, <1>2, <2>2
  <2> QED
    BY <1>1, <1>2, <2>2, <2>3, <2>4, <2>5 DEF w
<1> QED
  BY <1>3, <1>4

\* One interval of filterIntervals.
Filtered(joined, next, start, end) ==
  IF next.start < end /\ next.end > start THEN Join(joined, next) ELSE joined

IsFiltering(g, w, start, end) ==
  /\ g \in [0..Len(w) -> Seq(Interval)]
  /\ g[0] = << >>
  /\ \A n \in 1..Len(w) : g[n] = Filtered(g[n - 1], w[n], start, end)
  /\ filterIntervals(w, start, end) = g[Len(w)]

\* filterIntervals goes through the intervals one by one.
LEMMA FilterLemma ==
  ASSUME NEW w \in Seq(Interval), NEW start, NEW end
  PROVE  \E g : IsFiltering(g, w, start, end)
<1> DEFINE N == Len(w)
           S == SUBSET (1..N)
           D == Seq(Interval)
           F == [x \in D \X (1..N) |-> Filtered(x[1], w[x[2]], start, end)]
           Step1(iter, s) == Filtered(iter[s \ {Max(s)}], w[Max(s)], start, end)
           Folded(iter) == iter = [s \in S |-> IF s = {} THEN << >> ELSE Step1(iter, s)]
           fold == CHOOSE iter : Folded(iter)
<1>1. N \in Nat /\ DOMAIN w = 1..N /\ \A n \in 1..N : w[n] \in Interval
  OBVIOUS
<1>2. F \in [D \X (1..N) -> D] /\ << >> \in D
  <2> SUFFICES ASSUME NEW a \in D, NEW n \in 1..N PROVE Filtered(a, w[n], start, end) \in D
    OBVIOUS
  <2> QED
    BY <1>1, JoinLemma DEF Filtered
<1>3. \A a \in D, n \in 1..N : F[<<a, n>>] = Filtered(a, w[n], start, end)
  OBVIOUS
<1>4. filterIntervals(w, start, end) = fold[1..N]
  BY <1>1 DEF filterIntervals, FoldLeft, MapThenFoldSet, Filtered
<1> HIDE DEF F, D, N
<1>5. ASSUME NEW iter, NEW s \in S, s # {}, iter[s \ {Max(s)}] \in D
      PROVE  F[<<iter[s \ {Max(s)}], Max(s)>>] = Step1(iter, s)
  BY <1>1, <1>3, <1>5, LargestLemma
<1>6. \E iter : Folded(iter)
  <2>1. PICK iter \in [S -> D] : IsFold(iter, N, << >>, F)
    BY <1>1, <1>2, FoldLemma
  <2>2. \A s \in S : s # {} => iter[s \ {Max(s)}] \in D
    BY <1>1, <2>1, LargestLemma
  <2>3. \A s \in S : s # {} => F[<<iter[s \ {Max(s)}], Max(s)>>] = Step1(iter, s)
    BY <1>5, <2>2
  <2> HIDE DEF Step1
  <2>4. Folded(iter)
    BY <2>1, <2>3 DEF IsFold
  <2> QED
    BY <2>4
<1>7. Folded(fold)
  BY <1>6
<1> HIDE DEF fold
<1>8. FoldsWith(fold, N, D, << >>, F)
  <2> HIDE DEF Step1
  <2> QED
    BY <1>5, <1>7 DEF FoldsWith
<1>9. PICK g \in [0..N -> D] : IsRun(g, N, << >>, F, fold[1..N])
  BY <1>1, <1>2, <1>8, FoldRunLemma
<1>10. \A n \in 1..N : g[n] = Filtered(g[n - 1], w[n], start, end)
  <2>1. \A n \in 1..N : n - 1 \in 0..N
    BY <1>1
  <2> QED
    BY <1>3, <1>9, <2>1 DEF IsRun
<1>11. g[0] = << >> /\ filterIntervals(w, start, end) = g[N]
  BY <1>4, <1>9 DEF IsRun
<1>12. IsFiltering(g, w, start, end)
  BY <1>9, <1>10, <1>11 DEF IsFiltering, D, N
<1> QED
  BY <1>12

\* The interval x contains the interval y.
Covers(x, y) == x.start <= y.start /\ y.end <= x.end

InWindow(x, start, end) == x.start < end /\ x.end > start

\* What the first n of the sorted intervals w are joined to.
IsJoined(joined, w, n, start, end) ==
  /\ joined \in Seq(Interval)
  /\ \A m \in 1..n : InWindow(w[m], start, end) =>
       \E k \in DOMAIN joined : Covers(joined[k], w[m])
  /\ joined # << >> => \E m \in 1..n : Last(joined).start = w[m].start

\* One more interval: it is inside the last of the joined ones, or is itself the last.
LEMMA JoinedOneLemma ==
  ASSUME NEW w \in Seq(Interval), ByStart(w), NEW start, NEW end,
         NEW n \in Nat, n + 1 <= Len(w), NEW joined, IsJoined(joined, w, n, start, end)
  PROVE  IsJoined(Filtered(joined, w[n + 1], start, end), w, n + 1, start, end)
<1> DEFINE next == w[n + 1]
           v == Filtered(joined, next, start, end)
<1>1. /\ joined \in Seq(Interval)
      /\ \A m \in 1..n : InWindow(w[m], start, end) =>
           \E k \in DOMAIN joined : Covers(joined[k], w[m])
      /\ joined # << >> => \E m \in 1..n : Last(joined).start = w[m].start
  BY DEF IsJoined
<1>2. n + 1 \in DOMAIN w /\ next \in Interval /\ \A m \in 1..n : m \in DOMAIN w /\ m <= n + 1
  OBVIOUS
<1>3. \A m \in 1..(n + 1) : m \in 1..n \/ m = n + 1
  OBVIOUS
<1>4. 1..n \subseteq 1..(n + 1) /\ n + 1 \in 1..(n + 1)
  OBVIOUS
<1>5. CASE ~InWindow(next, start, end)
  <2>1. v = joined
    BY <1>5 DEF Filtered, InWindow
  <2> HIDE DEF v
  <2>2. v \in Seq(Interval)
    BY <1>1, <2>1
  <2>3. \A m \in 1..(n + 1) : InWindow(w[m], start, end) =>
          \E k \in DOMAIN v : Covers(v[k], w[m])
    BY <1>1, <1>3, <1>5, <2>1
  <2>4. v # << >> => \E m \in 1..(n + 1) : Last(v).start = w[m].start
    BY <1>1, <1>4, <2>1
  <2> QED
    BY <2>2, <2>3, <2>4 DEF IsJoined, v
<1>6. CASE InWindow(next, start, end)
  <2>1. v = Join(joined, next)
    BY <1>6 DEF Filtered, InWindow
  <2> HIDE DEF v
  <2>2. /\ v \in Seq(Interval) /\ v # << >>
        /\ \A k \in DOMAIN joined :
             k \in DOMAIN v /\ v[k].start = joined[k].start /\ joined[k].end <= v[k].end
        /\ Last(v).start = next.start \/ (joined # << >> /\ Last(v).start = Last(joined).start)
        /\ next.end <= Last(v).end
    BY <1>1, <1>2, <2>1, JoinLemma
  <2>3. \E m \in 1..(n + 1) : Last(v).start = w[m].start
    BY <1>1, <1>4, <2>2
  <2>4. Last(v).start <= next.start
    <3>1. PICK m \in 1..(n + 1) : Last(v).start = w[m].start
      BY <2>3
    <3>2. m \in DOMAIN w /\ m <= n + 1
      BY <1>2, <1>3
    <3> QED
      BY <1>2, <3>1, <3>2 DEF ByStart
  <2>5. Len(v) \in DOMAIN v /\ Last(v) = v[Len(v)]
    BY <2>2 DEF Last
  <2>6. ASSUME NEW m \in 1..(n + 1), InWindow(w[m], start, end)
        PROVE  \E k \in DOMAIN v : Covers(v[k], w[m])
    <3>1. CASE m = n + 1
      BY <2>2, <2>4, <2>5, <3>1 DEF Covers
    <3>2. CASE m # n + 1
      <4>1. m \in 1..n
        BY <3>2
      <4>2. PICK k \in DOMAIN joined : Covers(joined[k], w[m])
        BY <1>1, <2>6, <4>1
      <4>3. k \in DOMAIN v /\ v[k].start = joined[k].start /\ joined[k].end <= v[k].end
        BY <2>2
      <4>4. /\ v[k].end \in Int /\ joined[k].end \in Int /\ w[m].end \in Int
        <5>1. v[k] \in Interval /\ joined[k] \in Interval /\ w[m] \in Interval
          BY <1>1, <1>2, <2>2, <4>1, <4>3
        <5> QED
          BY <5>1, IntervalLemma
      <4>5. Covers(v[k], w[m])
        BY <4>2, <4>3, <4>4 DEF Covers
      <4> QED
        BY <4>3, <4>5
    <3> QED
      BY <3>1, <3>2
  <2> QED
    BY <2>2, <2>3, <2>6 DEF IsJoined, v
<1> QED
  BY <1>5, <1>6

\* Every event of the window lies inside one of the intervals.
LEMMA CoverLemma ==
  ASSUME NEW events \in Seq(Interval), NEW start, NEW end
  PROVE  LET intervals == filterIntervals(getOutlierIntervals(events), start, end)
         IN  /\ intervals \in Seq(Interval)
             /\ \A n \in DOMAIN events : InWindow(events[n], start, end) =>
                  \E k \in DOMAIN intervals : Covers(intervals[k], events[n])
<1> DEFINE w == getOutlierIntervals(events)
           N == Len(w)
           intervals == filterIntervals(w, start, end)
<1>1. /\ w \in Seq(Interval) /\ ByStart(w)
      /\ \A n \in DOMAIN events : \E i \in DOMAIN w : w[i] = events[n]
  BY IntervalsLemma
<1> HIDE DEF w
<1>a. PICK g : IsFiltering(g, w, start, end)
  BY <1>1, FilterLemma
<1>2. /\ g \in [0..N -> Seq(Interval)]
      /\ g[0] = << >>
      /\ \A n \in 1..N : g[n] = Filtered(g[n - 1], w[n], start, end)
      /\ filterIntervals(w, start, end) = g[N]
  BY <1>a DEF IsFiltering
<1>3. N \in Nat /\ DOMAIN w = 1..N
  BY <1>1
<1> HIDE DEF N
<1> DEFINE T == {n \in Nat : n <= N => IsJoined(g[n], w, n, start, end)}
<1>4. 0 \in T
  <2>1. g[0] \in Seq(Interval) /\ 1..0 = {}
    BY <1>2
  <2> QED
    BY <1>2, <2>1 DEF IsJoined
<1>5. ASSUME NEW n \in Nat, n \in T PROVE n + 1 \in T
  <2> SUFFICES ASSUME n + 1 <= N PROVE IsJoined(g[n + 1], w, n + 1, start, end)
    OBVIOUS
  <2>1. n + 1 \in 1..N /\ (n + 1) - 1 = n /\ IsJoined(g[n], w, n, start, end)
    BY <1>3, <1>5
  <2>2. g[n + 1] = Filtered(g[n], w[n + 1], start, end)
    BY <1>2, <2>1
  <2>3. IsJoined(Filtered(g[n], w[n + 1], start, end), w, n + 1, start, end)
    BY <1>1, <2>1, JoinedOneLemma DEF N
  <2> QED
    BY <2>2, <2>3
<1> HIDE DEF T
<1>6. IsJoined(g[N], w, N, start, end)
  <2>1. N \in T
    BY <1>3, <1>4, <1>5, InductionLemma
  <2> QED
    BY <2>1, <1>3 DEF T
<1>7. IsJoined(intervals, w, N, start, end)
  BY <1>2, <1>6
<1> HIDE DEF intervals
<1>8. intervals \in Seq(Interval)
  BY <1>7 DEF IsJoined
<1>9. ASSUME NEW n \in DOMAIN events, InWindow(events[n], start, end)
      PROVE  \E k \in DOMAIN intervals : Covers(intervals[k], events[n])
  <2>1. PICK i \in 1..N : w[i] = events[n]
    BY <1>1, <1>3
  <2> QED
    BY <1>7, <1>9, <2>1 DEF IsJoined
<1> QED
  BY <1>8, <1>9 DEF intervals, w

--------------------------------------------------------------------------------
(***************************************************************************)
(* One interval of the transformer: the points inside it are one block, as *)
(* the points are sorted.                                                  *)
(***************************************************************************)
Ordered == {s \in Seq(DataPoint) : InOrder(s)}

Inside(p, x) == x.start < p.time /\ p.time < x.end

Within(s, x) == {i \in DOMAIN s : Inside(s[i], x)}

IsBlock(s, x, lo, hi) ==
  /\ lo \in DOMAIN s /\ hi \in DOMAIN s /\ lo <= hi
  /\ \A i \in DOMAIN s : i \in Within(s, x) <=> lo <= i /\ i <= hi
  /\ \A i \in DOMAIN s : i < lo => s[i].time <= x.start
  /\ \A i \in DOMAIN s : i > hi => s[i].time >= x.end

LEMMA DataPointLemma ==
  ASSUME NEW p \in DataPoint
  PROVE  p.time \in Nat /\ p.value \in Nat
BY DEF DataPoint

LEMMA OrderedLemma ==
  ASSUME NEW s \in Ordered
  PROVE  /\ s \in Seq(DataPoint) /\ Len(s) \in Nat /\ DOMAIN s = 1..Len(s)
         /\ \A i \in DOMAIN s : s[i] \in DataPoint /\ s[i].time \in Nat /\ s[i].value \in Nat
         /\ \A i, j \in DOMAIN s : i <= j => s[i].time <= s[j].time
<1>1. s \in Seq(DataPoint) /\ InOrder(s)
  BY DEF Ordered
<1>2. \A i \in DOMAIN s : s[i] \in DataPoint
  BY <1>1
<1> QED
  BY <1>1, <1>2, DataPointLemma DEF InOrder

LEMMA MinLemma ==
  ASSUME NEW T, T \subseteq Nat, T # {}
  PROVE  Min(T) \in T /\ \A y \in T : Min(T) <= y
BY LeastLemma DEF Min

\* The points inside an interval are those from the first to the last of them.
LEMMA BlockLemma ==
  ASSUME NEW s \in Ordered, NEW x \in Interval, Within(s, x) # {}
  PROVE  IsBlock(s, x, Min(Within(s, x)), Max(Within(s, x)))
<1> DEFINE I == Within(s, x)
           lo == Min(I)
           hi == Max(I)
           L == Len(s)
<1>1. /\ L \in Nat /\ DOMAIN s = 1..L
      /\ \A i \in 1..L : s[i].time \in Nat
      /\ \A i, j \in 1..L : i <= j => s[i].time <= s[j].time
  BY OrderedLemma
<1>2. x.start \in Int /\ x.end \in Int
  BY IntervalLemma
<1> HIDE DEF L
<1>3. \A i : i \in I <=> i \in 1..L /\ x.start < s[i].time /\ s[i].time < x.end
  BY <1>1 DEF Within, Inside
<1> HIDE DEF I
<1>4. I \subseteq Nat /\ I # {} /\ \A i \in I : i <= L
  BY <1>1, <1>3 DEF I
<1>5. lo \in I /\ \A i \in I : lo <= i
  BY <1>4, MinLemma
<1>6. hi \in I /\ \A i \in I : i <= hi
  BY <1>1, <1>4, MaxLemma
<1> HIDE DEF lo, hi
<1>7. lo \in 1..L /\ hi \in 1..L /\ lo <= hi
  BY <1>3, <1>5, <1>6
<1>8. ASSUME NEW i \in 1..L, lo <= i, i <= hi PROVE i \in I
  <2>1. x.start < s[lo].time /\ s[hi].time < x.end
    BY <1>3, <1>5, <1>6
  <2>2. s[lo].time <= s[i].time /\ s[i].time <= s[hi].time
    BY <1>1, <1>7, <1>8
  <2>3. x.start < s[i].time /\ s[i].time < x.end
    BY <1>1, <1>2, <1>7, <2>1, <2>2
  <2> QED
    BY <1>3, <2>3
<1>9. ASSUME NEW i \in 1..L, i < lo PROVE s[i].time <= x.start
  <2>1. i \notin I
    BY <1>5, <1>7, <1>9
  <2>2. s[i].time <= s[lo].time /\ s[lo].time < x.end
    BY <1>1, <1>3, <1>5, <1>7, <1>9
  <2> QED
    BY <1>1, <1>2, <1>3, <1>7, <2>1, <2>2
<1>10. ASSUME NEW i \in 1..L, i > hi PROVE s[i].time >= x.end
  <2>1. i \notin I
    BY <1>6, <1>7, <1>10
  <2>2. s[hi].time <= s[i].time /\ x.start < s[hi].time
    BY <1>1, <1>3, <1>6, <1>7, <1>10
  <2> QED
    BY <1>1, <1>2, <1>3, <1>7, <2>1, <2>2
<1>11. \A i \in 1..L : i \in I <=> lo <= i /\ i <= hi
  BY <1>5, <1>6, <1>8
<1>12. IsBlock(s, x, lo, hi)
  BY <1>1, <1>7, <1>9, <1>10, <1>11 DEF IsBlock, I
<1> QED
  BY <1>12 DEF lo, hi, I

\* The points outside the block, and the line across it.
Lined(s, x, lo, hi) ==
  [i \in DOMAIN s |->
     IF i \in Within(s, x)
     THEN [s[i] EXCEPT !.value = OnLine(s[lo - 1], s[hi + 1], s[i].time)] ELSE s[i]]

\* The cases of CleanInterval by name.
LEMMA CasesLemma ==
  ASSUME NEW s, NEW x
  PROVE  LET I == Within(s, x)
             lo == Min(I)
             hi == Max(I)
         IN  CleanInterval(s, x) =
               IF I = {} THEN s
               ELSE IF hi = Len(s) THEN SubSeq(s, 1, lo - 1)
               ELSE IF lo = 1 THEN SubSeq(s, hi + 1, Len(s))
               ELSE Lined(s, x, lo, hi)
BY DEF CleanInterval, Within, Inside, Lined

\* The line between two points does not go below zero.
LEMMA LineLemma ==
  ASSUME NEW a \in DataPoint, NEW b \in DataPoint, NEW t \in Nat, a.time < t, t < b.time
  PROVE  OnLine(a, b, t) \in Nat
<1> DEFINE d == b.value - a.value
           j == t - a.time
           q == b.time - a.time
<1>1. a.time \in Nat /\ b.time \in Nat /\ a.value \in Nat /\ b.value \in Nat
  BY DataPointLemma
<1>2. d \in Int /\ j \in Nat /\ q \in Nat /\ q > 0 /\ j <= q
  BY <1>1
<1>3. OnLine(a, b, t) = a.value + (d * j) \div q
  BY DEF OnLine
<1>4. (d >= 0 => b.value = a.value + d) /\ (d < 0 => a.value + d >= 0)
  BY <1>1
<1> HIDE DEF d, j, q
<1>5. d * j = j * d
  BY <1>2
<1> DEFINE k == (j * d) \div q
<1>6. k \in Int /\ (d >= 0 => 0 <= k /\ k <= d) /\ (d < 0 => d <= k /\ k <= 0)
  BY <1>2, PartLemma
<1>7. OnLine(a, b, t) = a.value + k
  BY <1>3, <1>5
<1> HIDE DEF k
<1> QED
  BY <1>1, <1>2, <1>4, <1>6, <1>7

\* A part of an ordered list is ordered.
LEMMA PartOfLemma ==
  ASSUME NEW s \in Ordered, NEW m \in Nat, NEW n \in Nat, 1 <= m, m <= n + 1, n <= Len(s)
  PROVE  /\ SubSeq(s, m, n) \in Ordered
         /\ Len(SubSeq(s, m, n)) = n - m + 1
         /\ \A i \in 1..(n - m + 1) : SubSeq(s, m, n)[i] = s[i + m - 1]
<1> DEFINE w == SubSeq(s, m, n)
           L == Len(s)
<1>1. /\ s \in Seq(DataPoint) /\ L \in Nat /\ DOMAIN s = 1..L
      /\ \A i, j \in 1..L : i <= j => s[i].time <= s[j].time
  BY OrderedLemma
<1>2. /\ w \in Seq(DataPoint) /\ Len(w) = n - m + 1
      /\ \A i \in 1..(n - m + 1) : w[i] = s[i + m - 1]
  BY <1>1
<1> HIDE DEF w
<1>3. ASSUME NEW i \in DOMAIN w, NEW j \in DOMAIN w, i <= j PROVE w[i].time <= w[j].time
  <2>1. i \in 1..(n - m + 1) /\ j \in 1..(n - m + 1)
    BY <1>2
  <2>2. i + m - 1 \in 1..L /\ j + m - 1 \in 1..L /\ i + m - 1 <= j + m - 1
    BY <1>1, <1>3, <2>1
  <2>3. s[i + m - 1].time <= s[j + m - 1].time
    BY <1>1, <2>2
  <2>4. w[i] = s[i + m - 1] /\ w[j] = s[j + m - 1]
    BY <1>2, <2>1
  <2> QED
    BY <2>3, <2>4
<1>4. w \in Ordered
  BY <1>2, <1>3 DEF Ordered, InOrder
<1> QED
  BY <1>2, <1>4 DEF w

\* What is left of an ordered list without its first n points.
LEMMA RestLemma ==
  ASSUME NEW s \in Ordered, NEW n \in Nat, n < Len(s)
  PROVE  LET w == SubSeq(s, n + 1, Len(s))
         IN  /\ w \in Ordered
             /\ Len(w) = Len(s) - n /\ \A i \in 1..(Len(s) - n) : w[i] = s[i + n]
<1> DEFINE L == Len(s)
           m == n + 1
           w == SubSeq(s, m, L)
<1>1. L \in Nat /\ m \in Nat /\ 1 <= m /\ m <= L + 1 /\ L <= L
  BY OrderedLemma
<1>2. /\ w \in Ordered /\ Len(w) = L - m + 1
      /\ \A i \in 1..(L - m + 1) : w[i] = s[i + m - 1]
  <2> HIDE DEF m
  <2> QED
    BY <1>1, PartOfLemma
<1> HIDE DEF L, w
<1>3. L - m + 1 = L - n /\ \A i \in 1..(L - n) : i + m - 1 = i + n
  BY <1>1
<1>4. Len(w) = L - n /\ \A i \in 1..(L - n) : w[i] = s[i + n]
  BY <1>2, <1>3
<1> QED
  BY <1>2, <1>4 DEF w, L

\* The line keeps all times and changes values inside the block only.
IsLined(w, s, x, lo, hi) ==
  /\ lo - 1 \in DOMAIN s /\ hi + 1 \in DOMAIN s
  /\ w \in Ordered /\ Len(w) = Len(s) /\ DOMAIN w = DOMAIN s
  /\ \A i \in DOMAIN s : w[i].time = s[i].time
  /\ \A i \in DOMAIN s : i \notin Within(s, x) => w[i] = s[i]
  /\ \A i \in Within(s, x) :
       w[i] = [s[i] EXCEPT !.value = OnLine(s[lo - 1], s[hi + 1], s[i].time)]

\* The line across a block of an ordered list.
LEMMA LinedLemma ==
  ASSUME NEW s \in Ordered, NEW x \in Interval, NEW lo, NEW hi, IsBlock(s, x, lo, hi),
         lo # 1, hi # Len(s)
  PROVE  IsLined(Lined(s, x, lo, hi), s, x, lo, hi)
<1> DEFINE w == Lined(s, x, lo, hi)
           L == Len(s)
           V(i) == OnLine(s[lo - 1], s[hi + 1], s[i].time)
<1>1. /\ s \in Seq(DataPoint) /\ L \in Nat /\ DOMAIN s = 1..L
      /\ \A i \in 1..L : s[i] \in DataPoint /\ s[i].time \in Nat /\ s[i].value \in Nat
      /\ \A i, j \in 1..L : i <= j => s[i].time <= s[j].time
  BY OrderedLemma
<1>2. x.start \in Int /\ x.end \in Int
  BY IntervalLemma
<1>3. /\ lo \in 1..L /\ hi \in 1..L /\ lo <= hi
      /\ \A i \in 1..L : i < lo => s[i].time <= x.start
      /\ \A i \in 1..L : i > hi => s[i].time >= x.end
  BY <1>1 DEF IsBlock
<1>4. lo - 1 \in 1..L /\ lo - 1 < lo /\ hi + 1 \in 1..L /\ hi + 1 > hi
  BY <1>1, <1>3
<1>5. ASSUME NEW i \in Within(s, x) PROVE i \in 1..L /\ V(i) \in Nat
  <2>1. i \in 1..L /\ x.start < s[i].time /\ s[i].time < x.end
    BY <1>1 DEF Within, Inside
  <2>2. s[lo - 1].time <= x.start /\ s[hi + 1].time >= x.end
    BY <1>3, <1>4
  <2>3. s[lo - 1].time < s[i].time /\ s[i].time < s[hi + 1].time
    BY <1>1, <1>2, <1>4, <2>1, <2>2
  <2> QED
    BY <1>1, <1>4, <2>1, <2>3, LineLemma
<1> HIDE DEF V, L
<1>6. w = [i \in 1..L |-> IF i \in Within(s, x) THEN [s[i] EXCEPT !.value = V(i)] ELSE s[i]]
  BY <1>1 DEF Lined, V
<1> HIDE DEF w
<1>7. ASSUME NEW i \in 1..L PROVE w[i] \in DataPoint /\ w[i].time = s[i].time
  <2>1. CASE i \in Within(s, x)
    <3>1. w[i] = [s[i] EXCEPT !.value = V(i)] /\ V(i) \in Nat /\ s[i] \in DataPoint
      BY <1>1, <1>5, <1>6, <2>1
    <3> QED
      BY <3>1 DEF DataPoint
  <2>2. CASE i \notin Within(s, x)
    BY <1>1, <1>6, <2>2
  <2> QED
    BY <2>1, <2>2
<1>8. w \in Seq(DataPoint) /\ Len(w) = L /\ DOMAIN w = 1..L
  <2>1. DOMAIN w = 1..L /\ w = [i \in 1..L |-> w[i]]
    BY <1>6
  <2>2. w \in [1..L -> DataPoint]
    BY <1>7, <2>1
  <2> QED
    BY <1>1, <2>2
<1>9. w \in Ordered
  BY <1>1, <1>7, <1>8 DEF Ordered, InOrder
<1>10. \A i \in 1..L : i \notin Within(s, x) => w[i] = s[i]
  BY <1>6
<1>11. \A i \in Within(s, x) : w[i] = [s[i] EXCEPT !.value = V(i)]
  BY <1>5, <1>6
<1>12. IsLined(w, s, x, lo, hi)
  BY <1>1, <1>4, <1>7, <1>8, <1>9, <1>10, <1>11 DEF L, V, IsLined
<1> QED
  BY <1>12 DEF w

\* The transformer keeps the points sorted and their values natural numbers.
LEMMA CleanLemma ==
  ASSUME NEW s \in Ordered, NEW x \in Interval
  PROVE  CleanInterval(s, x) \in Ordered
<1> DEFINE I == Within(s, x)
           lo == Min(I)
           hi == Max(I)
           L == Len(s)
<1>1. L \in Nat /\ DOMAIN s = 1..L
  BY OrderedLemma
<1>2. CleanInterval(s, x) =
        IF I = {} THEN s
        ELSE IF hi = L THEN SubSeq(s, 1, lo - 1)
        ELSE IF lo = 1 THEN SubSeq(s, hi + 1, L)
        ELSE Lined(s, x, lo, hi)
  BY CasesLemma
<1>3. CASE I = {}
  BY <1>2, <1>3
<1>4. CASE I # {}
  <2>1. IsBlock(s, x, lo, hi)
    BY <1>4, BlockLemma
  <2> HIDE DEF lo, hi, I
  <2>2. lo \in 1..L /\ hi \in 1..L
    BY <1>1, <2>1 DEF IsBlock
  <2>3. CASE hi = L
    <3>1. SubSeq(s, 1, lo - 1) \in Ordered
      BY <1>1, <2>2, PartOfLemma
    <3> QED
      BY <1>2, <1>4, <2>3, <3>1
  <2>4. CASE hi # L /\ lo = 1
    <3>1. SubSeq(s, hi + 1, L) \in Ordered
      BY <1>1, <2>2, PartOfLemma
    <3> QED
      BY <1>2, <1>4, <2>4, <3>1
  <2>5. CASE hi # L /\ lo # 1
    <3>1. Lined(s, x, lo, hi) \in Ordered
      BY <2>1, <2>5, LinedLemma DEF IsLined
    <3> QED
      BY <1>2, <1>4, <2>5, <3>1
  <2> QED
    BY <2>3, <2>4, <2>5
<1> QED
  BY <1>3, <1>4

\* The transformer's run over the intervals.
IsCleaning(g, points, w) ==
  /\ g \in [0..Len(w) -> Ordered]
  /\ g[0] = points
  /\ \A n \in 1..Len(w) : g[n] = CleanInterval(g[n - 1], w[n])
  /\ cleanOutliersAndInterpolate(points, w) = g[Len(w)]

\* cleanOutliersAndInterpolate goes through the intervals one by one.
LEMMA CleaningLemma ==
  ASSUME NEW points \in Ordered, NEW w \in Seq(Interval)
  PROVE  \E g : IsCleaning(g, points, w)
<1> DEFINE N == Len(w)
           S == SUBSET (1..N)
           D == Ordered
           F == [x \in D \X (1..N) |-> CleanInterval(x[1], w[x[2]])]
           Step1(iter, s) == CleanInterval(iter[s \ {Max(s)}], w[Max(s)])
           Folded(iter) == iter = [s \in S |-> IF s = {} THEN points ELSE Step1(iter, s)]
           fold == CHOOSE iter : Folded(iter)
<1>1. N \in Nat /\ DOMAIN w = 1..N /\ \A n \in 1..N : w[n] \in Interval
  OBVIOUS
<1>2. F \in [D \X (1..N) -> D] /\ points \in D
  <2> SUFFICES ASSUME NEW a \in D, NEW n \in 1..N PROVE CleanInterval(a, w[n]) \in D
    OBVIOUS
  <2> QED
    BY <1>1, CleanLemma
<1>3. \A a \in D, n \in 1..N : F[<<a, n>>] = CleanInterval(a, w[n])
  OBVIOUS
<1>4. cleanOutliersAndInterpolate(points, w) = fold[1..N]
  BY <1>1 DEF cleanOutliersAndInterpolate, FoldLeft, MapThenFoldSet
<1> HIDE DEF F, D, N
<1>5. ASSUME NEW iter, NEW s \in S, s # {}, iter[s \ {Max(s)}] \in D
      PROVE  F[<<iter[s \ {Max(s)}], Max(s)>>] = Step1(iter, s)
  BY <1>1, <1>3, <1>5, LargestLemma
<1>6. \E iter : Folded(iter)
  <2>1. PICK iter \in [S -> D] : IsFold(iter, N, points, F)
    BY <1>1, <1>2, FoldLemma
  <2>2. \A s \in S : s # {} => iter[s \ {Max(s)}] \in D
    BY <1>1, <2>1, LargestLemma
  <2>3. \A s \in S : s # {} => F[<<iter[s \ {Max(s)}], Max(s)>>] = Step1(iter, s)
    BY <1>5, <2>2
  <2> HIDE DEF Step1
  <2>4. Folded(iter)
    BY <2>1, <2>3 DEF IsFold
  <2> QED
    BY <2>4
<1>7. Folded(fold)
  BY <1>6
<1> HIDE DEF fold
<1>8. FoldsWith(fold, N, D, points, F)
  <2> HIDE DEF Step1
  <2> QED
    BY <1>5, <1>7 DEF FoldsWith
<1>9. PICK g \in [0..N -> D] : IsRun(g, N, points, F, fold[1..N])
  BY <1>1, <1>2, <1>8, FoldRunLemma
<1>10. \A n \in 1..N : g[n] = CleanInterval(g[n - 1], w[n])
  <2>1. \A n \in 1..N : n - 1 \in 0..N
    BY <1>1
  <2> QED
    BY <1>3, <1>9, <2>1 DEF IsRun
<1>11. g[0] = points /\ cleanOutliersAndInterpolate(points, w) = g[N]
  BY <1>4, <1>9 DEF IsRun
<1>12. IsCleaning(g, points, w)
  BY <1>9, <1>10, <1>11 DEF IsCleaning, D, N
<1> QED
  BY <1>12

\* Whatever the events, the transformed points are sorted and their values natural
\* numbers.
LEMMA TransformedLemma ==
  ASSUME NEW events \in Seq(Interval), NEW start, NEW end, NEW points \in Ordered
  PROVE  Transformed(events, start, end, points) \in Ordered
<1> DEFINE w == filterIntervals(getOutlierIntervals(events), start, end)
<1>1. w \in Seq(Interval)
  BY CoverLemma
<1>2. Transformed(events, start, end, points) = cleanOutliersAndInterpolate(points, w)
  BY DEF Transformed
<1> HIDE DEF w
<1>3. PICK g : IsCleaning(g, points, w)
  BY <1>1, CleaningLemma
<1>4. Len(w) \in 0..Len(w)
  BY <1>1
<1> QED
  BY <1>2, <1>3, <1>4 DEF IsCleaning

--------------------------------------------------------------------------------
(***************************************************************************)
(* Two lists of points that differ inside the intervals only become the    *)
(* same list.                                                              *)
(***************************************************************************)
\* After n intervals the lists differ inside the later ones only.
Alike(s, u, w, n) ==
  /\ s \in Ordered /\ u \in Ordered /\ Len(s) = Len(u)
  /\ \A i \in DOMAIN s : s[i].time = u[i].time
  /\ \A i \in DOMAIN s : s[i] = u[i] \/ \E k \in (n + 1)..Len(w) : Inside(s[i], w[k])

\* The points outside the first n intervals are still there, perhaps with a value
\* that the line across a later point has changed.
Kept(points, s, w, n) ==
  \A i \in DOMAIN points :
    (\A m \in 1..n : ~Inside(points[i], w[m])) =>
       \E j \in DOMAIN s : s[j].time = points[i].time

\* A point outside of the interval keeps its time.
LEMMA CleanKeepsLemma ==
  ASSUME NEW s \in Ordered, NEW x \in Interval, NEW j \in DOMAIN s, j \notin Within(s, x)
  PROVE  \E i \in DOMAIN CleanInterval(s, x) : CleanInterval(s, x)[i].time = s[j].time
<1> DEFINE I == Within(s, x)
           lo == Min(I)
           hi == Max(I)
           L == Len(s)
           c == CleanInterval(s, x)
<1>1. L \in Nat /\ DOMAIN s = 1..L
  BY OrderedLemma
<1>2. c = IF I = {} THEN s
          ELSE IF hi = L THEN SubSeq(s, 1, lo - 1)
          ELSE IF lo = 1 THEN SubSeq(s, hi + 1, L)
          ELSE Lined(s, x, lo, hi)
  BY CasesLemma
<1>o. c \in Ordered
  BY CleanLemma
<1>d. DOMAIN c = 1..Len(c)
  BY <1>o, OrderedLemma
<1> SUFFICES \E i \in DOMAIN c : c[i].time = s[j].time
  OBVIOUS
<1> HIDE DEF c
<1>3. CASE I = {}
  BY <1>2, <1>3
<1>4. CASE I # {}
  <2>1. IsBlock(s, x, lo, hi)
    BY <1>4, BlockLemma
  <2> HIDE DEF lo, hi
  <2>2. lo \in 1..L /\ hi \in 1..L /\ \A i \in 1..L : i \in I <=> lo <= i /\ i <= hi
    BY <1>1, <2>1 DEF IsBlock
  <2> HIDE DEF I
  <2>3. j \in 1..L /\ (j < lo \/ j > hi)
    BY <1>1, <2>2 DEF I
  <2>4. CASE hi = L
    <3>1. c = SubSeq(s, 1, lo - 1)
      BY <1>2, <1>4, <2>4
    <3>2. Len(c) = lo - 1 /\ \A i \in 1..(lo - 1) : c[i] = s[i]
      <4>1. /\ Len(c) = (lo - 1) - 1 + 1
            /\ \A i \in 1..((lo - 1) - 1 + 1) : c[i] = s[i + 1 - 1]
        BY <1>1, <2>2, <3>1, PartOfLemma
      <4> QED
        BY <2>2, <4>1
    <3>3. j \in 1..(lo - 1)
      BY <1>1, <2>2, <2>3, <2>4
    <3> QED
      BY <1>d, <3>2, <3>3
  <2>5. CASE hi # L /\ lo = 1
    <3>1. c = SubSeq(s, hi + 1, L)
      BY <1>2, <1>4, <2>5
    <3>2. Len(c) = L - hi /\ \A i \in 1..(L - hi) : c[i] = s[i + hi]
      <4>1. hi \in Nat /\ hi < L
        <5> HIDE DEF L
        <5> QED
          BY <1>1, <2>2, <2>5
      <4> QED
        BY <3>1, <4>1, RestLemma
    <3> HIDE DEF L
    <3>3. j - hi \in 1..(L - hi) /\ (j - hi) + hi = j
      BY <1>1, <2>2, <2>3, <2>5
    <3> QED
      BY <1>d, <3>2, <3>3
  <2>6. CASE hi # L /\ lo # 1
    <3>1. c = Lined(s, x, lo, hi)
      BY <1>2, <1>4, <2>6
    <3>2. DOMAIN c = DOMAIN s /\ c[j] = s[j]
      BY <2>1, <2>6, <3>1, LinedLemma DEF IsLined
    <3> QED
      BY <3>2
  <2> QED
    BY <2>4, <2>5, <2>6
<1> QED
  BY <1>3, <1>4

\* One more interval: the points outside of it and of those before are still there.
LEMMA KeptLemma ==
  ASSUME NEW points, NEW s \in Ordered, NEW w \in Seq(Interval), NEW n \in Nat,
         n + 1 <= Len(w), Kept(points, s, w, n)
  PROVE  Kept(points, CleanInterval(s, w[n + 1]), w, n + 1)
<1> DEFINE x == w[n + 1]
           c == CleanInterval(s, x)
<1>1. x \in Interval /\ 1..n \subseteq 1..(n + 1) /\ n + 1 \in 1..(n + 1)
  OBVIOUS
<1> SUFFICES ASSUME NEW i \in DOMAIN points, \A m \in 1..(n + 1) : ~Inside(points[i], w[m])
             PROVE  \E j \in DOMAIN c : c[j].time = points[i].time
  BY DEF Kept
<1>2. PICK j \in DOMAIN s : s[j].time = points[i].time
  BY <1>1 DEF Kept
<1>3. j \notin Within(s, x)
  BY <1>1, <1>2 DEF Within, Inside
<1>4. \E k \in DOMAIN c : c[k].time = s[j].time
  BY <1>1, <1>3, CleanKeepsLemma
<1> QED
  BY <1>2, <1>4

\* The points next to the block are in no later interval: the point between the two
\* intervals, which is still there, is nearer.
LEMMA AnchorsLemma ==
  ASSUME NEW points \in Ordered, NEW s \in Ordered, NEW w \in Seq(Interval),
         AreSeparated(w, points), NEW n \in Nat, n + 1 <= Len(w), Kept(points, s, w, n),
         NEW lo, NEW hi, IsBlock(s, w[n + 1], lo, hi), NEW k \in (n + 2)..Len(w)
  PROVE  /\ \A i \in DOMAIN s : i < lo => ~Inside(s[i], w[k])
         /\ hi + 1 \in DOMAIN s => ~Inside(s[hi + 1], w[k])
<1> DEFINE x == w[n + 1]
           y == w[k]
           L == Len(s)
<1>1. /\ L \in Nat /\ DOMAIN s = 1..L
      /\ \A i \in 1..L : s[i].time \in Nat
      /\ \A i, j \in 1..L : i <= j => s[i].time <= s[j].time
  BY OrderedLemma
<1>2. /\ n + 1 \in DOMAIN w /\ k \in DOMAIN w /\ n + 1 < k
      /\ \A m \in 1..n : m \in DOMAIN w /\ m < n + 1
  OBVIOUS
<1>3. \A m \in DOMAIN w : w[m].start \in Int /\ w[m].end \in Int
  <2>1. \A m \in DOMAIN w : w[m] \in Interval
    OBVIOUS
  <2> QED
    BY <2>1, IntervalLemma
<1>t. \A i \in DOMAIN points : points[i].time \in Nat
  BY OrderedLemma
<1>4. /\ lo \in 1..L /\ hi \in 1..L /\ lo <= hi
      /\ \A i \in 1..L : i \in Within(s, x) <=> lo <= i /\ i <= hi
      /\ \A i \in 1..L : i < lo => s[i].time <= x.start
  BY <1>1 DEF IsBlock
<1>5. x.start < s[hi].time /\ s[hi].time < x.end
  <2>1. hi \in Within(s, x)
    BY <1>4
  <2> QED
    BY <2>1 DEF Within, Inside
<1>6. PICK p \in DOMAIN points : x.end <= points[p].time /\ points[p].time <= y.start
  BY <1>2 DEF AreSeparated
<1>b. x.start \in Int /\ x.end \in Int /\ y.start \in Int /\ points[p].time \in Int
  BY <1>2, <1>3, <1>t
<1>c. x.start < x.end /\ x.end <= y.start
  BY <1>1, <1>4, <1>5, <1>6, <1>b
<1>7. ASSUME NEW i \in 1..L, i < lo PROVE ~Inside(s[i], y)
  <2>1. s[i].time <= x.start
    BY <1>4, <1>7
  <2>2. s[i].time <= y.start
    <3> HIDE DEF x, y
    <3> QED
      BY <1>1, <1>b, <1>c, <2>1
  <2> QED
    BY <1>1, <1>2, <1>3, <2>2 DEF Inside
<1>8. ASSUME NEW m \in 1..n PROVE ~Inside(points[p], w[m])
  <2>1. PICK q \in DOMAIN points : w[m].end <= points[q].time /\ points[q].time <= x.start
    BY <1>2 DEF AreSeparated
  <2>2. w[m].end <= points[p].time
    <3>1. w[m].end \in Int /\ points[q].time \in Int
      BY <1>2, <1>3, <1>t
    <3> HIDE DEF x, y
    <3> QED
      BY <1>6, <1>b, <1>c, <2>1, <3>1
  <2> QED
    BY <1>2, <1>3, <1>t, <2>2 DEF Inside
<1>9. PICK j \in 1..L : s[j].time = points[p].time
  BY <1>1, <1>8 DEF Kept
<1>10. ASSUME hi + 1 \in 1..L PROVE ~Inside(s[hi + 1], y)
  <2>1. ~(s[j].time <= s[hi].time)
    BY <1>1, <1>2, <1>3, <1>t, <1>4, <1>5, <1>6, <1>9
  <2>2. ~(j <= hi)
    BY <1>1, <1>4, <2>1
  <2>3. hi + 1 <= j
    BY <1>1, <1>4, <2>2
  <2>4. s[hi + 1].time <= s[j].time
    BY <1>1, <1>10, <2>3
  <2>5. s[hi + 1].time <= y.start
    BY <1>1, <1>2, <1>3, <1>t, <1>6, <1>9, <1>10, <2>4
  <2> QED
    BY <1>1, <1>2, <1>3, <1>10, <2>5 DEF Inside
<1> QED
  BY <1>1, <1>7, <1>10

\* The intervals change two lists that are alike in the same way.
LEMMA AlikeLemma ==
  ASSUME NEW points \in Ordered, NEW w \in Seq(Interval), AreSeparated(w, points),
         NEW n \in Nat, n + 1 <= Len(w),
         NEW s, NEW u, Alike(s, u, w, n), Kept(points, s, w, n)
  PROVE  Alike(CleanInterval(s, w[n + 1]), CleanInterval(u, w[n + 1]), w, n + 1)
<1> DEFINE x == w[n + 1]
           I == Within(s, x)
           lo == Min(I)
           hi == Max(I)
           L == Len(s)
           N == Len(w)
           c == CleanInterval(s, x)
           e == CleanInterval(u, x)
           Later(p) == \E k \in (n + 2)..N : Inside(p, w[k])
<1>1. /\ s \in Ordered /\ u \in Ordered /\ Len(u) = L
      /\ \A i \in DOMAIN s : s[i].time = u[i].time
      /\ \A i \in DOMAIN s : s[i] = u[i] \/ \E k \in (n + 1)..N : Inside(s[i], w[k])
  BY DEF Alike
<1>2. L \in Nat /\ DOMAIN s = 1..L /\ DOMAIN u = 1..L
  BY <1>1, OrderedLemma
<1>3. x \in Interval /\ N \in Nat
  OBVIOUS
<1>4. Within(u, x) = I
  BY <1>1, <1>2 DEF Within, Inside
<1>5. \A i \in 1..L : i \notin I => s[i] = u[i] \/ Later(s[i])
  <2> SUFFICES ASSUME NEW i \in 1..L, i \notin I, s[i] # u[i] PROVE Later(s[i])
    OBVIOUS
  <2>1. PICK k \in (n + 1)..N : Inside(s[i], w[k])
    BY <1>1, <1>2
  <2>2. k # n + 1
    BY <1>2, <2>1 DEF Within
  <2>3. k \in (n + 2)..N
    BY <1>3, <2>2
  <2> QED
    BY <2>1, <2>3
<1>6. c = IF I = {} THEN s
          ELSE IF hi = L THEN SubSeq(s, 1, lo - 1)
          ELSE IF lo = 1 THEN SubSeq(s, hi + 1, L)
          ELSE Lined(s, x, lo, hi)
  BY CasesLemma
<1>7. e = IF I = {} THEN u
          ELSE IF hi = L THEN SubSeq(u, 1, lo - 1)
          ELSE IF lo = 1 THEN SubSeq(u, hi + 1, L)
          ELSE Lined(u, x, lo, hi)
  BY <1>1, <1>4, CasesLemma
<1>8. c \in Ordered /\ e \in Ordered
  BY <1>1, <1>3, CleanLemma
<1>9. DOMAIN c = 1..Len(c) /\ DOMAIN e = 1..Len(e)
  BY <1>8, OrderedLemma
<1>10. SUFFICES /\ Len(c) = Len(e)
                /\ \A i \in 1..Len(c) : c[i].time = e[i].time /\ (c[i] = e[i] \/ Later(c[i]))
  <2> HIDE DEF c, e
  <2>1. (n + 1) + 1 = n + 2
    OBVIOUS
  <2>2. Alike(c, e, w, n + 1)
    BY <1>8, <1>9, <1>10, <2>1 DEF Alike
  <2> QED
    BY <2>2 DEF c, e
<1> HIDE DEF c, e
<1>11. CASE I = {}
  <2>1. c = s /\ e = u
    BY <1>6, <1>7, <1>11
  <2> QED
    BY <1>1, <1>2, <1>5, <1>11, <2>1
<1>12. CASE I # {}
  <2>1. IsBlock(s, x, lo, hi) /\ IsBlock(u, x, lo, hi)
    BY <1>1, <1>3, <1>4, <1>12, BlockLemma
  <2> HIDE DEF lo, hi
  <2>2. /\ lo \in 1..L /\ hi \in 1..L
        /\ \A i \in 1..L : i \in I <=> lo <= i /\ i <= hi
    BY <1>2, <2>1 DEF IsBlock
  <2>3. CASE hi = L
    <3>1. c = SubSeq(s, 1, lo - 1) /\ e = SubSeq(u, 1, lo - 1)
      BY <1>6, <1>7, <1>12, <2>3
    <3>2. /\ Len(c) = lo - 1 /\ \A i \in 1..(lo - 1) : c[i] = s[i]
          /\ Len(e) = lo - 1 /\ \A i \in 1..(lo - 1) : e[i] = u[i]
      <4>1. lo - 1 \in Nat /\ 1 <= (lo - 1) + 1 /\ lo - 1 <= L
        BY <1>2, <2>2
      <4>2. /\ Len(c) = (lo - 1) - 1 + 1
            /\ \A i \in 1..((lo - 1) - 1 + 1) : c[i] = s[i + 1 - 1]
        BY <1>1, <3>1, <4>1, PartOfLemma
      <4>3. /\ Len(e) = (lo - 1) - 1 + 1
            /\ \A i \in 1..((lo - 1) - 1 + 1) : e[i] = u[i + 1 - 1]
        BY <1>1, <3>1, <4>1, PartOfLemma
      <4> QED
        BY <2>2, <4>2, <4>3
    <3>3. \A i \in 1..(lo - 1) : i \in 1..L /\ i \notin I
      <4> HIDE DEF I, L
      <4> QED
        BY <1>2, <2>2
    <3> HIDE DEF I, L, Later
    <3> QED
      BY <1>1, <1>2, <1>5, <3>2, <3>3
  <2>4. CASE hi # L /\ lo = 1
    <3>1. c = SubSeq(s, hi + 1, L) /\ e = SubSeq(u, hi + 1, L)
      BY <1>6, <1>7, <1>12, <2>4
    <3>2. hi \in Nat /\ hi < L
      <4> HIDE DEF L, I
      <4> QED
        BY <1>2, <2>2, <2>4
    <3>3. Len(c) = L - hi /\ \A i \in 1..(L - hi) : c[i] = s[i + hi]
      BY <1>1, <3>1, <3>2, RestLemma
    <3>4. Len(e) = L - hi /\ \A i \in 1..(L - hi) : e[i] = u[i + hi]
      BY <1>1, <3>1, <3>2, RestLemma
    <3>5. \A i \in 1..(L - hi) : i + hi \in 1..L /\ i + hi \notin I
      <4> HIDE DEF I, L
      <4> QED
        BY <1>2, <2>2
    <3> HIDE DEF I, L, Later
    <3> QED
      BY <1>1, <1>2, <1>5, <3>3, <3>4, <3>5
  <2>5. CASE hi # L /\ lo # 1
    <3>1. c = Lined(s, x, lo, hi) /\ e = Lined(u, x, lo, hi)
      BY <1>6, <1>7, <1>12, <2>5
    <3>2. /\ lo - 1 \in DOMAIN s /\ hi + 1 \in DOMAIN s
          /\ Len(c) = L
          /\ \A i \in DOMAIN s : c[i].time = s[i].time
          /\ \A i \in DOMAIN s : i \notin I => c[i] = s[i]
          /\ \A i \in I : c[i] = [s[i] EXCEPT !.value = OnLine(s[lo - 1], s[hi + 1], s[i].time)]
      <4>1. IsLined(c, s, x, lo, hi)
        BY <1>1, <1>3, <2>1, <2>5, <3>1, LinedLemma
      <4> QED
        BY <4>1 DEF IsLined
    <3>3. /\ Len(e) = L
          /\ \A i \in DOMAIN u : e[i].time = u[i].time
          /\ \A i \in DOMAIN u : i \notin I => e[i] = u[i]
          /\ \A i \in I : e[i] = [u[i] EXCEPT !.value = OnLine(u[lo - 1], u[hi + 1], u[i].time)]
      <4>1. IsLined(e, u, x, lo, hi)
        BY <1>1, <1>3, <2>1, <2>5, <3>1, LinedLemma
      <4> QED
        BY <1>1, <1>4, <4>1 DEF IsLined
    <3>4. lo - 1 < lo /\ lo - 1 \notin I /\ hi + 1 \notin I /\ lo - 1 \in 1..L /\ hi + 1 \in 1..L
      <4> HIDE DEF I, L
      <4> QED
        BY <1>2, <2>2, <3>2
    <3>5. ASSUME NEW k \in (n + 2)..N
          PROVE  ~Inside(s[lo - 1], w[k]) /\ ~Inside(s[hi + 1], w[k])
      BY <1>1, <2>1, <3>2, <3>4, AnchorsLemma
    <3>6. s[lo - 1] = u[lo - 1] /\ s[hi + 1] = u[hi + 1]
      BY <1>5, <3>4, <3>5
    <3>7. ASSUME NEW i \in I PROVE i \in 1..L /\ c[i] = e[i]
      <4>1. i \in 1..L
        BY <1>2 DEF Within
      <4>2. s[i] \in DataPoint /\ u[i] \in DataPoint /\ s[i].time = u[i].time
        BY <1>1, <1>2, <4>1, OrderedLemma
      <4> DEFINE v == OnLine(s[lo - 1], s[hi + 1], s[i].time)
      <4>3. c[i] = [s[i] EXCEPT !.value = v] /\ e[i] = [u[i] EXCEPT !.value = v]
        BY <3>2, <3>3, <3>6, <4>2
      <4> HIDE DEF v
      <4>4. [s[i] EXCEPT !.value = v] = [u[i] EXCEPT !.value = v]
        BY <4>2 DEF DataPoint
      <4> QED
        BY <4>1, <4>3, <4>4
    <3>8. ASSUME NEW i \in 1..L, i \notin I PROVE c[i] = e[i] \/ Later(c[i])
      <4>1. c[i] = s[i] /\ e[i] = u[i]
        BY <1>2, <3>2, <3>3, <3>8
      <4> HIDE DEF Later, I
      <4> QED
        BY <1>5, <3>8, <4>1
    <3> HIDE DEF I, L, Later
    <3> QED
      BY <1>1, <1>2, <3>2, <3>3, <3>7, <3>8
  <2> QED
    BY <2>3, <2>4, <2>5
<1> QED
  BY <1>11, <1>12

\* Lists that differ inside the events only are transformed to the same list.
LEMMA InvisibleLemma ==
  ASSUME NEW events \in Seq(Interval), NEW start, NEW end,
         NEW points \in Ordered, NEW others \in Ordered, Len(points) = Len(others),
         \A i \in DOMAIN points : points[i].time = others[i].time,
         \A i \in DOMAIN points :
           points[i] = others[i] \/ IsOutlier(events, start, end, points[i]),
         AreSeparated(filterIntervals(getOutlierIntervals(events), start, end), points)
  PROVE  Transformed(events, start, end, points) = Transformed(events, start, end, others)
<1> DEFINE w == filterIntervals(getOutlierIntervals(events), start, end)
           N == Len(w)
<1>1. /\ w \in Seq(Interval)
      /\ \A n \in DOMAIN events : InWindow(events[n], start, end) =>
           \E k \in DOMAIN w : Covers(w[k], events[n])
  BY CoverLemma
<1>2. /\ Transformed(events, start, end, points) = cleanOutliersAndInterpolate(points, w)
      /\ Transformed(events, start, end, others) = cleanOutliersAndInterpolate(others, w)
  BY DEF Transformed
<1>3. AreSeparated(w, points)
  OBVIOUS
<1> HIDE DEF w
<1>4. N \in Nat /\ DOMAIN w = 1..N
  BY <1>1
<1>5. PICK g : IsCleaning(g, points, w)
  BY <1>1, CleaningLemma
<1>6. PICK h : IsCleaning(h, others, w)
  BY <1>1, CleaningLemma
<1>7. /\ g \in [0..N -> Ordered] /\ g[0] = points
      /\ \A n \in 1..N : g[n] = CleanInterval(g[n - 1], w[n])
      /\ cleanOutliersAndInterpolate(points, w) = g[N]
  BY <1>5 DEF IsCleaning
<1>8. /\ h \in [0..N -> Ordered] /\ h[0] = others
      /\ \A n \in 1..N : h[n] = CleanInterval(h[n - 1], w[n])
      /\ cleanOutliersAndInterpolate(others, w) = h[N]
  BY <1>6 DEF IsCleaning
<1>9. ASSUME NEW i \in DOMAIN points, IsOutlier(events, start, end, points[i])
      PROVE  \E k \in 1..N : Inside(points[i], w[k])
  <2>1. PICK n \in DOMAIN events :
          /\ events[n].start < points[i].time /\ points[i].time < events[n].end
          /\ InWindow(events[n], start, end)
    BY <1>9 DEF IsOutlier, InWindow
  <2>2. PICK k \in DOMAIN w : Covers(w[k], events[n])
    BY <1>1, <2>1
  <2>3. events[n] \in Interval /\ w[k] \in Interval
    BY <1>1
  <2>4. /\ events[n].start \in Int /\ events[n].end \in Int
        /\ w[k].start \in Int /\ w[k].end \in Int
    BY <2>3, IntervalLemma
  <2>5. points[i].time \in Nat
    BY OrderedLemma
  <2>6. Inside(points[i], w[k])
    BY <2>1, <2>2, <2>4, <2>5 DEF Inside, Covers
  <2> QED
    BY <1>4, <2>6
<1> DEFINE T == {n \in Nat : n <= N => Alike(g[n], h[n], w, n) /\ Kept(points, g[n], w, n)}
<1>10. 0 \in T
  <2>1. 0 + 1 = 1
    OBVIOUS
  <2>2. Alike(points, others, w, 0)
    BY <1>9, <2>1 DEF Alike
  <2>3. Kept(points, points, w, 0)
    BY DEF Kept
  <2> QED
    BY <1>7, <1>8, <2>2, <2>3
<1>11. ASSUME NEW n \in Nat, n \in T PROVE n + 1 \in T
  <2> SUFFICES ASSUME n + 1 <= N
               PROVE  Alike(g[n + 1], h[n + 1], w, n + 1) /\ Kept(points, g[n + 1], w, n + 1)
    OBVIOUS
  <2>1. n + 1 \in 1..N /\ (n + 1) - 1 = n /\ n \in 0..N
    BY <1>4
  <2>2. Alike(g[n], h[n], w, n) /\ Kept(points, g[n], w, n)
    BY <1>11, <2>1
  <2>3. g[n + 1] = CleanInterval(g[n], w[n + 1]) /\ h[n + 1] = CleanInterval(h[n], w[n + 1])
    BY <1>7, <1>8, <2>1
  <2>4. g[n] \in Ordered
    BY <1>7, <2>1
  <2>5. Alike(CleanInterval(g[n], w[n + 1]), CleanInterval(h[n], w[n + 1]), w, n + 1)
    BY <1>1, <1>3, <2>2, AlikeLemma
  <2>6. Kept(points, CleanInterval(g[n], w[n + 1]), w, n + 1)
    BY <1>1, <2>2, <2>4, KeptLemma
  <2> QED
    BY <2>3, <2>5, <2>6
<1> HIDE DEF T
<1>12. N \in T
  BY <1>4, <1>10, <1>11, InductionLemma
<1>13. Alike(g[N], h[N], w, N) /\ (N + 1)..N = {} /\ N \in 0..N
  BY <1>4, <1>12 DEF T
<1>14. g[N] = h[N]
  <2> DEFINE s == g[N]
             u == h[N]
  <2>1. s \in Ordered /\ u \in Ordered /\ Len(s) = Len(u) /\ \A i \in DOMAIN s : s[i] = u[i]
    BY <1>13 DEF Alike
  <2> HIDE DEF s, u
  <2>2. s \in Seq(DataPoint) /\ u \in Seq(DataPoint)
    BY <2>1, OrderedLemma
  <2>3. s = u
    BY <2>1, <2>2
  <2> QED
    BY <2>3 DEF s, u
<1> QED
  BY <1>2, <1>7, <1>8, <1>14

--------------------------------------------------------------------------------
(***************************************************************************)
(* The data points of Recommend are sorted, as scraped and as transformed. *)
(***************************************************************************)
LEMMA SortedByTimeLemma ==
  ASSUME NEW s \in Seq(DataPoint), IsSortedByTime(s)
  PROVE  s \in Ordered
<1> DEFINE L == Len(s)
           T == {n \in Nat : \A i \in 1..L : i + n <= L => s[i].time <= s[i + n].time}
<1>1. L \in Nat /\ DOMAIN s = 1..L /\ \A i \in 1..L : s[i].time \in Nat
  <2>1. \A i \in 1..L : s[i] \in DataPoint
    OBVIOUS
  <2> QED
    BY <2>1, DataPointLemma
<1>2. \A i \in 2..L : s[i - 1].time <= s[i].time
  BY DEF IsSortedByTime
<1> HIDE DEF L
<1>3. 0 \in T
  BY <1>1
<1>4. ASSUME NEW n \in Nat, n \in T PROVE n + 1 \in T
  <2> SUFFICES ASSUME NEW i \in 1..L, i + (n + 1) <= L
               PROVE  s[i].time <= s[i + (n + 1)].time
    OBVIOUS
  <2> DEFINE j == i + n
  <2>1. j \in 1..L /\ j + 1 \in 2..L /\ (j + 1) - 1 = j /\ i + (n + 1) = j + 1
    BY <1>1
  <2>2. s[i].time <= s[j].time
    BY <1>1, <1>4, <2>1
  <2> HIDE DEF j
  <2>3. s[j].time <= s[j + 1].time
    BY <1>2, <2>1
  <2>4. j + 1 \in 1..L
    BY <1>1, <2>1
  <2> QED
    <3>1. s[i].time \in Nat /\ s[j].time \in Nat /\ s[j + 1].time \in Nat
      BY <1>1, <2>1, <2>4
    <3>2. s[i].time <= s[j + 1].time
      BY <2>2, <2>3, <3>1
    <3> QED
      BY <2>1, <3>2
<1>5. \A n \in Nat : n \in T
  <2> HIDE DEF T
  <2> QED
    BY <1>3, <1>4, InductionLemma
<1>6. ASSUME NEW i \in 1..L, NEW j \in 1..L, i <= j PROVE s[i].time <= s[j].time
  <2>1. j - i \in Nat /\ i + (j - i) = j /\ j <= L
    BY <1>1, <1>6
  <2>2. j - i \in T
    BY <1>5, <2>1
  <2> QED
    BY <2>1, <2>2
<1> QED
  BY <1>1, <1>6 DEF Ordered, InOrder

\* What the scraper returns is sorted.
LEMMA ResponseLemma ==
  ASSUME ScraperInv, response.done, query = "utilization", ~response.err
  PROVE  response.points \in Ordered
<1>1. IsSortedByTime(response.points)
  BY NoGapsLemma DEF HasNoGaps
<1>2. response.points \in Seq(DataPoint)
  BY DEF ScraperInv, ScraperTypeOK
<1> QED
  BY <1>1, <1>2, SortedByTimeLemma

\* The events come as a list of intervals, in any order.
LEMMA EventsLemma ==
  ASSUME NEW events \in Events, NEW order \in SetToSeqs(events)
  PROVE  order \in Seq(Interval)
<1>1. IsFiniteSet(events) /\ events \subseteq Interval
  BY RecommenderAssumption DEF Interval
<1>2. Cardinality(events) \in Nat
  BY <1>1, FS_CardinalityType
<1>3. order \in [1..Cardinality(events) -> events]
  BY DEF SetToSeqs
<1> HIDE DEF Interval
<1> QED
  BY <1>1, <1>2, <1>3

PointsInv == ScraperInv /\ dataPoints \in Ordered

LEMMA PointsInvariance == Spec => []PointsInv
<1>1. Init => PointsInv
  <2>1. << >> \in Ordered
    BY DEF Ordered, InOrder
  <2> QED
    BY <2>1, ScraperInitLemma DEF Init, PointsInv
<1>2. PointsInv /\ ScraperInv' /\ [Next]_vars => PointsInv'
  <2> SUFFICES ASSUME PointsInv, [Next]_vars PROVE dataPoints' \in Ordered
    BY DEF PointsInv
  <2>1. ScraperInv /\ dataPoints \in Ordered
    BY DEF PointsInv
  <2>2. CASE Scraped
    <3>1. CASE response.err
      BY <2>1, <2>2, <3>1 DEF Scraped
    <3>2. CASE ~response.err
      <4>1. response.points \in Ordered
        BY <2>1, <2>2, <3>2, ResponseLemma DEF Scraped
      <4> QED
        BY <2>2, <3>2, <4>1 DEF Scraped
    <3> QED
      BY <3>1, <3>2
  <2>3. CASE Transform
    <3>a. PICK events \in Events : \E order \in SetToSeqs(events) :
            dataPoints' = Transformed(order, 0, Window, dataPoints)
      BY <2>3 DEF Transform
    <3>1. PICK order \in SetToSeqs(events) :
            dataPoints' = Transformed(order, 0, Window, dataPoints)
      BY <3>a
    <3>2. order \in Seq(Interval)
      BY EventsLemma
    <3> QED
      BY <2>1, <3>1, <3>2, TransformedLemma
  <2>4. CASE UNCHANGED dataPoints
    BY <2>1, <2>4
  <2> QED
    BY <2>2, <2>3, <2>4
    DEF Next, vars, recommenderVars, Scrape, getMaxPods, AnnotationUnread, getMaxPodsFails,
        CheckThreshold, TransformFails, GetACLByWorkload, getContainerCPULimitsSum,
        CPULimitsFail, SimulateMid, NextMinimum, Recommend
<1> QED
  BY <1>1, <1>2, ScraperInvariance, PTL DEF Spec

(***************************************************************************)
(* Whatever the events, their order in the ConfigMap and the data points:  *)
(* if a point lies between any two intervals, values inside the events     *)
(* leave no trace in what the transformer returns.  A point next to the    *)
(* block that a line replaces lies in no interval that is still to come,   *)
(* so both ends of the line are known for good                             *)
(* (metrics_transformer.go:45-131).                                        *)
(***************************************************************************)
THEOREM OutliersLeaveNoTrace == Spec => []OutliersAreInvisible
<1>1. PointsInv => OutliersAreInvisible
  <2> SUFFICES ASSUME PointsInv, NEW events \in Events, NEW order \in SetToSeqs(events),
                      NEW value \in {0, 1000},
                      AreSeparated(filterIntervals(getOutlierIntervals(order), 0, Window),
                                   dataPoints)
               PROVE  Transformed(order, 0, Window, dataPoints) =
                        Transformed(order, 0, Window,
                          [n \in DOMAIN dataPoints |->
                             IF IsOutlier(order, 0, Window, dataPoints[n])
                             THEN [dataPoints[n] EXCEPT !.value = value] ELSE dataPoints[n]])
    BY DEF OutliersAreInvisible
  <2> DEFINE s == dataPoints
             L == Len(s)
             IsOut(p) == IsOutlier(order, 0, Window, p)
             u == [n \in DOMAIN s |-> IF IsOut(s[n]) THEN [s[n] EXCEPT !.value = value] ELSE s[n]]
  <2>1. s \in Ordered /\ order \in Seq(Interval)
    BY EventsLemma DEF PointsInv
  <2>2. /\ L \in Nat /\ DOMAIN s = 1..L
        /\ \A i \in 1..L : s[i] \in DataPoint
        /\ \A i, j \in 1..L : i <= j => s[i].time <= s[j].time
    BY <2>1, OrderedLemma
  <2>3. AreSeparated(filterIntervals(getOutlierIntervals(order), 0, Window), s)
    OBVIOUS
  <2> HIDE DEF IsOut, L
  <2>4. DOMAIN u = 1..L /\ \A i \in 1..L : u[i] = IF IsOut(s[i]) THEN [s[i] EXCEPT !.value = value] ELSE s[i]
    BY <2>2
  <2>5. \A i \in 1..L : [s[i] EXCEPT !.value = value] \in DataPoint
                          /\ [s[i] EXCEPT !.value = value].time = s[i].time
    BY <2>2 DEF DataPoint
  <2>6. u = [i \in 1..L |-> u[i]]
    BY <2>2
  <2>u. u = [n \in DOMAIN dataPoints |->
               IF IsOutlier(order, 0, Window, dataPoints[n])
               THEN [dataPoints[n] EXCEPT !.value = value] ELSE dataPoints[n]]
    BY DEF IsOut
  <2> HIDE DEF u, s
  <2>7. \A i \in 1..L : u[i] \in DataPoint /\ u[i].time = s[i].time /\ (s[i] = u[i] \/ IsOut(s[i]))
    <3> SUFFICES ASSUME NEW i \in 1..L
                 PROVE  u[i] \in DataPoint /\ u[i].time = s[i].time /\ (s[i] = u[i] \/ IsOut(s[i]))
      OBVIOUS
    <3> DEFINE changed == [s[i] EXCEPT !.value = value]
    <3>1. changed \in DataPoint /\ changed.time = s[i].time /\ s[i] \in DataPoint
      BY <2>2, <2>5
    <3>2. u[i] = IF IsOut(s[i]) THEN changed ELSE s[i]
      BY <2>4
    <3> HIDE DEF changed
    <3> QED
      BY <3>1, <3>2
  <2>8. u \in Seq(DataPoint) /\ Len(u) = L
    <3>1. u \in [1..L -> DataPoint]
      BY <2>6, <2>7
    <3> QED
      BY <2>2, <3>1
  <2>9. u \in Ordered
    <3>1. InOrder(u)
      BY <2>2, <2>4, <2>7 DEF InOrder
    <3> QED
      BY <2>8, <3>1 DEF Ordered
  <2>10. Transformed(order, 0, Window, s) = Transformed(order, 0, Window, u)
    BY <2>1, <2>2, <2>3, <2>7, <2>8, <2>9, InvisibleLemma DEF L, IsOut
  <2> QED
    BY <2>10, <2>u DEF s
<1> QED
  BY <1>1, PointsInvariance, PTL

--------------------------------------------------------------------------------
(***************************************************************************)
(* The types of what the recommender computes.                             *)
(***************************************************************************)
Timer == [time : Nat, delta : Nat]

\* The replicas that are pending are a natural number.
LEMMA PendingLemma ==
  ASSUME NEW timers \in Seq(Timer)
  PROVE  Pending(timers) \in Nat
<1> DEFINE N == Len(timers)
           S == SUBSET (1..N)
           F == [x \in Nat \X (1..N) |-> x[1] + timers[x[2]].delta]
           Step1(iter, s) == iter[s \ {Max(s)}] + timers[Max(s)].delta
           Folded(iter) == iter = [s \in S |-> IF s = {} THEN 0 ELSE Step1(iter, s)]
           fold == CHOOSE iter : Folded(iter)
<1>1. N \in Nat /\ DOMAIN timers = 1..N /\ \A n \in 1..N : timers[n].delta \in Nat
  <2>1. \A n \in 1..N : timers[n] \in Timer
    <3> HIDE DEF Timer
    <3> QED
      OBVIOUS
  <2> QED
    BY <2>1 DEF Timer
<1>2. F \in [Nat \X (1..N) -> Nat]
  BY <1>1
<1>3. \A a \in Nat, n \in 1..N : F[<<a, n>>] = a + timers[n].delta
  OBVIOUS
<1>4. Pending(timers) = fold[1..N]
  BY <1>1 DEF Pending, FoldLeft, MapThenFoldSet
<1> HIDE DEF F, N
<1>5. ASSUME NEW iter, NEW s \in S, s # {}, iter[s \ {Max(s)}] \in Nat
      PROVE  F[<<iter[s \ {Max(s)}], Max(s)>>] = Step1(iter, s)
  BY <1>1, <1>3, <1>5, LargestLemma
<1>6. \E iter : Folded(iter)
  <2>1. PICK iter \in [S -> Nat] : IsFold(iter, N, 0, F)
    BY <1>1, <1>2, FoldLemma
  <2>2. \A s \in S : s # {} => iter[s \ {Max(s)}] \in Nat
    BY <1>1, <2>1, LargestLemma
  <2>3. \A s \in S : s # {} => F[<<iter[s \ {Max(s)}], Max(s)>>] = Step1(iter, s)
    BY <1>5, <2>2
  <2> HIDE DEF Step1
  <2>4. Folded(iter)
    BY <2>1, <2>3 DEF IsFold
  <2> QED
    BY <2>4
<1>7. Folded(fold)
  BY <1>6
<1> HIDE DEF fold
<1>8. FoldsWith(fold, N, Nat, 0, F)
  <2> HIDE DEF Step1
  <2> QED
    BY <1>5, <1>7 DEF FoldsWith
<1>9. PICK g \in [0..N -> Nat] : IsRun(g, N, 0, F, fold[1..N])
  BY <1>1, <1>2, <1>8, FoldRunLemma
<1> QED
  BY <1>1, <1>4, <1>9 DEF IsRun

\* The savings are a number.
LEMMA SavingsLemma ==
  ASSUME NEW max \in Nat, NEW simulated \in Seq(Nat)
  PROVE  calculateSavings(max, simulated) \in Int
<1> DEFINE N == Len(simulated)
           S == SUBSET (1..N)
           D == Int
           F == [x \in D \X (1..N) |-> x[1] + (max - simulated[x[2]])]
           Step1(iter, s) == iter[s \ {Max(s)}] + (max - simulated[Max(s)])
           Folded(iter) == iter = [s \in S |-> IF s = {} THEN 0 ELSE Step1(iter, s)]
           fold == CHOOSE iter : Folded(iter)
<1>1. N \in Nat /\ DOMAIN simulated = 1..N /\ \A n \in 1..N : simulated[n] \in Nat
  OBVIOUS
<1>2. F \in [D \X (1..N) -> D] /\ 0 \in D
  BY <1>1
<1>3. \A a \in D, n \in 1..N : F[<<a, n>>] = a + (max - simulated[n])
  OBVIOUS
<1>4. calculateSavings(max, simulated) = fold[1..N]
  BY <1>1 DEF calculateSavings, FoldLeft, MapThenFoldSet
<1> HIDE DEF F, N, D
<1>5. ASSUME NEW iter, NEW s \in S, s # {}, iter[s \ {Max(s)}] \in D
      PROVE  F[<<iter[s \ {Max(s)}], Max(s)>>] = Step1(iter, s)
  BY <1>1, <1>3, <1>5, LargestLemma
<1>6. \E iter : Folded(iter)
  <2>1. PICK iter \in [S -> D] : IsFold(iter, N, 0, F)
    BY <1>1, <1>2, FoldLemma
  <2>2. \A s \in S : s # {} => iter[s \ {Max(s)}] \in D
    BY <1>1, <2>1, LargestLemma
  <2>3. \A s \in S : s # {} => F[<<iter[s \ {Max(s)}], Max(s)>>] = Step1(iter, s)
    BY <1>5, <2>2
  <2> HIDE DEF Step1
  <2>4. Folded(iter)
    BY <2>1, <2>3 DEF IsFold
  <2> QED
    BY <2>4
<1>7. Folded(fold)
  BY <1>6
<1> HIDE DEF fold
<1>8. FoldsWith(fold, N, D, 0, F)
  <2> HIDE DEF Step1
  <2> QED
    BY <1>5, <1>7 DEF FoldsWith
<1>9. PICK g \in [0..N -> D] : IsRun(g, N, 0, F, fold[1..N])
  BY <1>1, <1>2, <1>8, FoldRunLemma
<1> QED
  BY <1>1, <1>4, <1>9 DEF IsRun, D

\* The replicas that are wanted are a natural number if the target is valid.
LEMMA WantedLemma ==
  ASSUME NEW value \in Nat, NEW target \in Nat, NEW perPodResources \in Nat \ {0},
         Tolerated(target) >= 1
  PROVE  Wanted(value, target, perPodResources) \in Nat
<1> DEFINE q == Tolerated(target) * perPodResources
           a == 100 * value + q - 1
<1>1. Tolerated(target) \in Nat
  BY DEF Tolerated
<1>2. q \in Nat /\ q >= 1
  BY <1>1
<1>3. Wanted(value, target, perPodResources) = a \div q
  BY DEF Wanted, CeilDiv
<1> HIDE DEF q
<1>4. a \in Nat
  BY <1>2
<1> HIDE DEF a
<1> QED
  BY <1>2, <1>3, <1>4

LEMMA ClampedLemma ==
  ASSUME NEW replicas \in Nat, NEW min \in Nat, NEW max \in Nat
  PROVE  Clamped(replicas, min, max) \in Nat
<1> DEFINE u == Max({min, replicas})
<1>1. u \in Nat
  BY MaxOfTwoLemma
<1>2. Clamped(replicas, min, max) = Min({max, u})
  BY DEF Clamped
<1> HIDE DEF u
<1>3. Min({max, u}) \in {max, u}
  BY <1>1, MaxOfTwoLemma
<1> QED
  BY <1>1, <1>2, <1>3

\* The timers that are due are at the head of the list.
LEMMA DueLemma ==
  ASSUME NEW timers \in Seq(Timer), NEW now
  PROVE  Due(timers, now) \in 0..Len(timers)
<1> DEFINE T == {0} \cup {n \in DOMAIN timers : \A m \in 1..n : timers[m].time <= now}
           N == Len(timers)
<1>1. N \in Nat /\ DOMAIN timers = 1..N
  OBVIOUS
<1>2. T \subseteq 0..N /\ 0 \in T
  BY <1>1
<1>3. Due(timers, now) = Max(T)
  BY DEF Due
<1> HIDE DEF T, N
<1>4. T \subseteq Nat /\ T # {} /\ \A x \in T : x <= N
  BY <1>1, <1>2
<1>5. Max(T) \in T
  BY <1>1, <1>4, MaxLemma
<1> QED
  BY <1>2, <1>3, <1>5 DEF N

\* The state of a simulation.
SimState == [ready : Nat, timers : Seq(Timer), calculatedMin : Nat, simulated : Seq(Nat)]

\* One data point of a simulation.
LEMMA SimulateLemma ==
  ASSUME NEW state \in SimState, NEW point \in DataPoint, NEW lag \in Nat, NEW wanted \in Nat,
         NEW min \in Nat, NEW max \in Nat
  PROVE  Simulate(state, point, lag, wanted, min, max) \in SimState
<1> DEFINE old == state.timers
           due == Due(old, point.time)
           first == SubSeq(old, 1, due)
           timers == SubSeq(old, due + 1, Len(old))
           ready == state.ready + Pending(first)
           newReplicas == Clamped(wanted, min, max)
           delta == newReplicas - ready - Pending(timers)
           nowReady == Min({ready, newReplicas})
           Added == Append(timers, [time |-> point.time + lag, delta |-> delta])
           next == IF newReplicas <= ready THEN << >> ELSE IF delta <= 0 THEN timers ELSE Added
           before == state.calculatedMin
           fewest == Min({before, wanted})
<1>1. /\ state.ready \in Nat /\ old \in Seq(Timer) /\ before \in Nat
      /\ state.simulated \in Seq(Nat)
  <2> HIDE DEF Timer
  <2> QED
    BY DEF SimState
<1>2. point.time \in Nat
  BY DataPointLemma
<1>3. Simulate(state, point, lag, wanted, min, max) =
        [ready |-> nowReady, timers |-> next, calculatedMin |-> fewest,
         simulated |-> Append(state.simulated, nowReady)]
  BY DEF Simulate
<1> HIDE DEF old
<1>4. due \in 0..Len(old) /\ Len(old) \in Nat
  BY <1>1, DueLemma
<1> HIDE DEF due, Timer
<1>5. first \in Seq(Timer) /\ timers \in Seq(Timer)
  BY <1>1, <1>4
<1> HIDE DEF first, timers
<1>6. Pending(first) \in Nat /\ Pending(timers) \in Nat
  BY <1>5, PendingLemma
<1>7. newReplicas \in Nat
  BY ClampedLemma
<1> HIDE DEF newReplicas
<1>8. ready \in Nat
  BY <1>1, <1>6
<1> HIDE DEF ready
<1>9. nowReady \in Nat
  <2>1. nowReady \in {ready, newReplicas}
    BY <1>7, <1>8, MaxOfTwoLemma
  <2> HIDE DEF nowReady
  <2> QED
    BY <1>7, <1>8, <2>1
<1> HIDE DEF nowReady
<1>10. fewest \in Nat
  <2> HIDE DEF before
  <2>i. before \in Int /\ wanted \in Int
    BY <1>1
  <2>1. fewest \in {before, wanted}
    BY <2>i, MaxOfTwoLemma
  <2> HIDE DEF fewest
  <2> QED
    BY <1>1, <2>1
<1> HIDE DEF fewest
<1>11. next \in Seq(Timer)
  <2>1. CASE newReplicas > ready /\ delta > 0
    <3>1. delta \in Nat
      BY <1>6, <1>7, <1>8, <2>1
    <3> HIDE DEF delta
    <3>2. [time |-> point.time + lag, delta |-> delta] \in Timer
      BY <1>2, <3>1 DEF Timer
    <3> DEFINE timer == [time |-> point.time + lag, delta |-> delta]
    <3> HIDE DEF timer
    <3>3. Append(timers, timer) \in Seq(Timer)
      BY <1>5, <3>2 DEF timer
    <3>4. Added = Append(timers, timer)
      BY DEF timer
    <3> HIDE DEF Added
    <3>5. Added \in Seq(Timer)
      BY <3>3, <3>4
    <3> QED
      BY <1>5, <3>5
  <2>2. CASE newReplicas <= ready
    BY <2>2
  <2>3. CASE newReplicas > ready /\ delta <= 0
    <3>1. ~(newReplicas <= ready)
      BY <1>7, <1>8, <2>3
    <3> HIDE DEF Added
    <3> QED
      BY <1>5, <2>3, <3>1
  <2>4. delta \in Int
    BY <1>6, <1>7, <1>8
  <2> HIDE DEF delta, next
  <2> QED
    BY <1>7, <1>8, <2>1, <2>2, <2>3, <2>4
<1> HIDE DEF next
<1>12. Append(state.simulated, nowReady) \in Seq(Nat)
  BY <1>1, <1>9
<1> QED
  BY <1>3, <1>9, <1>10, <1>11, <1>12 DEF SimState

\* The result of simulateHPA; for no data points it has two fields only.
IsSimulation(simulation) ==
  simulation.calculatedMin \in Nat /\ simulation.simulated \in Seq(Nat)

\* A whole simulation, with a target that is valid.
LEMMA SimulationLemma ==
  ASSUME NEW points \in Seq(DataPoint), NEW lag \in Nat, NEW target \in Nat,
         NEW perPodResources \in Nat \ {0}, NEW max \in Nat, NEW min \in Nat,
         ~IsInvalidTarget(points, target)
  PROVE  IsSimulation(simulateHPA(points, lag, target, perPodResources, max, min))
<1> DEFINE WantedAt(point) == Wanted(point.value, target, perPodResources)
           rest == Tail(points)
           replicas == Clamped(WantedAt(points[1]), min, max)
           base == [ready |-> replicas, timers |-> << >>,
                    calculatedMin |-> WantedAt(points[1]), simulated |-> <<replicas>>]
           One(state, point) == Simulate(state, point, lag, WantedAt(point), min, max)
           OnePoint(state, point) ==
             CHOOSE next \in {Simulate(s, point, lag, WantedAt(point), min, max) :
                                s \in {state}} : TRUE
           result == simulateHPA(points, lag, target, perPodResources, max, min)
<1>1. CASE points = << >>
  BY <1>1 DEF simulateHPA, IsSimulation
<1>2. CASE points # << >>
  <2> DEFINE N == Len(rest)
             S == SUBSET (1..N)
             D == SimState
             F == [x \in D \X (1..N) |-> One(x[1], rest[x[2]])]
             Step1(iter, s) == OnePoint(iter[s \ {Max(s)}], rest[Max(s)])
             Folded(iter) == iter = [s \in S |-> IF s = {} THEN base ELSE Step1(iter, s)]
             fold == CHOOSE iter : Folded(iter)
  <2>1. /\ rest \in Seq(DataPoint) /\ points[1] \in DataPoint /\ N \in Nat
        /\ DOMAIN rest = 1..N /\ \A n \in 1..N : rest[n] \in DataPoint
    <3> HIDE DEF DataPoint
    <3>1. rest \in Seq(DataPoint) /\ points[1] \in DataPoint
      BY <1>2
    <3> HIDE DEF rest
    <3> QED
      BY <3>1
  <2>2. ASSUME NEW point \in DataPoint PROVE WantedAt(point) \in Nat
    <3>1. Tolerated(target) \in Nat /\ point.value \in Nat
      BY DataPointLemma DEF Tolerated
    <3>2. Tolerated(target) >= 1
      BY <1>2, <3>1 DEF IsInvalidTarget
    <3> QED
      BY <3>1, <3>2, WantedLemma
  <2>3. \A state, point : OnePoint(state, point) = One(state, point)
    OBVIOUS
  <2>r. result = FoldLeft(OnePoint, base, rest)
    BY <1>2 DEF simulateHPA
  <2>4. result = fold[1..N]
    <3> HIDE DEF rest, base, OnePoint
    <3> QED
      BY <2>1, <2>r DEF FoldLeft, MapThenFoldSet
  <2> HIDE DEF WantedAt
  <2>5. \A a \in D, n \in 1..N : One(a, rest[n]) \in D
    BY <2>1, <2>2, SimulateLemma
  <2>6. base \in D
    <3>1. WantedAt(points[1]) \in Nat
      BY <2>1, <2>2
    <3>2. replicas \in Nat
      BY <3>1, ClampedLemma
    <3> HIDE DEF replicas
    <3>3. <<replicas>> \in Seq(Nat) /\ << >> \in Seq(Timer)
      BY <3>2
    <3> QED
      BY <3>1, <3>2, <3>3 DEF SimState
  <2> HIDE DEF One, D, N, rest, OnePoint, base
  <2>7. F \in [D \X (1..N) -> D]
    BY <2>5
  <2>8. \A a \in D, n \in 1..N : F[<<a, n>>] = One(a, rest[n])
    OBVIOUS
  <2> HIDE DEF F
  <2>9. ASSUME NEW iter, NEW s \in S, s # {}, iter[s \ {Max(s)}] \in D
        PROVE  F[<<iter[s \ {Max(s)}], Max(s)>>] = Step1(iter, s)
    BY <2>1, <2>3, <2>8, <2>9, LargestLemma
  <2>10. \E iter : Folded(iter)
    <3>1. PICK iter \in [S -> D] : IsFold(iter, N, base, F)
      BY <2>1, <2>6, <2>7, FoldLemma
    <3>2. \A s \in S : s # {} => iter[s \ {Max(s)}] \in D
      BY <2>1, <3>1, LargestLemma
    <3>3. \A s \in S : s # {} => F[<<iter[s \ {Max(s)}], Max(s)>>] = Step1(iter, s)
      BY <2>9, <3>2
    <3> HIDE DEF Step1
    <3>4. Folded(iter)
      BY <3>1, <3>3 DEF IsFold
    <3> QED
      BY <3>4
  <2>11. Folded(fold)
    BY <2>10
  <2> HIDE DEF fold
  <2>12. FoldsWith(fold, N, D, base, F)
    <3> HIDE DEF Step1
    <3> QED
      BY <2>9, <2>11 DEF FoldsWith
  <2>13. PICK g \in [0..N -> D] : IsRun(g, N, base, F, fold[1..N])
    BY <2>1, <2>6, <2>7, <2>12, FoldRunLemma
  <2>14. result \in D
    <3>1. N \in 0..N
      BY <2>1
    <3> QED
      BY <2>4, <2>13, <3>1 DEF IsRun
  <2> HIDE DEF result
  <2>15. result.calculatedMin \in Nat /\ result.simulated \in Seq(Nat)
    BY <2>14 DEF D, SimState
  <2> QED
    BY <2>15 DEF IsSimulation, result
<1> QED
  BY <1>1, <1>2

\* The longest latency of a finite set of instances exists.
LEMMA LatencyLemma ==
  ASSUME NEW A \in SUBSET Instance, workload \in Workload
  PROVE  PodReadyLatency(A) \in Nat
<1> DEFINE r == workload.readyLatency
           Bounded(B) == \E N \in Nat : \A i \in B : r[i] <= N
           T == {n \in Nat : \A B \in SUBSET Instance : Cardinality(B) = n => Bounded(B)}
<1>1. r \in [Instance -> Nat]
  BY RecommenderAssumption
<1>2. \A B \in SUBSET Instance : IsFiniteSet(B) /\ Cardinality(B) \in Nat
  BY ScraperAssumption, FS_Subset, FS_CardinalityType
<1>3. 0 \in T
  <2>1. \A B \in SUBSET Instance : Cardinality(B) = 0 => B = {}
    BY <1>2, FS_EmptySet
  <2> QED
    BY <2>1
<1> HIDE DEF r
<1>4. ASSUME NEW n \in Nat, n \in T PROVE n + 1 \in T
  <2> SUFFICES ASSUME NEW B \in SUBSET Instance, Cardinality(B) = n + 1 PROVE Bounded(B)
    OBVIOUS
  <2>1. B # {}
    BY FS_EmptySet
  <2>2. PICK x \in B : TRUE
    BY <2>1
  <2>3. B \ {x} \in SUBSET Instance /\ Cardinality(B \ {x}) = n
    BY <1>2, <2>2, FS_RemoveElement
  <2>4. Bounded(B \ {x})
    BY <1>4, <2>3
  <2>5. PICK N \in Nat : \A i \in B \ {x} : r[i] <= N
    BY <2>4
  <2>6. r[x] \in Nat /\ N + r[x] \in Nat
    BY <1>1, <2>2
  <2>7. \A i \in B : r[i] <= N + r[x]
    BY <1>1, <2>5, <2>6
  <2> QED
    BY <2>6, <2>7
<1>5. Bounded(A)
  <2>1. Cardinality(A) \in Nat
    BY <1>2
  <2>2. Cardinality(A) \in T
    <3> HIDE DEF T
    <3> QED
      BY <1>3, <1>4, <2>1, InductionLemma
  <2> QED
    BY <2>2
<1>6. PICK N \in Nat : \A i \in A : r[i] <= N
  BY <1>5
<1> DEFINE U == {0} \cup {r[i] : i \in A}
<1>7. U \subseteq Nat /\ U # {} /\ \A u \in U : u <= N
  BY <1>1, <1>6
<1>8. PodReadyLatency(A) = Max(U)
  BY DEF PodReadyLatency, r
<1> HIDE DEF U
<1>9. Max(U) \in U
  BY <1>7, MaxLemma
<1> QED
  BY <1>7, <1>8, <1>9

HPAConfiguration == [Min : Nat, Max : Nat, TargetMetricValue : Nat]

\* The types of the results that the search does not depend on.
IsTypedSearch(s) ==
  /\ s.calculatedMin \in Nat /\ s.simulated \in Seq(Nat)
  /\ s.savings \in Nat /\ s.optimalTarget \in Nat

TypeInv ==
  /\ acl \in Nat
  /\ IsTypedSearch(search)
  /\ answer \in HPAConfiguration

LEMMA NoOperationLemma ==
  ASSUME IInv
  PROVE  NoOperation \in HPAConfiguration
<1>1. config \in Config /\ workload \in Workload /\ maxReplicas \in Nat
  BY DEF IInv, InputInv
<1>2. config.minTarget \in Nat
  BY <1>1, InputLemma
<1> QED
  BY <1>1, <1>2 DEF NoOperation, HPAConfiguration

\* The steps before the search keep the types.
LEMMA BeforeTypeLemma ==
  ASSUME IInv, TypeInv, Before
  PROVE  TypeInv'
<1> USE DEF At, Goto
<1>1. search = NewSearch
  BY DEF Before, IInv, Scrape, Scraped, getMaxPods, AnnotationUnread, CheckThreshold,
     Transform, GetACLByWorkload, getContainerCPULimitsSum, getMaxPodsFails,
     TransformFails, CPULimitsFail
<1>2. UNCHANGED search
  BY <1>1 DEF Before, Scrape, Scraped, getMaxPods, AnnotationUnread, CheckThreshold,
     Transform, GetACLByWorkload, getContainerCPULimitsSum, getMaxPodsFails,
     TransformFails, CPULimitsFail, recommenderVars
<1>3. acl \in Nat /\ IsTypedSearch(search) /\ answer \in HPAConfiguration
  BY DEF TypeInv
<1>4. IsTypedSearch(search')
  BY <1>2, <1>3
<1>5. answer' \in HPAConfiguration
  BY <1>3, NoOperationLemma DEF Before, Scrape, Scraped, getMaxPods, AnnotationUnread,
     CheckThreshold, Transform, GetACLByWorkload, getContainerCPULimitsSum, getMaxPodsFails,
     TransformFails, CPULimitsFail, recommenderVars
<1>6. acl' \in Nat
  <2>1. CASE GetACLByWorkload
    <3>1. PICK failing \in SUBSET Instance :
            acl' = acl \/ acl' = MetricLag + PodReadyLatency(Instance \ failing)
      BY <2>1 DEF GetACLByWorkload
    <3>2. workload \in Workload /\ Instance \ failing \in SUBSET Instance
      BY DEF IInv, InputInv
    <3>3. PodReadyLatency(Instance \ failing) \in Nat
      BY <3>2, LatencyLemma
    <3>4. MetricLag \in Nat
      BY RecommenderAssumption
    <3> QED
      BY <1>3, <3>1, <3>3, <3>4
  <2>2. CASE UNCHANGED acl
    BY <1>3, <2>2
  <2> QED
    BY <2>1, <2>2 DEF Before, Scrape, Scraped, getMaxPods, AnnotationUnread,
       CheckThreshold, Transform, getContainerCPULimitsSum, getMaxPodsFails,
       TransformFails, CPULimitsFail, recommenderVars
<1> QED
  BY <1>4, <1>5, <1>6 DEF TypeInv

\* The steps of the search keep the types.
LEMMA SearchTypeLemma ==
  ASSUME PointsInv, IInv, TypeInv, SimulateMid \/ NextMinimum \/ Recommend
  PROVE  TypeInv'
<1> USE DEF At, Goto
<1>1. /\ config \in Config /\ workload \in Workload /\ maxReplicas \in Nat
      /\ search \in Search /\ RangeInv
  BY DEF IInv, InputInv, SearchInv
<1>2. /\ config.minTarget \in Nat /\ config.maxTarget \in Nat
      /\ workload.perPodResources \in Nat \ {0}
  BY <1>1, InputLemma, RecommenderAssumption
<1>3. /\ search.minReplicas \in Nat /\ search.low \in Nat /\ search.high \in Int
      /\ search.optimalMin \in Nat
  BY <1>1 DEF Search, SearchOf
<1>4. acl \in Nat /\ IsTypedSearch(search) /\ answer \in HPAConfiguration
  BY DEF TypeInv
<1>5. UNCHANGED acl
  BY DEF SimulateMid, NextMinimum, Recommend
<1>6. dataPoints \in Seq(DataPoint)
  BY OrderedLemma DEF PointsInv
<1>7. CASE SimulateMid
  <2>1. UNCHANGED answer /\ Searching
    BY <1>7 DEF SimulateMid
  <2>2. CASE UNCHANGED search
    BY <1>4, <1>5, <2>1, <2>2 DEF TypeInv
  <2>3. CASE ~IsInvalidTarget(dataPoints, Mid)
    <3> DEFINE simulation == Simulation(Mid, search.minReplicas)
    <3>1. search' = Narrowed(simulation)
      BY <1>7, <2>3 DEF SimulateMid
    <3>2. Mid \in Nat
      <4>1. Mid \in search.low..search.high
        BY <1>3, <2>1, MidLemma
      <4> QED
        BY <1>3, <4>1
    <3>3. IsSimulation(simulation)
      BY <1>1, <1>2, <1>3, <1>4, <1>6, <2>3, <3>2, SimulationLemma DEF Simulation
    <3> HIDE DEF simulation
    <3>4. /\ search'.calculatedMin = simulation.calculatedMin
          /\ search'.simulated = simulation.simulated
          /\ search'.savings = search.savings
          /\ search'.optimalTarget = search.optimalTarget
      BY <1>1, <3>1 DEF Narrowed, Search, SearchOf
    <3>5. IsTypedSearch(search')
      BY <1>4, <3>3, <3>4 DEF IsTypedSearch, IsSimulation
    <3> QED
      BY <1>4, <1>5, <2>1, <3>5 DEF TypeInv
  <2> QED
    BY <1>7, <2>2, <2>3 DEF SimulateMid
<1>8. CASE NextMinimum
  <2> DEFINE s == Chosen
             saved == calculateSavings(maxReplicas, search.simulated)
  <2>1. UNCHANGED answer /\ search' = Restarted(s)
    BY <1>8 DEF NextMinimum
  <2>2. saved \in Int
    BY <1>1, <1>4, SavingsLemma DEF IsTypedSearch
  <2>3. s \in SearchOf(s) /\ s.optimalTarget \in Nat /\ s.savings \in Nat
    <3>1. CASE IsCandidate
      <4>1. saved >= search.savings /\ search.high >= config.minTarget
        BY <3>1 DEF IsCandidate
      <4>2. s = [search EXCEPT !.optimalTarget = search.high, !.optimalMin = search.minReplicas,
                               !.savings = saved]
        BY <3>1 DEF Chosen
      <4> HIDE DEF s, saved
      <4>3. s.optimalTarget = search.high /\ s.savings = saved
        BY <1>1, <4>2 DEF Search, SearchOf
      <4>4. s \in SearchOf(s)
        BY <1>1, <4>2 DEF Search, SearchOf
      <4>5. saved \in Nat /\ search.high \in Nat
        BY <1>2, <1>3, <1>4, <2>2, <4>1 DEF IsTypedSearch
      <4> QED
        BY <4>3, <4>4, <4>5
    <3>2. CASE ~IsCandidate
      <4>1. s = search
        BY <3>2 DEF Chosen
      <4> HIDE DEF s
      <4> QED
        BY <1>1, <1>4, <4>1 DEF Search, IsTypedSearch
    <3> QED
      BY <3>1, <3>2
  <2> HIDE DEF s
  <2>4. /\ search'.calculatedMin = 0 /\ search'.simulated = << >>
        /\ search'.savings = s.savings /\ search'.optimalTarget = s.optimalTarget
    BY <2>1, <2>3 DEF Restarted, SearchOf
  <2>5. IsTypedSearch(search')
    BY <2>3, <2>4 DEF IsTypedSearch
  <2> QED
    BY <1>4, <1>5, <2>1, <2>5 DEF TypeInv
<1>9. CASE Recommend
  <2>1. UNCHANGED search
    BY <1>9 DEF Recommend
  <2>2. answer' \in HPAConfiguration
    <3>1. CASE IsUnable
      BY <1>9, <3>1, NoOperationLemma DEF Recommend
    <3>2. CASE ~IsUnable
      <4>1. answer' = [Min |-> search.optimalMin, Max |-> maxReplicas,
                       TargetMetricValue |-> search.optimalTarget]
        BY <1>9, <3>2 DEF Recommend
      <4> QED
        BY <1>1, <1>3, <1>4, <4>1 DEF HPAConfiguration, IsTypedSearch
    <3> QED
      BY <3>1, <3>2
  <2> QED
    BY <1>4, <1>5, <2>1, <2>2 DEF TypeInv
<1> QED
  BY <1>7, <1>8, <1>9

(***************************************************************************)
(* The types, for every configuration, workload and window: a target that  *)
(* is simulated does not divide by zero, the lines of the transformer do   *)
(* not go below zero, no timer takes replicas away, and a candidate's      *)
(* target and savings are natural numbers                                  *)
(* (reco.go:176-240, 262-293, 301-311, metrics_transformer.go:97-130).     *)
(***************************************************************************)
THEOREM TypesAreKept == Spec => []TypeOK
<1>1. Init => TypeInv
  <2> SUFFICES ASSUME Init PROVE TypeInv
    OBVIOUS
  <2>1. acl = 0 /\ search = NewSearch /\ answer = NoAnswer
    BY DEF Init
  <2>2. IsTypedSearch(search)
    BY <2>1 DEF IsTypedSearch, NewSearch
  <2> QED
    BY <2>1, <2>2 DEF TypeInv, NoAnswer, HPAConfiguration
<1>2. PointsInv /\ IInv /\ TypeInv /\ [Next]_vars => TypeInv'
  <2> SUFFICES ASSUME PointsInv, IInv, TypeInv, [Next]_vars PROVE TypeInv'
    OBVIOUS
  <2>1. CASE Before
    BY <2>1, BeforeTypeLemma
  <2>2. CASE SimulateMid \/ NextMinimum \/ Recommend
    BY <2>2, SearchTypeLemma
  <2>3. CASE UNCHANGED vars
    BY <2>3 DEF vars, recommenderVars, TypeInv
  <2> QED
    BY <2>1, <2>2, <2>3 DEF Next, Before
<1>3. PointsInv /\ IInv /\ TypeInv => TypeOK
  <2> SUFFICES ASSUME PointsInv, IInv, TypeInv PROVE TypeOK
    OBVIOUS
  <2>1. ScraperTypeOK /\ dataPoints \in Seq(DataPoint)
    BY OrderedLemma DEF PointsInv, ScraperInv
  <2>2. /\ config \in Config /\ workload \in Workload /\ pc \in Place
        /\ maxReplicas \in Nat /\ callFaults \in Nat
    BY DEF IInv, InputInv
  <2>3. search \in [minReplicas : Nat, low : Nat, high : Int, calculatedMin : Nat,
                    simulated : Seq(Nat), optimalTarget : Nat, optimalMin : Nat, savings : Nat]
    <3>1. search \in Search /\ IsTypedSearch(search)
      BY DEF IInv, SearchInv, TypeInv
    <3> QED
      BY <3>1 DEF Search, SearchOf, IsTypedSearch
  <2>4. acl \in Nat /\ answer \in [Min : Nat, Max : Nat, TargetMetricValue : Nat]
    BY DEF TypeInv, HPAConfiguration
  <2> QED
    BY <2>1, <2>2, <2>3, <2>4 DEF TypeOK, Place
<1> QED
  BY <1>1, <1>2, <1>3, Invariance, PointsInvariance, PTL DEF Spec
================================================================================

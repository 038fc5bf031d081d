------------------------------ MODULE MCRecommender ------------------------------
(***************************************************************************)
(* Instances of Recommender for TLC.  A replica has 120 units of CPU.      *)
(***************************************************************************)
EXTENDS Recommender

\* A steady load, a spike, and a load that falls and rises again; nothing, only
\* the ends, a point or two missing.
MCSeries ==
  {[t \in {} |-> 0],
   [t \in 0..4 |-> 120],
   [t \in 0..4 |-> IF t = 2 THEN 360 ELSE 120],
   [t \in {0, 4} |-> 240],
   [t \in {0, 1, 3, 4} |-> IF t \in {1, 4} THEN 360 ELSE 0],
   [t \in {0, 3} |-> 120 * t]}

Event(start, end) == [start |-> start, end |-> end]

MCEvents ==
  {{},
   {Event(1, 3)},
   {Event(0, 2), Event(1, 4)},
   {Event(Unparsable, 1), Event(3, Unparsable)},
   {Event(2, 9), Event(0, 2)},
   {Event(3, 5), Event(0, 2)}}

MCConfig ==
  {[minTarget |-> 10, maxTarget |-> 60, redLineUtil |-> 85, threshold |-> 100],
   [minTarget |-> 50, maxTarget |-> 95, redLineUtil |-> 85, threshold |-> 0]}

Deployed(annotated, annotation, autoscalerMax, replicas, latency) ==
  [ perPodResources |-> 120, annotated |-> annotated, annotation |-> annotation,
    autoscalerMax |-> autoscalerMax, replicas |-> replicas, readyLatency |-> latency ]

MCWorkload ==
  { Deployed(TRUE, 5, 3, 2, [i \in Instance |-> 1]),
    Deployed(FALSE, 0, 4, 2, [i \in Instance |-> IF i = "p1" THEN 0 ELSE 2]),
    Deployed(TRUE, 0, 0, 2, [i \in Instance |-> 1]) }
================================================================================

---------------------------- MODULE RegistrarProofs ----------------------------
(***************************************************************************)
(* The registrar never rests with work left.  PendingInv says what keeps   *)
(* it awake: a workload it knows of is queued, under way or monitored, and *)
(* where it sees no PolicyRecommendation it is queued or under way, or it  *)
(* will see one.                                                           *)
(***************************************************************************)
EXTENDS Registrar, SequenceTheorems, TLAPS

InformerTypeOK ==
  /\ server \in Objects
  /\ server.reco.owner = 0 => server.reco = NoReco
  /\ watch \in [workload : Seq(Nat), reco : Seq(Reco)]
  /\ cache \in Objects

\* The newest version an informer has or is about to get is the server's.
Agrees(versions, copy, object) ==
  /\ versions = << >> => copy = object
  /\ versions # << >> => versions[Len(versions)] = object

InformerInv ==
  /\ InformerTypeOK
  /\ Agrees(watch.workload, cache.workload, server.workload)
  /\ Agrees(watch.reco, cache.reco, server.reco)

\* A version with a PolicyRecommendation is on its way.
RecoComes == \E i \in 1..Len(watch.reco) : watch.reco[i].owner # 0

Awake == queued \/ pc # "idle"

PendingInv ==
  isWhitelistedNamespace =>
    /\ cache.workload # 0 => Awake \/ monitored
    /\ "reco" \notin Relisted =>
         /\ cache.workload # 0 /\ cache.reco.owner = 0 => Awake \/ RecoComes
         /\ pc = "patch" => queued \/ cache.reco.owner # 0 \/ RecoComes

ControlInv ==
  /\ policies \in BOOLEAN
  /\ queued \in BOOLEAN
  /\ pc \in {"idle", "create", "patch"}
  /\ pc = "create" => uid # 0
  /\ uid \in Nat
  /\ monitored \in BOOLEAN
  /\ budget \in [workload : Nat, deletion : Nat, relist : Nat, fault : Nat, crash : Nat]
  /\ budget.workload <= MaxWorkloads

IInv == InformerInv /\ ControlInv /\ PendingInv

--------------------------------------------------------------------------------
(***************************************************************************)
(* The API server and the informers.                                       *)
(***************************************************************************)
LEMMA ComponentTypes ==
  ASSUME InformerTypeOK
  PROVE  /\ server.workload \in Nat /\ server.reco \in Reco
         /\ cache.workload \in Nat /\ cache.reco \in Reco
         /\ watch.workload \in Seq(Nat) /\ watch.reco \in Seq(Reco)
         /\ server = [workload |-> server.workload, reco |-> server.reco]
         /\ cache = [workload |-> cache.workload, reco |-> cache.reco]
         /\ watch = [workload |-> watch.workload, reco |-> watch.reco]
BY DEF InformerTypeOK, Objects

\* A version is put behind those that are not delivered yet.
LEMMA AppendAgrees ==
  ASSUME NEW S, NEW versions \in Seq(S), NEW object \in S, NEW copy
  PROVE  /\ Append(versions, object) \in Seq(S)
         /\ Agrees(Append(versions, object), copy, object)
<1> DEFINE new == Append(versions, object)
           n == Len(versions)
<1>1. new \in Seq(S) /\ new # << >> /\ Len(new) = n + 1 /\ new[n + 1] = object
  BY AppendProperties
<1> HIDE DEF new
<1>2. Agrees(new, copy, object)
  BY <1>1 DEF Agrees
<1> QED
  BY <1>1, <1>2 DEF new

\* The oldest version is delivered.
LEMMA TailAgrees ==
  ASSUME NEW S, NEW versions \in Seq(S), versions # << >>, NEW copy, NEW object,
         Agrees(versions, copy, object)
  PROVE  /\ Head(versions) \in S /\ Tail(versions) \in Seq(S)
         /\ Agrees(Tail(versions), Head(versions), object)
<1> DEFINE rest == Tail(versions)
           n == Len(versions)
<1>1. /\ rest \in Seq(S) /\ Len(rest) = n - 1
      /\ \A i \in 1..Len(rest) : rest[i] = versions[i + 1]
      /\ Head(versions) \in S
  BY HeadTailProperties
<1>2. n \in Nat \ {0} /\ Head(versions) = versions[1]
  BY EmptySeq
<1>3. versions[n] = object
  BY DEF Agrees
<1> HIDE DEF rest, n
<1>4. rest = << >> => n = 1
  <2>1. rest = << >> => Len(rest) = 0
    OBVIOUS
  <2> QED
    BY <2>1, <1>1, <1>2
<1>5. rest # << >> => rest[Len(rest)] = object
  <2> SUFFICES ASSUME rest # << >> PROVE rest[Len(rest)] = object
    OBVIOUS
  <2>1. Len(rest) \in Nat \ {0}
    BY <1>1, EmptySeq
  <2>2. Len(rest) \in 1..Len(rest) /\ Len(rest) + 1 = n
    BY <2>1, <1>1, <1>2
  <2> QED
    BY <2>2, <1>1, <1>3
<1>6. Agrees(rest, Head(versions), object)
  BY <1>2, <1>3, <1>4, <1>5 DEF Agrees
<1> QED
  BY <1>1, <1>6 DEF rest

LEMMA WriteWorkload ==
  ASSUME InformerInv, NEW object \in Nat, Write("workload", object)
  PROVE  /\ InformerInv'
         /\ cache' = cache /\ watch'.reco = watch.reco
<1>1. /\ server.workload \in Nat /\ server.reco \in Reco
      /\ cache.workload \in Nat /\ cache.reco \in Reco
      /\ watch.workload \in Seq(Nat) /\ watch.reco \in Seq(Reco)
      /\ server = [workload |-> server.workload, reco |-> server.reco]
      /\ watch = [workload |-> watch.workload, reco |-> watch.reco]
  BY ComponentTypes DEF InformerInv
<1> DEFINE versions == Append(watch.workload, object)
<1>2. /\ server' = [workload |-> object, reco |-> server.reco]
      /\ watch' = [workload |-> versions, reco |-> watch.reco]
      /\ cache' = cache
  BY <1>1 DEF Write
<1>3. versions \in Seq(Nat) /\ Agrees(versions, cache.workload, object)
  BY <1>1, AppendAgrees
<1> HIDE DEF versions
<1>4. /\ server'.workload = object /\ server'.reco = server.reco
      /\ watch'.workload = versions /\ watch'.reco = watch.reco
  BY <1>2
<1>5. InformerTypeOK'
  BY <1>1, <1>2, <1>3, <1>4 DEF InformerInv, InformerTypeOK, Objects
<1>6. InformerInv'
  BY <1>2, <1>3, <1>4, <1>5 DEF InformerInv, Agrees
<1> QED
  BY <1>2, <1>4, <1>6

LEMMA WriteReco ==
  ASSUME InformerInv, NEW object \in Reco, object.owner = 0 => object = NoReco,
         Write("reco", object)
  PROVE  /\ InformerInv'
         /\ cache' = cache
         /\ RecoComes => RecoComes'
         /\ object.owner # 0 => RecoComes'
<1>1. /\ server.workload \in Nat /\ server.reco \in Reco
      /\ cache.workload \in Nat /\ cache.reco \in Reco
      /\ watch.workload \in Seq(Nat) /\ watch.reco \in Seq(Reco)
      /\ server = [workload |-> server.workload, reco |-> server.reco]
      /\ watch = [workload |-> watch.workload, reco |-> watch.reco]
  BY ComponentTypes DEF InformerInv
<1> DEFINE versions == Append(watch.reco, object)
           n == Len(watch.reco)
<1>2. /\ server' = [workload |-> server.workload, reco |-> object]
      /\ watch' = [workload |-> watch.workload, reco |-> versions]
      /\ cache' = cache
  BY <1>1 DEF Write
<1>3. versions \in Seq(Reco) /\ Agrees(versions, cache.reco, object)
  BY <1>1, AppendAgrees
<1>4. /\ Len(versions) = n + 1 /\ versions[n + 1] = object /\ n \in Nat
      /\ \A i \in 1..n : versions[i] = watch.reco[i]
  BY <1>1, AppendProperties, LenProperties
<1> HIDE DEF versions, n
<1>5. /\ server'.workload = server.workload /\ server'.reco = object
      /\ watch'.workload = watch.workload /\ watch'.reco = versions
  BY <1>2
<1>6. InformerTypeOK'
  BY <1>1, <1>2, <1>3, <1>5 DEF InformerInv, InformerTypeOK, Objects
<1>7. InformerInv'
  BY <1>2, <1>3, <1>5, <1>6 DEF InformerInv, Agrees
<1>8. RecoComes' <=> \E i \in 1..(n + 1) : versions[i].owner # 0
  BY <1>4, <1>5 DEF RecoComes
<1>9. RecoComes => RecoComes'
  <2> SUFFICES ASSUME NEW i \in 1..n, watch.reco[i].owner # 0 PROVE RecoComes'
    BY DEF RecoComes, n
  <2>1. i \in 1..(n + 1) /\ versions[i].owner # 0
    BY <1>4
  <2> QED
    BY <2>1, <1>8
<1>10. object.owner # 0 => RecoComes'
  <2>1. n + 1 \in 1..(n + 1)
    BY <1>4
  <2> QED
    BY <2>1, <1>4, <1>8
<1> QED
  BY <1>2, <1>7, <1>9, <1>10

LEMMA SameInformers ==
  ASSUME InformerInv, UNCHANGED informerVars
  PROVE  InformerInv' /\ RecoComes' = RecoComes /\ cache' = cache
<1>1. server' = server /\ watch' = watch /\ cache' = cache
  BY DEF informerVars
<1>2. InformerInv'
  BY <1>1 DEF InformerInv, InformerTypeOK
<1> QED
  BY <1>1, <1>2 DEF RecoComes

LEMMA SpendType ==
  ASSUME ControlInv, NEW what \in {"workload", "deletion", "relist", "fault", "crash"},
         Spend(what)
  PROVE  /\ budget' \in [workload : Nat, deletion : Nat, relist : Nat, fault : Nat, crash : Nat]
         /\ budget'.workload <= MaxWorkloads
         /\ what = "workload" => MaxWorkloads - budget'.workload \in Nat
<1>1. /\ budget \in [workload : Nat, deletion : Nat, relist : Nat, fault : Nat, crash : Nat]
      /\ budget.workload <= MaxWorkloads /\ MaxWorkloads \in Nat
  BY RegistrarAssumption DEF ControlInv
<1>2. /\ budget[what] \in Nat /\ budget[what] > 0
      /\ budget' = [budget EXCEPT ![what] = budget[what] - 1]
  BY <1>1 DEF Spend
<1>3. /\ budget' \in [workload : Nat, deletion : Nat, relist : Nat, fault : Nat, crash : Nat]
      /\ budget'.workload <= budget.workload
  <2>1. budget[what] - 1 \in Nat
    BY <1>2
  <2>2. budget' \in [workload : Nat, deletion : Nat, relist : Nat, fault : Nat, crash : Nat]
    BY <2>1, <1>1, <1>2
  <2>3. CASE what = "workload"
    BY <2>3, <1>1, <1>2
  <2>4. CASE what # "workload"
    BY <2>4, <1>1, <1>2
  <2> QED
    BY <2>2, <2>3, <2>4
<1> QED
  BY <1>1, <1>3

LEMMA WakesTypes ==
  /\ isWhitelistedNamespace \in BOOLEAN
  /\ \A old, new : Wakes("workload", old, new) <=> isWhitelistedNamespace /\ old = 0 /\ new # 0
  /\ \A old, new : Wakes("reco", old, new) <=>
                     isWhitelistedNamespace /\ old.owner # 0 /\ new.owner = 0
<1>1. isWhitelistedNamespace \in BOOLEAN
  <2>1. CASE IncludedNamespaces # {}
    <3>1. isWhitelistedNamespace = (Namespace \in IncludedNamespaces)
      BY <2>1 DEF isWhitelistedNamespace
    <3> QED
      BY <3>1
  <2>2. CASE IncludedNamespaces = {}
    <3>1. isWhitelistedNamespace = (Namespace \notin ExcludedNamespaces)
      BY <2>2 DEF isWhitelistedNamespace
    <3> QED
      BY <3>1
  <2> QED
    BY <2>1, <2>2
<1>2. \A old, new : Wakes("workload", old, new) <=> isWhitelistedNamespace /\ old = 0 /\ new # 0
  BY DEF Wakes, createPredicate
<1>3. \A old, new : Wakes("reco", old, new) <=>
                      isWhitelistedNamespace /\ old.owner # 0 /\ new.owner = 0
  BY DEF Wakes, deletePredicate
<1> QED
  BY <1>1, <1>2, <1>3

--------------------------------------------------------------------------------
LEMMA DeliverWorkload ==
  ASSUME IInv, Deliver("workload")
  PROVE  IInv'
<1> DEFINE head == Head(watch.workload)
           rest == Tail(watch.workload)
<1>1. /\ server.workload \in Nat /\ server.reco \in Reco
      /\ cache.workload \in Nat /\ cache.reco \in Reco
      /\ watch.workload \in Seq(Nat) /\ watch.reco \in Seq(Reco)
      /\ cache = [workload |-> cache.workload, reco |-> cache.reco]
      /\ watch = [workload |-> watch.workload, reco |-> watch.reco]
  BY ComponentTypes DEF IInv, InformerInv
<1>2. /\ watch.workload # << >>
      /\ queued' = (queued \/ Wakes("workload", cache.workload, head))
      /\ cache' = [workload |-> head, reco |-> cache.reco]
      /\ watch' = [workload |-> rest, reco |-> watch.reco]
      /\ UNCHANGED <<server, pc, uid, monitored, policies, budget>>
  BY <1>1 DEF Deliver
<1>3. head \in Nat /\ rest \in Seq(Nat) /\ Agrees(rest, head, server.workload)
  BY <1>1, <1>2, TailAgrees DEF IInv, InformerInv
<1> HIDE DEF head, rest
<1>4. /\ cache'.workload = head /\ cache'.reco = cache.reco
      /\ watch'.workload = rest /\ watch'.reco = watch.reco
  BY <1>2
<1>5. InformerInv'
  <2>1. InformerTypeOK'
    BY <1>1, <1>2, <1>3 DEF IInv, InformerInv, InformerTypeOK, Objects
  <2> QED
    BY <2>1, <1>2, <1>3, <1>4 DEF IInv, InformerInv, Agrees
<1>6. queued' \in BOOLEAN
  BY <1>2
<1>7. ControlInv'
  BY <1>2, <1>6 DEF IInv, ControlInv
<1>8. RecoComes' <=> RecoComes
  BY <1>4 DEF RecoComes
<1>9. /\ queued => queued'
      /\ isWhitelistedNamespace /\ cache.workload = 0 /\ cache'.workload # 0 => queued'
  BY <1>2, <1>4, WakesTypes
<1>10. PendingInv'
  BY <1>2, <1>4, <1>8, <1>9 DEF IInv, PendingInv, Awake
<1> QED
  BY <1>5, <1>7, <1>10 DEF IInv

LEMMA DeliverReco ==
  ASSUME IInv, Deliver("reco")
  PROVE  IInv'
<1> DEFINE head == Head(watch.reco)
           rest == Tail(watch.reco)
           n == Len(watch.reco)
<1>1. /\ server.workload \in Nat /\ server.reco \in Reco
      /\ cache.workload \in Nat /\ cache.reco \in Reco
      /\ watch.workload \in Seq(Nat) /\ watch.reco \in Seq(Reco)
      /\ cache = [workload |-> cache.workload, reco |-> cache.reco]
      /\ watch = [workload |-> watch.workload, reco |-> watch.reco]
  BY ComponentTypes DEF IInv, InformerInv
<1>2. /\ watch.reco # << >>
      /\ queued' = (queued \/ Wakes("reco", cache.reco, head))
      /\ cache' = [workload |-> cache.workload, reco |-> head]
      /\ watch' = [workload |-> watch.workload, reco |-> rest]
      /\ UNCHANGED <<server, pc, uid, monitored, policies, budget>>
  BY <1>1 DEF Deliver
<1>3. head \in Reco /\ rest \in Seq(Reco) /\ Agrees(rest, head, server.reco)
  BY <1>1, <1>2, TailAgrees DEF IInv, InformerInv
<1>4. /\ n \in Nat \ {0} /\ head = watch.reco[1] /\ Len(rest) = n - 1
      /\ \A i \in 1..(n - 1) : rest[i] = watch.reco[i + 1]
  BY <1>1, <1>2, EmptySeq, HeadTailProperties
<1> HIDE DEF head, rest, n
<1>5. /\ cache'.workload = cache.workload /\ cache'.reco = head
      /\ watch'.workload = watch.workload /\ watch'.reco = rest
  BY <1>2
<1>6. InformerInv'
  <2>1. InformerTypeOK'
    BY <1>1, <1>2, <1>3 DEF IInv, InformerInv, InformerTypeOK, Objects
  <2> QED
    BY <2>1, <1>2, <1>3, <1>5 DEF IInv, InformerInv, Agrees
<1>7. queued' \in BOOLEAN
  BY <1>2
<1>8. ControlInv'
  BY <1>2, <1>7 DEF IInv, ControlInv
<1>9. RecoComes /\ head.owner = 0 => RecoComes'
  <2> SUFFICES ASSUME NEW k \in 1..n, watch.reco[k].owner # 0, head.owner = 0
               PROVE  RecoComes'
    BY DEF RecoComes, n
  <2>1. k # 1
    BY <1>4
  <2>2. k - 1 \in 1..(n - 1) /\ (k - 1) + 1 = k
    BY <2>1, <1>4
  <2>3. rest[k - 1].owner # 0
    BY <2>2, <1>4
  <2> QED
    BY <2>2, <2>3, <1>4, <1>5 DEF RecoComes
<1>10. /\ queued => queued'
       /\ isWhitelistedNamespace /\ cache.reco.owner # 0 /\ cache'.reco.owner = 0 => queued'
  BY <1>2, <1>5, WakesTypes
<1>11. PendingInv'
  BY <1>2, <1>5, <1>9, <1>10 DEF IInv, PendingInv, Awake
<1> QED
  BY <1>6, <1>8, <1>11 DEF IInv

LEMMA RelistPreserves ==
  ASSUME IInv, NEW kind \in Kind, Relist(kind)
  PROVE  IInv'
<1>1. /\ server.workload \in Nat /\ server.reco \in Reco
      /\ cache.workload \in Nat /\ cache.reco \in Reco
      /\ watch.workload \in Seq(Nat) /\ watch.reco \in Seq(Reco)
      /\ cache = [workload |-> cache.workload, reco |-> cache.reco]
      /\ watch = [workload |-> watch.workload, reco |-> watch.reco]
  BY ComponentTypes DEF IInv, InformerInv
<1>2. /\ kind \in Relisted
      /\ queued' = (queued \/ Wakes(kind, cache[kind], server[kind]))
      /\ UNCHANGED <<server, pc, uid, monitored, policies>>
  BY DEF Relist
<1>3. queued' \in BOOLEAN /\ (queued => queued')
  BY <1>2 DEF IInv, ControlInv
<1>4. ControlInv'
  BY <1>2, <1>3, SpendType DEF IInv, ControlInv, Relist
<1>5. CASE kind = "workload"
  <2>1. /\ cache' = [workload |-> server.workload, reco |-> cache.reco]
        /\ watch' = [workload |-> << >>, reco |-> watch.reco]
    BY <1>1, <1>5 DEF Relist
  <2>2. /\ cache'.workload = server.workload /\ cache'.reco = cache.reco
        /\ watch'.workload = << >> /\ watch'.reco = watch.reco
    BY <2>1
  <2>3. InformerTypeOK'
    BY <2>1, <1>1, <1>2 DEF IInv, InformerInv, InformerTypeOK, Objects
  <2>4. InformerInv'
    BY <2>2, <2>3, <1>2 DEF IInv, InformerInv, Agrees
  <2>5. RecoComes' <=> RecoComes
    BY <2>2 DEF RecoComes
  <2>6. isWhitelistedNamespace /\ cache.workload = 0 /\ cache'.workload # 0 => queued'
    BY <2>2, <1>2, <1>5, WakesTypes
  <2>7. PendingInv'
    BY <2>2, <2>5, <2>6, <1>2, <1>3 DEF IInv, PendingInv, Awake
  <2> QED
    BY <2>4, <2>7, <1>4 DEF IInv
<1>6. CASE kind = "reco"
  <2>1. /\ cache' = [workload |-> cache.workload, reco |-> server.reco]
        /\ watch' = [workload |-> watch.workload, reco |-> << >>]
    BY <1>1, <1>6 DEF Relist
  <2>2. /\ cache'.workload = cache.workload /\ cache'.reco = server.reco
        /\ watch'.workload = watch.workload /\ watch'.reco = << >>
    BY <2>1
  <2>3. InformerTypeOK'
    BY <2>1, <1>1, <1>2 DEF IInv, InformerInv, InformerTypeOK, Objects
  <2>4. InformerInv'
    BY <2>2, <2>3, <1>2 DEF IInv, InformerInv, Agrees
  <2>5. PendingInv'
    BY <2>2, <1>2, <1>3, <1>6 DEF IInv, PendingInv, Awake
  <2> QED
    BY <2>4, <2>5, <1>4 DEF IInv
<1> QED
  BY <1>5, <1>6 DEF Kind

--------------------------------------------------------------------------------
(***************************************************************************)
(* The reconciler.                                                         *)
(***************************************************************************)
\* An error keeps the registrar awake.
LEMMA RequeuePends ==
  ASSUME Requeue
  PROVE  PendingInv' /\ queued' \in BOOLEAN /\ pc' = "idle" /\ monitored' = monitored
BY DEF Requeue, PendingInv, Awake

LEMMA ReconcilePreserves ==
  ASSUME IInv, Reconcile
  PROVE  IInv'
<1>1. InformerInv' /\ RecoComes' = RecoComes /\ cache' = cache
  BY SameInformers DEF IInv, Reconcile
<1>2. UNCHANGED <<policies, budget>>
  BY DEF Reconcile
<1>3. CASE cache.workload = 0
  <2>1. queued' = FALSE /\ UNCHANGED <<pc, uid, monitored>>
    BY <1>3 DEF Reconcile
  <2>2. ControlInv'
    BY <2>1, <1>2 DEF IInv, ControlInv
  <2>3. pc' # "patch" /\ cache'.workload = 0
    BY <2>1, <1>1, <1>3 DEF Reconcile
  <2>4. PendingInv'
    BY <2>3 DEF PendingInv
  <2> QED
    BY <2>2, <2>4, <1>1 DEF IInv
<1>4. CASE cache.workload # 0 /\ cache.reco.owner # 0
  <2>1. pc = "idle" /\ queued' = FALSE /\ monitored' = TRUE /\ UNCHANGED <<pc, uid>>
    BY <1>4 DEF Reconcile, RegisterMonitor
  <2>2. ControlInv'
    BY <2>1, <1>2 DEF IInv, ControlInv
  <2>3. PendingInv'
    BY <2>1, <1>1, <1>4 DEF PendingInv
  <2> QED
    BY <2>2, <2>3, <1>1 DEF IInv
<1>5. CASE cache.workload # 0 /\ cache.reco.owner = 0 /\ ~policies
  <2>1. Requeue /\ UNCHANGED uid
    BY <1>5 DEF Reconcile
  <2>2. ControlInv'
    BY <2>1, <1>2, RequeuePends DEF IInv, ControlInv
  <2> QED
    BY <2>1, <2>2, <1>1, RequeuePends DEF IInv
<1>6. CASE cache.workload # 0 /\ cache.reco.owner = 0 /\ policies
  <2>1. queued' = FALSE /\ pc' = "create" /\ uid' = cache.workload /\ UNCHANGED monitored
    BY <1>6 DEF Reconcile
  <2>2. cache.workload \in Nat
    BY ComponentTypes DEF IInv, InformerInv
  <2>3. ControlInv'
    BY <2>1, <2>2, <1>2, <1>6 DEF IInv, ControlInv
  <2>4. PendingInv'
    BY <2>1 DEF PendingInv, Awake
  <2> QED
    BY <2>3, <2>4, <1>1 DEF IInv
<1> QED
  BY <1>3, <1>4, <1>5, <1>6 DEF Reconcile

\* The answer of a call that changed something is lost.
LEMMA LostAnswer ==
  ASSUME ControlInv, InformerInv', Spend("fault"), Requeue, UNCHANGED <<uid, policies>>
  PROVE  IInv'
<1>1. ControlInv'
  BY RequeuePends, SpendType DEF ControlInv
<1> QED
  BY <1>1, RequeuePends DEF IInv

LEMMA CreatePreserves ==
  ASSUME IInv, createPolicyRecommendation
  PROVE  IInv'
<1>1. pc = "create" /\ uid \in Nat /\ uid # 0 /\ UNCHANGED <<uid, policies>>
  BY DEF IInv, ControlInv, createPolicyRecommendation
<1>2. CASE server.reco.owner # 0
  <2>1. Requeue /\ UNCHANGED <<informerVars, budget>>
    BY <1>2 DEF createPolicyRecommendation
  <2>2. InformerInv'
    BY <2>1, SameInformers DEF IInv
  <2>3. ControlInv'
    BY <2>1, <1>1, RequeuePends DEF IInv, ControlInv
  <2> QED
    BY <2>1, <2>2, <2>3, RequeuePends DEF IInv
<1>3. CASE server.reco.owner = 0
  <2>1. PICK object \in Reco : object = [owner |-> uid, initialized |-> FALSE] /\ object.owner = uid
    <3> DEFINE new == [owner |-> uid, initialized |-> FALSE]
    <3>1. new \in Reco /\ new.owner = uid
      BY <1>1 DEF Reco
    <3> QED
      BY <3>1
  <2>2. /\ Write("reco", object)
        /\ Answered(pc' = "patch" /\ UNCHANGED <<queued, monitored>>)
    BY <2>1, <1>3 DEF createPolicyRecommendation
  <2>3. InformerInv' /\ RecoComes'
    BY <2>1, <2>2, <1>1, WriteReco DEF IInv
  <2>4. CASE pc' = "patch" /\ UNCHANGED <<queued, monitored, budget>>
    <3>1. ControlInv'
      BY <2>4, <1>1 DEF IInv, ControlInv
    <3>2. PendingInv'
      BY <2>3, <2>4 DEF PendingInv, Awake
    <3> QED
      BY <3>1, <3>2, <2>3 DEF IInv
  <2>5. CASE Spend("fault") /\ Requeue
    BY <2>3, <2>5, <1>1, LostAnswer DEF IInv
  <2> QED
    BY <2>2, <2>4, <2>5 DEF Answered
<1> QED
  BY <1>2, <1>3

LEMMA PatchPreserves ==
  ASSUME IInv, PatchInitialized
  PROVE  IInv'
<1>1. pc = "patch" /\ UNCHANGED <<uid, policies>>
      /\ Answered(pc' = "idle" /\ RegisterMonitor /\ UNCHANGED queued)
  BY DEF PatchInitialized
<1>2. InformerInv' /\ cache' = cache /\ (RecoComes => RecoComes')
  <2>1. CASE server.reco.owner = 0
    BY <2>1, SameInformers DEF IInv, PatchInitialized
  <2>2. CASE server.reco.owner # 0
    <3>1. server.reco \in Reco
      BY ComponentTypes DEF IInv, InformerInv
    <3>2. PICK object \in Reco : /\ object = [server.reco EXCEPT !.initialized = TRUE]
                                 /\ object.owner = server.reco.owner
      <4> DEFINE new == [server.reco EXCEPT !.initialized = TRUE]
      <4>1. new \in Reco /\ new.owner = server.reco.owner
        BY <3>1 DEF Reco
      <4> QED
        BY <4>1
    <3>3. Write("reco", object)
      BY <3>2, <2>2 DEF PatchInitialized
    <3> QED
      BY <3>2, <3>3, <2>2, WriteReco DEF IInv
  <2> QED
    BY <2>1, <2>2
<1>3. CASE pc' = "idle" /\ RegisterMonitor /\ UNCHANGED <<queued, budget>>
  <2>1. ControlInv'
    BY <1>1, <1>3 DEF IInv, ControlInv, RegisterMonitor
  <2>2. PendingInv'
    BY <1>1, <1>2, <1>3 DEF IInv, PendingInv, Awake, RegisterMonitor
  <2> QED
    BY <2>1, <2>2, <1>2 DEF IInv
<1>4. CASE Spend("fault") /\ Requeue
  BY <1>1, <1>2, <1>4, LostAnswer DEF IInv
<1> QED
  BY <1>1, <1>3, <1>4 DEF Answered

LEMMA FailsPreserves ==
  ASSUME IInv, Fails
  PROVE  IInv'
<1>1. InformerInv'
  BY SameInformers DEF IInv, Fails
<1> QED
  BY <1>1, LostAnswer DEF IInv, Fails

LEMMA CrashPreserves ==
  ASSUME IInv, Crash
  PROVE  IInv'
<1>1. /\ cache' = server /\ server' = server /\ watch' = [k \in Kind |-> << >>]
      /\ queued' = (isWhitelistedNamespace /\ server.workload # 0)
      /\ pc' = "idle" /\ monitored' = FALSE /\ UNCHANGED <<uid, policies>>
  BY DEF Crash
<1>2. watch' = [workload |-> << >>, reco |-> << >>]
  BY <1>1 DEF Kind
<1>3. watch'.workload = << >> /\ watch'.reco = << >>
  BY <1>2
<1>4. InformerTypeOK'
  <2>1. << >> \in Seq(Nat) /\ << >> \in Seq(Reco)
    OBVIOUS
  <2>2. watch' \in [workload : Seq(Nat), reco : Seq(Reco)]
    BY <1>2, <2>1
  <2> QED
    BY <1>1, <2>2 DEF IInv, InformerInv, InformerTypeOK
<1>5. InformerInv'
  BY <1>1, <1>3, <1>4 DEF InformerInv, Agrees
<1>6. ControlInv'
  BY <1>1, SpendType, WakesTypes DEF IInv, ControlInv, Crash
<1>7. PendingInv'
  BY <1>1 DEF PendingInv, Awake
<1> QED
  BY <1>5, <1>6, <1>7 DEF IInv

--------------------------------------------------------------------------------
(***************************************************************************)
(* The cluster and its users.                                              *)
(***************************************************************************)
\* A write by others leaves the registrar as it was.
LEMMA OthersPend ==
  ASSUME PendingInv, UNCHANGED controllerVars, cache' = cache, RecoComes => RecoComes'
  PROVE  PendingInv'
BY DEF PendingInv, Awake, controllerVars

LEMMA WorkloadPreserves ==
  ASSUME IInv, CreateWorkload \/ DeleteWorkload
  PROVE  IInv'
<1>1. UNCHANGED <<controllerVars, policies>>
  BY DEF CreateWorkload, DeleteWorkload
<1>2. ControlInv'
  BY <1>1, SpendType DEF IInv, ControlInv, CreateWorkload, DeleteWorkload, controllerVars
<1>3. PICK object \in Nat : Write("workload", object)
  BY SpendType DEF IInv, CreateWorkload, DeleteWorkload
<1>4. InformerInv' /\ cache' = cache /\ watch'.reco = watch.reco
  BY <1>3, WriteWorkload DEF IInv
<1>5. RecoComes => RecoComes'
  BY <1>4 DEF RecoComes
<1> QED
  BY <1>1, <1>2, <1>4, <1>5, OthersPend DEF IInv

LEMMA RecoDeletionPreserves ==
  ASSUME IInv, CollectGarbage \/ DeleteReco
  PROVE  IInv'
<1>1. Write("reco", NoReco) /\ UNCHANGED <<controllerVars, policies>>
  BY DEF CollectGarbage, DeleteReco
<1>2. ControlInv'
  BY <1>1, SpendType DEF IInv, ControlInv, CollectGarbage, DeleteReco, controllerVars
<1>3. NoReco \in Reco
  BY DEF NoReco, Reco
<1>4. InformerInv' /\ cache' = cache /\ (RecoComes => RecoComes')
  BY <1>1, <1>3, WriteReco DEF IInv
<1> QED
  BY <1>1, <1>2, <1>4, OthersPend DEF IInv

LEMMA InstallPreserves ==
  ASSUME IInv, InstallPolicies \/ UNCHANGED vars
  PROVE  IInv'
<1>1. UNCHANGED <<informerVars, controllerVars, budget>> /\ policies' \in BOOLEAN
  BY DEF IInv, ControlInv, InstallPolicies, vars
<1>2. InformerInv' /\ RecoComes' = RecoComes /\ cache' = cache
  BY <1>1, SameInformers DEF IInv
<1>3. ControlInv'
  BY <1>1 DEF IInv, ControlInv, controllerVars
<1> QED
  BY <1>1, <1>2, <1>3, OthersPend DEF IInv

LEMMA InitEstablishes == Init => IInv
<1> SUFFICES ASSUME Init PROVE IInv
  OBVIOUS
<1>1. /\ server = [workload |-> 0, reco |-> NoReco] /\ cache = server
      /\ watch = [k \in Kind |-> << >>]
  BY DEF Init
<1>2. watch = [workload |-> << >>, reco |-> << >>]
  BY <1>1 DEF Kind
<1>3. NoReco \in Reco /\ NoReco.owner = 0
  BY DEF NoReco, Reco
<1>4. /\ watch.workload = << >> /\ watch.reco = << >>
      /\ cache.workload = 0 /\ server.reco = NoReco
  BY <1>1, <1>2
<1>5. InformerTypeOK
  <2>1. << >> \in Seq(Nat) /\ << >> \in Seq(Reco)
    OBVIOUS
  <2>2. watch \in [workload : Seq(Nat), reco : Seq(Reco)]
    BY <1>2, <2>1
  <2>3. server \in Objects /\ cache \in Objects
    BY <1>1, <1>3 DEF Objects
  <2> QED
    BY <1>4, <2>2, <2>3 DEF InformerTypeOK
<1>6. InformerInv
  BY <1>1, <1>4, <1>5 DEF InformerInv, Agrees
<1>7. ControlInv
  <2>1. /\ MaxWorkloads \in Nat /\ MaxDeletions \in Nat /\ MaxRelists \in Nat
        /\ MaxFaults \in Nat /\ MaxCrashes \in Nat
    BY RegistrarAssumption
  <2>2. /\ budget \in [workload : Nat, deletion : Nat, relist : Nat, fault : Nat, crash : Nat]
        /\ budget.workload <= MaxWorkloads
    BY <2>1 DEF Init
  <2> QED
    BY <2>2 DEF Init, ControlInv
<1>8. PendingInv
  BY <1>4 DEF Init, PendingInv
<1> QED
  BY <1>6, <1>7, <1>8 DEF IInv

\* The inductive invariant of the registrar.
THEOREM Invariance == Spec => []IInv
<1>1. IInv /\ [Next]_vars => IInv'
  <2> SUFFICES ASSUME IInv, [Next]_vars PROVE IInv'
    OBVIOUS
  <2>1. ASSUME NEW kind \in Kind, Deliver(kind) \/ Relist(kind)
        PROVE  IInv'
    BY <2>1, DeliverWorkload, DeliverReco, RelistPreserves DEF Kind
  <2>2. CASE Register
    BY <2>2, ReconcilePreserves, CreatePreserves, PatchPreserves DEF Register
  <2>3. CASE Fails \/ Crash
    BY <2>3, FailsPreserves, CrashPreserves
  <2>4. CASE CreateWorkload \/ DeleteWorkload \/ CollectGarbage \/ DeleteReco
    BY <2>4, WorkloadPreserves, RecoDeletionPreserves
  <2>5. CASE InstallPolicies \/ UNCHANGED vars
    BY <2>5, InstallPreserves
  <2> QED
    BY <2>1, <2>2, <2>3, <2>4, <2>5 DEF Next
<1> QED
  BY <1>1, InitEstablishes, PTL DEF Spec

\* Every variable keeps its type, and the server has no PolicyRecommendation that is
\* initialized without an owner (policyrecommendation_registrar.go).
THEOREM RegistrarIsTyped == Spec => []TypeOK
<1>1. IInv => TypeOK
  BY DEF IInv, InformerInv, InformerTypeOK, ControlInv, TypeOK
<1> QED
  BY <1>1, Invariance, PTL

\* For any number of workloads, failures, restarts and lost watches on workloads, the
\* registrar comes to rest only with a PolicyRecommendation of the workload that is
\* there and with a monitor (policyrecommendation_registrar.go, Reconcile).
THEOREM RegisteredWhenQuiet == "reco" \notin Relisted /\ Spec => []QuietIsRegistered
<1> SUFFICES ASSUME "reco" \notin Relisted PROVE Spec => []QuietIsRegistered
  OBVIOUS
<1>1. IInv => QuietIsRegistered
  <2> SUFFICES ASSUME IInv, isWhitelistedNamespace, Quiet, server.workload # 0
               PROVE  server.reco.owner = server.workload /\ monitored
    BY DEF QuietIsRegistered, Registered
  <2>1. watch.workload = << >> /\ watch.reco = << >>
    BY DEF Quiet, Kind
  <2>2. cache.workload = server.workload /\ cache.reco = server.reco
    BY <2>1 DEF IInv, InformerInv, Agrees
  <2>3. ~Awake /\ server.reco.owner \in {0, server.workload}
    BY DEF Quiet, Awake
  <2>4. ~RecoComes
    BY <2>1 DEF RecoComes
  <2> QED
    BY <2>2, <2>3, <2>4 DEF IInv, PendingInv
<1> QED
  BY <1>1, Invariance, PTL
================================================================================

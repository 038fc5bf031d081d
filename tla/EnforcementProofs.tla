--------------------------- MODULE EnforcementProofs ---------------------------
(***************************************************************************)
(* Proofs about HPAEnforcement: for all configurations, lags, faults,      *)
(* crashes and users, what the controller's autoscaler holds was once      *)
(* finished and qualifies, and the controller does not disturb the         *)
(* PolicyRecommendation it writes into.                                    *)
(*                                                                         *)
(* EnforcesFinished is not inductive: the controller enforces what it read *)
(* from a cache that lags, several steps ago.  Honesty says of every copy  *)
(* of the object, the server's, the cache's and those on their way, that   *)
(* it shows Generated only with a configuration that was published, and    *)
(* GoodTask carries that over the steps of a reconcile.  TypeOK needs      *)
(* Agreement: a cache with nothing on its way to it is up to date.         *)
(***************************************************************************)
EXTENDS EnforcementProperties, SequenceTheorems, TLAPS

Watches == [reco : Versions(Reco), workload : Versions(Annotation),
            autoscalers : Versions(Autoscalers)]

InformerTypeOK == server \in Objects /\ watch \in Watches /\ cache \in Objects

\* The newest version an informer has or is about to get is the server's.
Agrees(versions, copy, object) ==
  /\ versions = << >> => copy = object
  /\ versions # << >> => versions[Len(versions)].object = object

Agreement == \A k \in Kind : Agrees(watch[k], cache[k], server[k])

InformerInv == InformerTypeOK /\ Agreement

\* A copy of the object that says Generated has a published configuration.
Honest(reco, finished) == reco.generated => reco.config \in finished

Honesty ==
  /\ Honest(server.reco, published)
  /\ Honest(cache.reco, published)
  /\ \A i \in 1 .. Len(watch.reco) : Honest(watch.reco[i].object, published)

ControlTypeOK ==
  /\ replicas \in Nat
  /\ queued \in BOOLEAN
  /\ pc \in {"idle", "delete", "scale", "enforce", "patch"}
  /\ task \in [config : HPAConfiguration, verdict : Reason]
  /\ published \subseteq HPAConfiguration
  /\ budget \in Budget

GoodTask == pc = "enforce" => task.config \in published /\ Qualifies(task.config)

IInv ==
  /\ InformerInv
  /\ Exists(server.autoscalers)
  /\ Honesty
  /\ ControlTypeOK
  /\ GoodTask
  /\ EnforcesFinished

\* What an object of each kind is.
IsOf(kind, object) ==
  /\ kind = "reco" => object \in Reco
  /\ kind = "workload" => object \in Annotation
  /\ kind = "autoscalers" => object \in Autoscalers

AreAllOf(kind, S) ==
  /\ \A object \in S : IsOf(kind, object)
  /\ \A object : IsOf(kind, object) => object \in S

--------------------------------------------------------------------------------
(***************************************************************************)
(* The API server and the informers.                                       *)
(***************************************************************************)
\* What the variables of the informers hold of one kind has the type of the kind.
LEMMA KindLemma ==
  ASSUME InformerTypeOK, NEW kind \in Kind
  PROVE  /\ IsOf(kind, server[kind]) /\ IsOf(kind, cache[kind])
         /\ \E S : watch[kind] \in Seq([object : S, own : BOOLEAN]) /\ AreAllOf(kind, S)
<1>1. CASE kind = "reco"
  BY <1>1 DEF InformerTypeOK, Objects, Watches, Versions, IsOf, AreAllOf
<1>2. CASE kind = "workload"
  BY <1>2 DEF InformerTypeOK, Objects, Watches, Versions, IsOf, AreAllOf
<1>3. CASE kind = "autoscalers"
  BY <1>3 DEF InformerTypeOK, Objects, Watches, Versions, IsOf, AreAllOf
<1>4. QED
  BY <1>1, <1>2, <1>3 DEF Kind

Put(function, kind, value) == [function EXCEPT ![kind] = value]

\* An object of its kind in its place leaves the objects typed.
LEMMA PutObjectLemma ==
  ASSUME NEW objects \in Objects, NEW kind \in Kind, NEW object, IsOf(kind, object),
         NEW new, new = Put(objects, kind, object)
  PROVE  /\ new \in Objects
         /\ new[kind] = object
         /\ \A k \in Kind \ {kind} : new[k] = objects[k]
BY DEF Objects, Kind, IsOf, Put

\* So do versions of their kind on the watch.
LEMMA PutVersionsLemma ==
  ASSUME NEW watches \in Watches, NEW kind \in Kind, NEW S,
         NEW versions \in Seq([object : S, own : BOOLEAN]),
         AreAllOf(kind, S), NEW new, new = Put(watches, kind, versions)
  PROVE  /\ new \in Watches
         /\ new[kind] = versions
         /\ \A k \in Kind \ {kind} : new[k] = watches[k]
<1>1. CASE kind = "reco"
  <2>1. S = Reco
    BY <1>1 DEF IsOf, AreAllOf
  <2>2. QED
    BY <1>1, <2>1 DEF Watches, Versions, Kind, Put
<1>2. CASE kind = "workload"
  <2>1. S = Annotation
    BY <1>2 DEF IsOf, AreAllOf
  <2>2. QED
    BY <1>2, <2>1 DEF Watches, Versions, Kind, Put
<1>3. CASE kind = "autoscalers"
  <2>1. S = Autoscalers
    BY <1>3 DEF IsOf, AreAllOf
  <2>2. QED
    BY <1>3, <2>1 DEF Watches, Versions, Kind, Put
<1>4. QED
  BY <1>1, <1>2, <1>3 DEF Kind

\* A sequence with one more element at its end.
LEMMA AppendLemma ==
  ASSUME NEW T, NEW s \in Seq(T), NEW e \in T, NEW new, new = Append(s, e)
  PROVE  /\ new \in Seq(T) /\ Len(new) = Len(s) + 1 /\ Len(s) \in Nat
         /\ new # << >> /\ new[Len(new)] = e
         /\ \A i \in 1 .. Len(s) : new[i] = s[i]
OBVIOUS

\* A write puts the object into the server and at the end of its watch.
LEMMA WriteLemma ==
  ASSUME InformerInv, NEW kind \in Kind, NEW object, IsOf(kind, object),
         NEW own \in BOOLEAN, Write(kind, object, own)
  PROVE  /\ InformerInv'
         /\ server'[kind] = object /\ cache' = cache
         /\ watch'[kind] = Append(watch[kind], [object |-> object, own |-> own])
         /\ \A k \in Kind \ {kind} : server'[k] = server[k] /\ watch'[k] = watch[k]
<1> DEFINE version == [object |-> object, own |-> own]
           versions == Append(watch[kind], version)
<1>1. /\ server' = Put(server, kind, object)
      /\ watch' = Put(watch, kind, versions)
      /\ cache' = cache
  BY DEF Write, Put
<1>2. PICK S : watch[kind] \in Seq([object : S, own : BOOLEAN]) /\ AreAllOf(kind, S)
  BY KindLemma DEF InformerInv
<1>3. version \in [object : S, own : BOOLEAN]
  BY <1>2 DEF AreAllOf
<1> HIDE DEF version
<1>4. /\ versions \in Seq([object : S, own : BOOLEAN])
      /\ versions # << >> /\ versions[Len(versions)] = version
  BY <1>2, <1>3, AppendLemma
<1> HIDE DEF versions
<1>5. /\ server' \in Objects /\ server'[kind] = object
      /\ \A k \in Kind \ {kind} : server'[k] = server[k]
  <2>1. server \in Objects
    BY DEF InformerInv, InformerTypeOK
  <2>2. QED
    BY <1>1, <2>1, PutObjectLemma
<1>6. /\ watch' \in Watches /\ watch'[kind] = versions
      /\ \A k \in Kind \ {kind} : watch'[k] = watch[k]
  <2>1. watch \in Watches
    BY DEF InformerInv, InformerTypeOK
  <2>2. QED
    BY <1>1, <1>2, <1>4, <2>1, PutVersionsLemma
<1>7. Agrees(watch'[kind], cache'[kind], server'[kind])
  BY <1>4, <1>5, <1>6 DEF Agrees, version
<1>8. ASSUME NEW k \in Kind \ {kind} PROVE Agrees(watch'[k], cache'[k], server'[k])
  BY <1>1, <1>5, <1>6 DEF Agrees, InformerInv, Agreement
<1>9. InformerInv'
  BY <1>1, <1>5, <1>6, <1>7, <1>8 DEF InformerInv, InformerTypeOK, Agreement, Agrees
<1>10. QED
  BY <1>1, <1>5, <1>6, <1>9 DEF versions, version

\* A write of an honest version keeps all of them honest.
LEMMA WriteHonestLemma ==
  ASSUME InformerInv, Honesty, NEW object \in Reco, NEW own \in BOOLEAN,
         Write("reco", object, own), published \subseteq published',
         Honest(object, published')
  PROVE  Honesty'
<1>1. /\ server'["reco"] = object /\ cache' = cache
      /\ watch'["reco"] = Append(watch["reco"], [object |-> object, own |-> own])
  BY WriteLemma DEF Kind, IsOf
<1>2. server'.reco = object /\ watch'.reco = Append(watch.reco, [object |-> object, own |-> own])
  BY <1>1
<1>3. watch.reco \in Seq([object : Reco, own : BOOLEAN])
  BY DEF InformerInv, InformerTypeOK, Watches, Versions
<1>4. ASSUME NEW i \in 1 .. Len(watch'.reco)
      PROVE  Honest(watch'.reco[i].object, published')
  <2>1. CASE i = Len(watch.reco) + 1
    BY <1>2, <1>3, <2>1
  <2>2. CASE i # Len(watch.reco) + 1
    <3>1. i \in 1 .. Len(watch.reco) /\ watch'.reco[i] = watch.reco[i]
      BY <1>2, <1>3, <2>2
    <3>2. QED
      BY <3>1 DEF Honesty, Honest
  <2>3. QED
    BY <2>1, <2>2
<1>5. Honest(server'.reco, published') /\ Honest(cache'.reco, published')
  BY <1>1, <1>2 DEF Honesty, Honest
<1>6. QED
  BY <1>4, <1>5 DEF Honesty, Honest

\* The first element of a sequence and the rest of it.
LEMMA TailLemma ==
  ASSUME NEW T, NEW s \in Seq(T), s # << >>, NEW new, new = Tail(s)
  PROVE  /\ Len(s) \in Nat \ {0} /\ Head(s) = s[1] /\ s[1] \in T
         /\ new \in Seq(T) /\ Len(new) = Len(s) - 1
         /\ \A i \in 1 .. Len(new) : new[i] = s[i + 1]
         /\ new = << >> => Len(s) = 1
<1>1. Len(s) \in Nat \ {0} /\ Head(s) = s[1] /\ s[1] \in T
  BY EmptySeq, ElementOfSeq
<1>2. /\ new \in Seq(T) /\ Len(new) = Len(s) - 1
      /\ \A i \in 1 .. Len(new) : new[i] = s[i + 1]
  BY HeadTailProperties
<1>3. new = << >> => Len(s) = 1
  BY <1>1, <1>2, EmptySeq
<1>4. QED
  BY <1>1, <1>2, <1>3

\* A delivery moves the oldest version on the watch to the cache.
LEMMA DeliverLemma ==
  ASSUME InformerInv, Honesty, NEW kind \in Kind, Deliver(kind)
  PROVE  InformerInv' /\ Honesty'
<1> DEFINE versions == watch[kind]
           rest == Tail(versions)
<1>1. /\ versions # << >> /\ server' = server /\ published' = published
      /\ cache' = Put(cache, kind, Head(versions).object)
      /\ watch' = Put(watch, kind, rest)
  BY DEF Deliver, Put
<1>2. PICK S : versions \in Seq([object : S, own : BOOLEAN]) /\ AreAllOf(kind, S)
  BY KindLemma DEF InformerInv
<1> HIDE DEF versions
<1>3. /\ Len(versions) \in Nat \ {0} /\ Head(versions) = versions[1]
      /\ versions[1] \in [object : S, own : BOOLEAN]
      /\ rest \in Seq([object : S, own : BOOLEAN]) /\ Len(rest) = Len(versions) - 1
      /\ \A i \in 1 .. Len(rest) : rest[i] = versions[i + 1]
      /\ rest = << >> => Len(versions) = 1
  <2> DEFINE T == [object : S, own : BOOLEAN]
  <2>1. rest = Tail(versions) /\ versions # << >> /\ versions \in Seq(T)
    BY <1>1, <1>2
  <2> HIDE DEF rest, T
  <2>2. /\ Len(versions) \in Nat \ {0} /\ Head(versions) = versions[1] /\ versions[1] \in T
        /\ rest \in Seq(T) /\ Len(rest) = Len(versions) - 1
        /\ \A i \in 1 .. Len(rest) : rest[i] = versions[i + 1]
        /\ rest = << >> => Len(versions) = 1
    BY <2>1, TailLemma
  <2>3. QED
    BY <2>2 DEF T
<1> HIDE DEF rest
<1>4. IsOf(kind, Head(versions).object)
  BY <1>2, <1>3 DEF AreAllOf
<1>5. /\ cache' \in Objects /\ cache'[kind] = Head(versions).object
      /\ \A k \in Kind \ {kind} : cache'[k] = cache[k]
  <2>1. cache \in Objects
    BY DEF InformerInv, InformerTypeOK
  <2>2. QED
    BY <1>1, <1>4, <2>1, PutObjectLemma
<1>6. /\ watch' \in Watches /\ watch'[kind] = rest
      /\ \A k \in Kind \ {kind} : watch'[k] = watch[k]
  <2>1. watch \in Watches
    BY DEF InformerInv, InformerTypeOK
  <2>2. QED
    BY <1>1, <1>2, <1>3, <2>1, PutVersionsLemma
<1>7. versions[Len(versions)].object = server[kind]
  BY <1>1 DEF InformerInv, Agreement, Agrees, versions
<1>8. Agrees(watch'[kind], cache'[kind], server'[kind])
  <2>1. CASE rest = << >>
    BY <1>1, <1>3, <1>5, <1>6, <1>7, <2>1 DEF Agrees
  <2>2. CASE rest # << >>
    <3>1. Len(rest) \in 1 .. Len(rest)
      BY <1>3, <2>2
    <3>2. rest[Len(rest)] = versions[Len(rest) + 1]
      BY <1>3, <3>1
    <3>3. Len(rest) + 1 = Len(versions)
      BY <1>3
    <3>4. QED
      BY <1>1, <1>6, <1>7, <2>2, <3>2, <3>3 DEF Agrees
  <2>3. QED
    BY <2>1, <2>2
<1>9. ASSUME NEW k \in Kind \ {kind} PROVE Agrees(watch'[k], cache'[k], server'[k])
  BY <1>1, <1>5, <1>6 DEF Agrees, InformerInv, Agreement
<1>10. InformerInv'
  BY <1>1, <1>5, <1>6, <1>8, <1>9 DEF InformerInv, InformerTypeOK, Agreement, Agrees
<1>11. CASE kind = "reco"
  <2>1. cache'.reco = versions[1].object /\ watch'.reco = rest
    BY <1>3, <1>5, <1>6, <1>11
  <2>2. \A i \in 1 .. Len(versions) : Honest(versions[i].object, published)
    BY <1>11 DEF Honesty, versions
  <2>3. Honest(cache'.reco, published)
    BY <1>3, <2>1, <2>2
  <2>4. ASSUME NEW i \in 1 .. Len(watch'.reco) PROVE Honest(watch'.reco[i].object, published)
    <3>1. i + 1 \in 1 .. Len(versions) /\ rest[i] = versions[i + 1]
      BY <1>3, <2>1
    <3>2. QED
      BY <2>1, <2>2, <3>1
  <2>5. QED
    BY <1>1, <1>10, <2>3, <2>4 DEF Honesty, Honest
<1>12. CASE kind # "reco"
  <2>1. cache'.reco = cache.reco /\ watch'.reco = watch.reco
    BY <1>5, <1>6, <1>12 DEF Kind
  <2>2. QED
    BY <1>1, <1>10, <2>1 DEF Honesty, Honest
<1>13. QED
  BY <1>11, <1>12

\* A list brings the cache up to date.
LEMMA RelistLemma ==
  ASSUME InformerInv, Honesty, NEW kind \in Kind, Relist(kind)
  PROVE  InformerInv' /\ Honesty'
<1> DEFINE none == << >>
<1>1. /\ server' = server /\ published' = published
      /\ cache' = Put(cache, kind, server[kind])
      /\ watch' = Put(watch, kind, none)
  BY DEF Relist, Put
<1>2. IsOf(kind, server[kind]) /\ cache \in Objects /\ watch \in Watches
  BY KindLemma DEF InformerInv, InformerTypeOK
<1>3. PICK S : watch[kind] \in Seq([object : S, own : BOOLEAN]) /\ AreAllOf(kind, S)
  BY KindLemma DEF InformerInv
<1>4. none \in Seq([object : S, own : BOOLEAN])
  OBVIOUS
<1> HIDE DEF none
<1>5. /\ cache' \in Objects /\ cache'[kind] = server[kind]
      /\ \A k \in Kind \ {kind} : cache'[k] = cache[k]
  BY <1>1, <1>2, PutObjectLemma
<1>6. /\ watch' \in Watches /\ watch'[kind] = none
      /\ \A k \in Kind \ {kind} : watch'[k] = watch[k]
  BY <1>1, <1>2, <1>3, <1>4, PutVersionsLemma
<1>7. Agrees(watch'[kind], cache'[kind], server'[kind])
  BY <1>1, <1>5, <1>6 DEF Agrees, none
<1>8. ASSUME NEW k \in Kind \ {kind} PROVE Agrees(watch'[k], cache'[k], server'[k])
  BY <1>1, <1>5, <1>6 DEF Agrees, InformerInv, Agreement
<1>9. InformerInv'
  BY <1>1, <1>2, <1>5, <1>6, <1>7, <1>8 DEF InformerInv, InformerTypeOK, Agreement, Agrees
<1>10. CASE kind = "reco"
  <2>1. cache'.reco = server.reco /\ watch'.reco = << >>
    BY <1>5, <1>6, <1>10 DEF none
  <2>2. QED
    BY <1>1, <1>9, <2>1 DEF Honesty, Honest
<1>11. CASE kind # "reco"
  <2>1. cache'.reco = cache.reco /\ watch'.reco = watch.reco
    BY <1>5, <1>6, <1>11 DEF Kind
  <2>2. QED
    BY <1>1, <1>9, <2>1 DEF Honesty, Honest
<1>12. QED
  BY <1>10, <1>11

\* So does the start of a new process, for every kind.
LEMMA CrashLemma ==
  ASSUME InformerInv, Honesty, Crash
  PROVE  InformerInv' /\ Honesty'
<1>1. /\ server' = server /\ published' = published /\ cache' = server
      /\ watch' = [k \in Kind |-> << >>]
  BY DEF Crash
<1>2. watch' \in Watches
  <2>1. watch' = [reco |-> << >>, workload |-> << >>, autoscalers |-> << >>]
    BY <1>1 DEF Kind
  <2>2. [reco |-> << >>, workload |-> << >>, autoscalers |-> << >>] \in Watches
    BY DEF Watches, Versions
  <2>3. QED
    BY <2>1, <2>2
<1>3. InformerInv'
  BY <1>1, <1>2 DEF InformerInv, InformerTypeOK, Agreement, Agrees
<1>4. watch'.reco = << >>
  BY <1>1 DEF Kind
<1>5. Honesty'
  BY <1>1, <1>4 DEF Honesty, Honest
<1>6. QED
  BY <1>3, <1>5

\* A step that neither writes nor delivers.
LEMMA SameInformersLemma ==
  ASSUME InformerInv, Honesty, UNCHANGED <<informerVars, published>>
  PROVE  InformerInv' /\ Honesty'
BY DEF informerVars, InformerInv, InformerTypeOK, Agreement, Agrees, Honesty, Honest

\* A write of the autoscalers leaves the object alone.
LEMMA WriteAutoscalersLemma ==
  ASSUME InformerInv, Honesty, NEW object \in Autoscalers,
         Write("autoscalers", object, FALSE), published' = published
  PROVE  /\ InformerInv' /\ Honesty'
         /\ server'.autoscalers = object /\ server'.reco = server.reco
<1>1. /\ InformerInv' /\ server'["autoscalers"] = object /\ cache' = cache
      /\ \A k \in Kind \ {"autoscalers"} : server'[k] = server[k] /\ watch'[k] = watch[k]
  BY WriteLemma DEF Kind, IsOf
<1>2. server'.reco = server.reco /\ watch'.reco = watch.reco /\ server'.autoscalers = object
  BY <1>1 DEF Kind
<1>3. Honesty'
  BY <1>1, <1>2 DEF Honesty, Honest
<1>4. QED
  BY <1>1, <1>2, <1>3

\* A write of the annotation leaves the object and the autoscalers alone.
LEMMA WriteWorkloadLemma ==
  ASSUME InformerInv, Honesty, NEW object \in Annotation,
         Write("workload", object, FALSE), published' = published
  PROVE  /\ InformerInv' /\ Honesty'
         /\ server'.autoscalers = server.autoscalers /\ server'.reco = server.reco
<1>1. /\ InformerInv' /\ cache' = cache
      /\ \A k \in Kind \ {"workload"} : server'[k] = server[k] /\ watch'[k] = watch[k]
  BY WriteLemma DEF Kind, IsOf
<1>2. /\ server'.reco = server.reco /\ watch'.reco = watch.reco
      /\ server'.autoscalers = server.autoscalers
  BY <1>1 DEF Kind
<1>3. Honesty'
  BY <1>1, <1>2 DEF Honesty, Honest
<1>4. QED
  BY <1>1, <1>2, <1>3

\* A write of an honest version leaves the autoscalers alone.
LEMMA WriteRecoLemma ==
  ASSUME InformerInv, Honesty, NEW object \in Reco, NEW own \in BOOLEAN,
         Write("reco", object, own), published \subseteq published',
         Honest(object, published')
  PROVE  /\ InformerInv' /\ Honesty'
         /\ server'.reco = object /\ server'.autoscalers = server.autoscalers
<1>1. /\ InformerInv' /\ server'["reco"] = object
      /\ \A k \in Kind \ {"reco"} : server'[k] = server[k]
  BY WriteLemma DEF Kind, IsOf
<1>2. server'.reco = object /\ server'.autoscalers = server.autoscalers
  BY <1>1 DEF Kind
<1>3. QED
  BY <1>1, <1>2, WriteHonestLemma

--------------------------------------------------------------------------------
(***************************************************************************)
(* The steps of the controller.                                            *)
(***************************************************************************)
\* What is left of a bound is a natural number.
LEMMA SpendLemma ==
  ASSUME ControlTypeOK, Spend("config") \/ Spend("annotation") \/ Spend("user")
                        \/ Spend("deletion") \/ Spend("relist") \/ Spend("fault")
                        \/ Spend("crash")
  PROVE  budget' \in Budget
BY DEF ControlTypeOK, Spend, Budget

\* A call that changed the API server is followed by the next step or by a retry.
LEMMA GotoLemma ==
  ASSUME ControlTypeOK, NEW step, Goto(step)
  PROVE  /\ pc' \in {step, "idle"}
         /\ queued' \in BOOLEAN
         /\ budget' \in Budget
BY SpendLemma DEF Goto, Requeue, ControlTypeOK

\* The objects have their types.
LEMMA ObjectLemma ==
  ASSUME InformerInv
  PROVE  /\ server.reco \in Reco /\ cache.reco \in Reco
         /\ server.autoscalers \in Autoscalers /\ cache.autoscalers \in Autoscalers
BY DEF InformerInv, InformerTypeOK, Objects

\* A verdict is one of the reasons, and Created only for what qualifies.
LEMMA VerdictLemma ==
  ASSUME NEW config, NEW annotation, NEW autoscalers
  PROVE  /\ Verdict(config, annotation, autoscalers) \in Reason
         /\ Verdict(config, annotation, autoscalers) = "Created" => Qualifies(config)
BY DEF Verdict, Reason

\* What is put together in every step: the task stays good while the reconciler
\* does not enter "enforce".
LEMMA StepLemma ==
  ASSUME IInv, InformerInv', Honesty', ControlTypeOK', published \subseteq published',
         server'.autoscalers = server.autoscalers,
         pc' # "enforce" \/ (pc' = pc /\ task' = task)
  PROVE  IInv'
BY DEF IInv, GoodTask, EnforcesFinished, Exists

LEMMA ReconcileLemma ==
  ASSUME IInv, Reconcile
  PROVE  IInv'
<1> DEFINE reco == cache.reco
           verdict == Verdict(reco.config, cache.workload, cache.autoscalers)
<1>1. /\ UNCHANGED <<informerVars, published>> /\ UNCHANGED <<replicas, budget>>
      /\ queued' = FALSE
  BY DEF Reconcile
<1>2. InformerInv' /\ Honesty'
  BY <1>1, SameInformersLemma DEF IInv
<1>3. server' = server /\ published' = published
  BY <1>1 DEF informerVars
<1>4. reco \in Reco /\ Honest(reco, published)
  BY ObjectLemma DEF IInv, Honesty
<1>5. verdict \in Reason /\ (verdict = "Created" => Qualifies(reco.config))
  BY VerdictLemma
<1>6. CASE isInitialized(reco) /\ isRecoGenerated(reco)
  <2>1. /\ task' = [config |-> reco.config, verdict |-> verdict]
        /\ pc' = CASE verdict = "AlreadyExists" -> "patch"
                   [] verdict \in {"InvalidPolicyReco", "Disabled"} -> "delete"
                   [] verdict = "Created" -> IF IsDryRun THEN "idle" ELSE "enforce"
    BY <1>6 DEF Reconcile
  <2> HIDE DEF verdict
  <2>2. /\ pc' \in {"idle", "delete", "enforce", "patch"}
        /\ pc' = "enforce" => verdict = "Created"
    BY <1>5, <2>1 DEF Reason
  <2>3. task'.config = reco.config /\ task' \in [config : HPAConfiguration, verdict : Reason]
    BY <1>4, <1>5, <2>1 DEF Reco
  <2>4. ControlTypeOK'
    BY <1>1, <1>3, <2>2, <2>3 DEF IInv, ControlTypeOK
  <2>5. reco.config \in published
    BY <1>4, <1>6 DEF Honest, isRecoGenerated
  <2>6. GoodTask'
    BY <1>3, <1>5, <2>2, <2>3, <2>5 DEF GoodTask, Qualifies
  <2>7. QED
    BY <1>2, <1>3, <2>4, <2>6 DEF IInv, EnforcesFinished, Exists
<1>7. CASE ~(isInitialized(reco) /\ isRecoGenerated(reco))
  <2>1. UNCHANGED <<task, pc>>
    BY <1>7 DEF Reconcile
  <2>2. ControlTypeOK'
    BY <1>1, <1>3, <2>1 DEF IInv, ControlTypeOK
  <2>3. QED
    BY <1>2, <1>3, <2>1, <2>2, StepLemma
<1>8. QED
  BY <1>6, <1>7

\* A deletion is followed by the reset of the replicas; it leaves no autoscaler of
\* the controller.
LEMMA DeleteLemma ==
  ASSUME IInv, deleteControllerManagedAutoscaler
  PROVE  IInv'
<1> DEFINE listed == cache.autoscalers
           found == server.autoscalers
<1>1. replicas' = replicas /\ published' = published
  BY DEF deleteControllerManagedAutoscaler
<1>2. listed \in Autoscalers /\ found \in Autoscalers
  BY ObjectLemma DEF IInv
<1>3. CASE listed.by = "ottoscalr" /\ found.by # "none"
  <2>1. /\ Write("autoscalers", Deleted(found), FALSE)
        /\ task' = [task EXCEPT !.config = listed.config]
        /\ Goto(IF listed.config.Max = 0 THEN "patch" ELSE "scale")
    BY <1>3 DEF deleteControllerManagedAutoscaler
  <2>2. /\ Deleted(found) \in Autoscalers
        /\ Deleted(found).by = "none" /\ Deleted(found).config = NoConfig
    BY <1>2 DEF Deleted, Autoscalers, NoConfig, HPAConfiguration
  <2>3. InformerInv' /\ Honesty' /\ server'.autoscalers = Deleted(found)
    BY <1>1, <2>1, <2>2, WriteAutoscalersLemma DEF IInv
  <2>4. pc' \in {"patch", "scale", "idle"} /\ queued' \in BOOLEAN /\ budget' \in Budget
    BY <2>1, GotoLemma DEF IInv
  <2>5. task' \in [config : HPAConfiguration, verdict : Reason]
    BY <1>2, <2>1 DEF IInv, ControlTypeOK, Autoscalers
  <2>6. ControlTypeOK'
    BY <1>1, <2>4, <2>5 DEF IInv, ControlTypeOK
  <2>7. Exists(server'.autoscalers) /\ EnforcesFinished' /\ GoodTask'
    BY <2>2, <2>3, <2>4 DEF Exists, EnforcesFinished, GoodTask
  <2>8. QED
    BY <2>3, <2>6, <2>7 DEF IInv, Exists
<1>4. CASE ~(listed.by = "ottoscalr" /\ found.by # "none")
  <2>1. pc' = "patch" /\ UNCHANGED <<informerVars, task, queued, budget>>
    BY <1>4 DEF deleteControllerManagedAutoscaler
  <2>2. InformerInv' /\ Honesty' /\ server' = server
    BY <1>1, <2>1, SameInformersLemma DEF IInv, informerVars
  <2>3. ControlTypeOK'
    BY <1>1, <2>1 DEF IInv, ControlTypeOK
  <2>4. QED
    BY <1>1, <2>1, <2>2, <2>3, StepLemma
<1>5. QED
  BY <1>3, <1>4

LEMMA ScaleLemma ==
  ASSUME IInv, Scale
  PROVE  IInv'
<1>1. /\ UNCHANGED <<informerVars, published>> /\ task' = task
      /\ replicas' = task.config.Max /\ Goto("patch")
  BY DEF Scale
<1>2. InformerInv' /\ Honesty' /\ server' = server /\ published' = published
  BY <1>1, SameInformersLemma DEF IInv, informerVars
<1>3. pc' \in {"patch", "idle"} /\ queued' \in BOOLEAN /\ budget' \in Budget
  BY <1>1, GotoLemma DEF IInv
<1>4. task.config.Max \in Nat
  BY DEF IInv, ControlTypeOK, HPAConfiguration
<1>5. ControlTypeOK'
  BY <1>1, <1>2, <1>3, <1>4 DEF IInv, ControlTypeOK
<1>6. QED
  BY <1>2, <1>3, <1>5, StepLemma

\* What is written is the task's configuration, which was read from an honest copy
\* of the object, and only into an autoscaler that exists or is created.
LEMMA CreateOrUpdateLemma ==
  ASSUME IInv, CreateOrUpdateAutoscaler
  PROVE  IInv'
<1> DEFINE copy == cache.autoscalers
           found == server.autoscalers
           created == [found EXCEPT !.by = "ottoscalr", !.config = task.config]
           updated == [found EXCEPT !.config = task.config]
<1>1. pc = "enforce" /\ task' = task /\ replicas' = replicas /\ published' = published
  BY DEF CreateOrUpdateAutoscaler
<1>2. /\ task.config \in HPAConfiguration /\ task.config \in published
      /\ Qualifies(task.config)
  BY <1>1 DEF IInv, ControlTypeOK, GoodTask
<1>3. task.config # NoConfig
  BY <1>2, EnforcementAssumption DEF Qualifies, NoConfig, HPAConfiguration
<1>4. found \in Autoscalers /\ copy \in Autoscalers
  BY ObjectLemma DEF IInv
<1>5. ASSUME NEW object \in Autoscalers, Write("autoscalers", object, FALSE), Goto("patch"),
             object.by # "none", object.config = task.config
      PROVE  IInv'
  <2>1. InformerInv' /\ Honesty' /\ server'.autoscalers = object
    BY <1>1, <1>5, WriteAutoscalersLemma DEF IInv
  <2>2. pc' \in {"patch", "idle"} /\ queued' \in BOOLEAN /\ budget' \in Budget
    BY <1>5, GotoLemma DEF IInv
  <2>3. ControlTypeOK'
    BY <1>1, <2>2 DEF IInv, ControlTypeOK
  <2>4. Exists(server'.autoscalers)
    BY <1>3, <1>5, <2>1 DEF Exists
  <2>5. EnforcesFinished' /\ GoodTask'
    BY <1>1, <1>2, <1>5, <2>1, <2>2 DEF EnforcesFinished, GoodTask, Qualifies
  <2>6. QED
    BY <2>1, <2>3, <2>4, <2>5 DEF IInv, Exists
<1>6. ASSUME UNCHANGED <<informerVars, budget>>, pc' \in {"patch", "idle"}, queued' \in BOOLEAN
      PROVE  IInv'
  <2>1. InformerInv' /\ Honesty' /\ server' = server
    BY <1>1, <1>6, SameInformersLemma DEF IInv, informerVars
  <2>2. ControlTypeOK'
    BY <1>1, <1>6 DEF IInv, ControlTypeOK
  <2>3. QED
    BY <1>1, <1>6, <2>1, <2>2, StepLemma
<1>7. CASE copy.by # "none" /\ copy.config = task.config
  <2>1. UNCHANGED <<informerVars, queued, budget>> /\ pc' = "patch"
    BY <1>7 DEF CreateOrUpdateAutoscaler
  <2>2. QED
    BY <1>6, <2>1 DEF IInv, ControlTypeOK
<1>8. CASE copy.by = "none" /\ found.by # "none"
  <2>1. UNCHANGED <<informerVars, budget>> /\ Requeue
    BY <1>8 DEF CreateOrUpdateAutoscaler
  <2>2. QED
    BY <1>6, <2>1 DEF Requeue
<1>9. CASE copy.by = "none" /\ found.by = "none"
  <2>1. Write("autoscalers", created, FALSE) /\ Goto("patch")
    BY <1>9 DEF CreateOrUpdateAutoscaler
  <2>2. created \in Autoscalers /\ created.by # "none" /\ created.config = task.config
    BY <1>2, <1>4 DEF Autoscalers
  <2> HIDE DEF created
  <2>3. QED
    BY <1>5, <2>1, <2>2
<1>10. CASE copy.by # "none" /\ copy.config # task.config /\ watch.autoscalers # << >>
  <2>1. UNCHANGED <<informerVars, budget>> /\ Requeue
    BY <1>10 DEF CreateOrUpdateAutoscaler
  <2>2. QED
    BY <1>6, <2>1 DEF Requeue
<1>11. CASE copy.by # "none" /\ copy.config # task.config /\ watch.autoscalers = << >>
  <2>1. Write("autoscalers", updated, FALSE) /\ Goto("patch")
    BY <1>11 DEF CreateOrUpdateAutoscaler
  <2>2. Agrees(watch["autoscalers"], cache["autoscalers"], server["autoscalers"])
    BY DEF IInv, InformerInv, Agreement, Kind
  <2>3. found = copy
    BY <1>11, <2>2 DEF Agrees
  <2>4. updated \in Autoscalers /\ updated.by # "none" /\ updated.config = task.config
    BY <1>2, <1>4, <1>11, <2>3 DEF Autoscalers
  <2> HIDE DEF updated
  <2>5. QED
    BY <1>5, <2>1, <2>4
<1>12. QED
  BY <1>7, <1>8, <1>9, <1>10, <1>11

\* The patch of HPAEnforced changes nothing else of the object.
LEMMA PatchLemma ==
  ASSUME IInv, PatchHPAEnforced
  PROVE  IInv'
<1> DEFINE patched == [server.reco EXCEPT !.enforced = task.verdict]
<1>1. /\ Goto("idle") /\ UNCHANGED <<task, replicas, published>>
      /\ Write("reco", patched, TRUE) \/ UNCHANGED informerVars
  BY DEF PatchHPAEnforced
<1>2. /\ patched \in Reco /\ patched.generated = server.reco.generated
      /\ patched.config = server.reco.config
  BY ObjectLemma DEF IInv, ControlTypeOK, Reco
<1>3. Honest(patched, published)
  BY <1>2 DEF IInv, Honesty, Honest
<1> HIDE DEF patched
<1>4. InformerInv' /\ Honesty' /\ server'.autoscalers = server.autoscalers
  <2>1. CASE Write("reco", patched, TRUE)
    BY <1>1, <1>2, <1>3, <2>1, WriteRecoLemma DEF IInv
  <2>2. CASE UNCHANGED informerVars
    BY <1>1, <2>2, SameInformersLemma DEF IInv, informerVars
  <2>3. QED
    BY <1>1, <2>1, <2>2
<1>5. pc' = "idle" /\ queued' \in BOOLEAN /\ budget' \in Budget
  BY <1>1, GotoLemma DEF IInv
<1>6. ControlTypeOK'
  BY <1>1, <1>5 DEF IInv, ControlTypeOK
<1>7. QED
  BY <1>1, <1>4, <1>5, <1>6, StepLemma

LEMMA FailsLemma ==
  ASSUME IInv, Fails
  PROVE  IInv'
<1>1. UNCHANGED <<informerVars, published>> /\ UNCHANGED <<task, replicas>> /\ Requeue
  BY DEF Fails
<1>2. InformerInv' /\ Honesty' /\ server' = server /\ published' = published
  BY <1>1, SameInformersLemma DEF IInv, informerVars
<1>3. budget' \in Budget
  BY SpendLemma DEF Fails, IInv
<1>4. ControlTypeOK' /\ pc' = "idle"
  BY <1>1, <1>2, <1>3 DEF IInv, ControlTypeOK, Requeue
<1>5. QED
  BY <1>2, <1>4, StepLemma

--------------------------------------------------------------------------------
(***************************************************************************)
(* The rest of the system.                                                 *)
(***************************************************************************)
\* A new process starts with the object queued or not.
LEMMA WhitelistLemma == isWhitelistedNamespace \in BOOLEAN
<1>1. CASE IncludedNamespaces # {}
  <2>1. isWhitelistedNamespace = (Namespace \in IncludedNamespaces)
    BY <1>1 DEF isWhitelistedNamespace
  <2>2. (Namespace \in IncludedNamespaces) \in BOOLEAN
    OBVIOUS
  <2>3. QED
    BY <2>1, <2>2, Zenon
<1>2. CASE IncludedNamespaces = {}
  BY <1>2, Zenon DEF isWhitelistedNamespace
<1>3. QED
  BY <1>1, <1>2

\* Deliveries, relists and crashes: the controller's own variables keep their types.
LEMMA InformersLemma ==
  ASSUME IInv, Crash \/ \E kind \in Kind : Deliver(kind) \/ Relist(kind)
  PROVE  IInv'
<1>1. CASE Crash
  <2>1. InformerInv' /\ Honesty'
    BY <1>1, CrashLemma DEF IInv
  <2>2. /\ server' = server /\ published' = published /\ pc' = "idle"
        /\ UNCHANGED <<task, replicas>> /\ queued' = isWhitelistedNamespace
        /\ Spend("crash")
    BY <1>1 DEF Crash
  <2>3. budget' \in Budget
    BY <2>2, SpendLemma DEF IInv
  <2>4. queued' \in BOOLEAN
    BY <2>2, WhitelistLemma
  <2>5. ControlTypeOK'
    BY <2>2, <2>3, <2>4 DEF IInv, ControlTypeOK
  <2>6. QED
    BY <2>1, <2>2, <2>5, StepLemma
<1>2. ASSUME NEW kind \in Kind, Deliver(kind) PROVE IInv'
  <2>1. InformerInv' /\ Honesty'
    BY <1>2, DeliverLemma DEF IInv
  <2>2. /\ server' = server /\ published' = published
        /\ UNCHANGED <<pc, task, replicas, budget>>
        /\ queued' \in BOOLEAN
    BY <1>2 DEF Deliver
  <2>3. ControlTypeOK'
    BY <2>2 DEF IInv, ControlTypeOK
  <2>4. QED
    BY <2>1, <2>2, <2>3, StepLemma
<1>3. ASSUME NEW kind \in Kind, Relist(kind) PROVE IInv'
  <2>1. InformerInv' /\ Honesty'
    BY <1>3, RelistLemma DEF IInv
  <2>2. /\ server' = server /\ published' = published
        /\ UNCHANGED <<pc, task, replicas>>
        /\ queued' \in BOOLEAN /\ Spend("relist")
    BY <1>3 DEF Relist
  <2>3. budget' \in Budget
    BY <2>2, SpendLemma DEF IInv
  <2>4. ControlTypeOK'
    BY <2>2, <2>3 DEF IInv, ControlTypeOK
  <2>5. QED
    BY <2>1, <2>2, <2>4, StepLemma
<1>4. QED
  BY <1>1, <1>2, <1>3

\* The versions RecoController and the registrar write are honest.
LEMMA RecoLemma ==
  ASSUME IInv, Initialize \/ RecoStarts \/ RecoChanges \/ RecoFinishes
  PROVE  IInv'
<1>1. server.reco \in Reco /\ Honest(server.reco, published)
  BY ObjectLemma DEF IInv, Honesty
<1>2. ASSUME NEW object \in Reco, OthersWrite("reco", object), UNCHANGED <<controllerVars, replicas>>,
             published \subseteq published', published' \subseteq HPAConfiguration,
             budget' \in Budget, Honest(object, published')
      PROVE  IInv'
  <2>1. InformerInv' /\ Honesty' /\ server'.autoscalers = server.autoscalers
    BY <1>2, WriteRecoLemma DEF OthersWrite, IInv
  <2>2. ControlTypeOK' /\ pc' = pc /\ task' = task
    BY <1>2 DEF IInv, ControlTypeOK, controllerVars
  <2>3. QED
    BY <1>2, <2>1, <2>2, StepLemma
<1>3. CASE Initialize
  <2> DEFINE object == [server.reco EXCEPT !.initialized = TRUE]
  <2>1. object \in Reco /\ Honest(object, published)
    BY <1>1 DEF Reco, Honest
  <2> HIDE DEF object
  <2>2. OthersWrite("reco", object) /\ UNCHANGED <<controllerVars, replicas, published, budget>>
    BY <1>3 DEF Initialize, object
  <2>3. QED
    BY <1>2, <2>1, <2>2 DEF IInv, ControlTypeOK
<1>4. CASE RecoStarts
  <2> DEFINE object == [server.reco EXCEPT !.generated = FALSE]
  <2>1. object \in Reco /\ Honest(object, published)
    BY <1>1 DEF Reco, Honest
  <2> HIDE DEF object
  <2>2. OthersWrite("reco", object) /\ UNCHANGED <<controllerVars, replicas, published, budget>>
    BY <1>4 DEF RecoStarts, object
  <2>3. QED
    BY <1>2, <2>1, <2>2 DEF IInv, ControlTypeOK
<1>5. CASE RecoChanges
  <2>1. PICK c \in Configs : OthersWrite("reco", [server.reco EXCEPT !.config = c])
    BY <1>5 DEF RecoChanges
  <2> DEFINE object == [server.reco EXCEPT !.config = c]
  <2>2. object \in Reco /\ Honest(object, published)
    BY <1>1, <1>5, EnforcementAssumption DEF Reco, Honest, RecoChanges
  <2> HIDE DEF object
  <2>3. /\ OthersWrite("reco", object) /\ UNCHANGED <<controllerVars, replicas, published>>
        /\ Spend("config")
    BY <1>5, <2>1 DEF RecoChanges, object
  <2>4. budget' \in Budget
    BY <2>3, SpendLemma DEF IInv
  <2>5. QED
    BY <1>2, <2>2, <2>3, <2>4 DEF IInv, ControlTypeOK
<1>6. CASE RecoFinishes
  <2> DEFINE object == [server.reco EXCEPT !.generated = TRUE]
  <2>1. /\ OthersWrite("reco", object) /\ UNCHANGED <<controllerVars, replicas, budget>>
        /\ published' = published \cup {server.reco.config}
    BY <1>6 DEF RecoFinishes
  <2>2. object \in Reco /\ Honest(object, published')
    BY <1>1, <2>1 DEF Reco, Honest
  <2> HIDE DEF object
  <2>3. published' \subseteq HPAConfiguration
    BY <1>1, <2>1 DEF Reco, IInv, ControlTypeOK
  <2>4. QED
    BY <1>2, <2>1, <2>2, <2>3 DEF IInv, ControlTypeOK
<1>7. QED
  BY <1>3, <1>4, <1>5, <1>6

\* Users write their own autoscalers, or remove the controller's.
LEMMA UsersLemma ==
  ASSUME IInv, AnnotationChanges \/ UserActs \/ OthersDelete \/ Autoscale
  PROVE  IInv'
<1> DEFINE found == server.autoscalers
<1>1. found \in Autoscalers
  BY ObjectLemma DEF IInv
<1>2. ASSUME NEW object \in Autoscalers, OthersWrite("autoscalers", object),
             UNCHANGED <<controllerVars, replicas, published>>, budget' \in Budget,
             Exists(object),
             object.by = "ottoscalr" => found.by = "ottoscalr" /\ object.config = found.config
      PROVE  IInv'
  <2>1. InformerInv' /\ Honesty' /\ server'.autoscalers = object
    BY <1>2, WriteAutoscalersLemma DEF OthersWrite, IInv
  <2>2. ControlTypeOK' /\ GoodTask'
    BY <1>2 DEF IInv, ControlTypeOK, controllerVars, GoodTask
  <2>3. EnforcesFinished'
    BY <1>2, <2>1 DEF IInv, EnforcesFinished
  <2>4. QED
    BY <1>2, <2>1, <2>2, <2>3 DEF IInv, Exists
<1>3. CASE AnnotationChanges
  <2>1. PICK a \in Annotation : OthersWrite("workload", a)
    BY <1>3 DEF AnnotationChanges
  <2>2. UNCHANGED <<controllerVars, replicas, published>> /\ Spend("annotation")
    BY <1>3 DEF AnnotationChanges
  <2>3. InformerInv' /\ Honesty' /\ server'.autoscalers = server.autoscalers
    BY <2>1, <2>2, WriteWorkloadLemma DEF OthersWrite, IInv
  <2>4. budget' \in Budget
    BY <2>2, SpendLemma DEF IInv
  <2>5. ControlTypeOK' /\ pc' = pc /\ task' = task /\ published' = published
    BY <2>2, <2>4 DEF IInv, ControlTypeOK, controllerVars
  <2>6. QED
    BY <2>3, <2>5, StepLemma
<1>4. CASE UserActs
  <2>1. UNCHANGED <<controllerVars, replicas, published>> /\ budget' \in Budget
    BY <1>4, SpendLemma DEF UserActs, IInv
  <2>2. CASE /\ found.by = "none"
             /\ OthersWrite("autoscalers", [found EXCEPT !.by = "user", !.config = UserConfig])
    <3> DEFINE object == [found EXCEPT !.by = "user", !.config = UserConfig]
    <3>1. object \in Autoscalers /\ Exists(object) /\ object.by = "user"
      BY <1>1, EnforcementAssumption DEF Autoscalers, Exists
    <3> HIDE DEF object
    <3>2. OthersWrite("autoscalers", object)
      BY <2>2 DEF object
    <3>3. QED
      BY <1>2, <2>1, <3>1, <3>2
  <2>3. CASE found.by = "user" /\ OthersWrite("autoscalers", Deleted(found))
    <3>1. Deleted(found) \in Autoscalers /\ Exists(Deleted(found)) /\ Deleted(found).by = "none"
      BY <1>1 DEF Autoscalers, Exists, Deleted, NoConfig, HPAConfiguration
    <3>2. QED
      BY <1>2, <2>1, <2>3, <3>1
  <2>4. CASE OthersWrite("autoscalers", [found EXCEPT !.other = ~@])
    <3> DEFINE object == [found EXCEPT !.other = ~@]
    <3>1. /\ object \in Autoscalers /\ object.by = found.by /\ object.config = found.config
      BY <1>1 DEF Autoscalers
    <3> HIDE DEF object
    <3>2. Exists(object)
      BY <3>1 DEF IInv, Exists
    <3>3. OthersWrite("autoscalers", object)
      BY <2>4 DEF object
    <3>4. QED
      BY <1>2, <2>1, <3>1, <3>2, <3>3
  <2>5. QED
    BY <1>4, <2>2, <2>3, <2>4 DEF UserActs
<1>5. CASE OthersDelete
  <2>1. /\ UNCHANGED <<controllerVars, replicas, published>> /\ budget' \in Budget
        /\ OthersWrite("autoscalers", Deleted(found))
    BY <1>5, SpendLemma DEF OthersDelete, IInv
  <2>2. Deleted(found) \in Autoscalers /\ Exists(Deleted(found)) /\ Deleted(found).by = "none"
    BY <1>1 DEF Autoscalers, Exists, Deleted, NoConfig, HPAConfiguration
  <2>3. QED
    BY <1>2, <2>1, <2>2
<1>6. CASE Autoscale
  <2>1. /\ UNCHANGED <<informerVars, published>> /\ UNCHANGED <<controllerVars, budget>>
        /\ replicas' \in found.config.Min .. found.config.Max
    BY <1>6 DEF Autoscale
  <2>2. InformerInv' /\ Honesty' /\ server' = server /\ published' = published
    BY <2>1, SameInformersLemma DEF IInv, informerVars
  <2>3. found.config.Min \in Nat /\ found.config.Max \in Nat
    BY <1>1 DEF Autoscalers, HPAConfiguration
  <2>4. replicas' \in Nat
    BY <2>1, <2>3
  <2>5. ControlTypeOK' /\ pc' = pc /\ task' = task
    BY <2>1, <2>2, <2>4 DEF IInv, ControlTypeOK, controllerVars
  <2>6. QED
    BY <2>2, <2>5, StepLemma
<1>7. QED
  BY <1>3, <1>4, <1>5, <1>6

--------------------------------------------------------------------------------
\* In the beginning nothing is generated, enforced or under way.
LEMMA InitLemma == Init => IInv
<1> SUFFICES ASSUME Init PROVE IInv
  OBVIOUS
<1>1. /\ server.reco = [initialized |-> FALSE, generated |-> FALSE,
                        config |-> NoConfig, enforced |-> "none"]
      /\ server.autoscalers = [by |-> "none", config |-> NoConfig, other |-> FALSE]
      /\ server.workload = "absent"
      /\ server = [reco |-> server.reco, workload |-> server.workload,
                   autoscalers |-> server.autoscalers]
  BY DEF Init
<1>2. NoConfig \in HPAConfiguration
  BY DEF NoConfig, HPAConfiguration
<1>3. server \in Objects
  <2>1. server.reco \in Reco
    BY <1>1, <1>2 DEF Reco
  <2>2. server.workload \in Annotation
    BY <1>1 DEF Annotation
  <2>3. server.autoscalers \in Autoscalers
    BY <1>1, <1>2 DEF Autoscalers
  <2>4. QED
    BY <1>1, <2>1, <2>2, <2>3 DEF Objects
<1>4. /\ watch = [k \in Kind |-> << >>] /\ cache = server /\ published = {} /\ pc = "idle"
      /\ task = [config |-> NoConfig, verdict |-> "Disabled"]
  BY DEF Init
<1>5. watch \in Watches
  <2>1. watch = [reco |-> << >>, workload |-> << >>, autoscalers |-> << >>]
    BY <1>4 DEF Kind
  <2>2. [reco |-> << >>, workload |-> << >>, autoscalers |-> << >>] \in Watches
    BY DEF Watches, Versions
  <2>3. QED
    BY <2>1, <2>2
<1>6. InformerInv
  BY <1>3, <1>4, <1>5 DEF InformerInv, InformerTypeOK, Agreement, Agrees
<1>7. Honesty /\ Exists(server.autoscalers) /\ EnforcesFinished /\ GoodTask
  <2>1. watch.reco = << >>
    BY <1>4 DEF Kind
  <2>2. QED
    BY <1>1, <1>4, <2>1 DEF Honesty, Honest, Exists, EnforcesFinished, GoodTask
<1>8. replicas \in Nat /\ queued \in BOOLEAN
  BY WhitelistLemma, EnforcementAssumption DEF Init, HPAConfiguration
<1>9. budget \in Budget
  BY EnforcementAssumption DEF Init, Budget
<1>10. ControlTypeOK
  BY <1>2, <1>4, <1>8, <1>9 DEF ControlTypeOK, Reason
<1>11. QED
  BY <1>6, <1>7, <1>10 DEF IInv

\* IInv is inductive.
LEMMA NextLemma == IInv /\ [Next]_vars => IInv'
<1> SUFFICES ASSUME IInv, [Next]_vars PROVE IInv'
  OBVIOUS
<1>1. CASE Crash \/ \E kind \in Kind : Deliver(kind) \/ Relist(kind)
  BY <1>1, InformersLemma
<1>2. CASE Enforce
  BY <1>2, ReconcileLemma, DeleteLemma, ScaleLemma, CreateOrUpdateLemma, PatchLemma DEF Enforce
<1>3. CASE Fails
  BY <1>3, FailsLemma
<1>4. CASE Environment
  BY <1>4, RecoLemma, UsersLemma DEF Environment
<1>5. CASE UNCHANGED vars
  <2>1. UNCHANGED <<informerVars, published>> /\ UNCHANGED <<controllerVars, replicas, budget>>
    BY <1>5 DEF vars
  <2>2. InformerInv' /\ Honesty' /\ server' = server /\ published' = published
    BY <2>1, SameInformersLemma DEF IInv, informerVars
  <2>3. ControlTypeOK' /\ pc' = pc /\ task' = task
    BY <2>1, <2>2 DEF IInv, ControlTypeOK, controllerVars
  <2>4. QED
    BY <2>2, <2>3, StepLemma
<1>6. QED
  BY <1>1, <1>2, <1>3, <1>4, <1>5 DEF Next

(***************************************************************************)
(* The inductive invariant holds: whoever says Generated shows a           *)
(* configuration that was published, a cache with nothing on its way to it *)
(* is up to date, and the reconciler is about to enforce only what it read *)
(* from such a copy.                                                       *)
(***************************************************************************)
THEOREM Invariance == Spec => []IInv
BY InitLemma, NextLemma, PTL DEF Spec

(***************************************************************************)
(* Every variable keeps its type, and an autoscaler has a configuration    *)
(* exactly if it exists: an update of the spec alone never revives a       *)
(* deleted one (hpa_client_v2.go, CreateOrUpdateAutoscaler).               *)
(***************************************************************************)
THEOREM TypeCorrect == Spec => []TypeOK
<1>1. IInv => TypeOK
  BY DEF IInv, InformerInv, InformerTypeOK, Watches, ControlTypeOK, TypeOK
<1>2. QED
  BY <1>1, Invariance, PTL

(***************************************************************************)
(* For all configurations, lags, faults, crashes, lost watches and users   *)
(* the controller's autoscaler only ever has a configuration that was      *)
(* finished and that qualifies (hpaenforcement_controller.go, Reconcile).  *)
(***************************************************************************)
THEOREM OnlyFinishedIsEnforced == Spec => []EnforcesFinished
<1>1. IInv => EnforcesFinished
  BY DEF IInv
<1>2. QED
  BY <1>1, Invariance, PTL

--------------------------------------------------------------------------------
\* What a reader of the object sees of its cycle is unchanged.
LEMMA SameCycleLemma ==
  ASSUME server'.reco.generated = server.reco.generated,
         server'.reco.config = server.reco.config
  PROVE  UNCHANGED Cycle!cycleVars
BY DEF Cycle!cycleVars

\* A write by others puts the version into the server.
LEMMA CycleWriteLemma ==
  ASSUME IInv, NEW object \in Reco, NEW own \in BOOLEAN, Write("reco", object, own)
  PROVE  server'.reco = object
BY WriteLemma DEF IInv, Kind, IsOf

(***************************************************************************)
(* Whatever the controller, its informers and users do, and however old    *)
(* the copies are it works from, the PolicyRecommendation goes on behaving *)
(* as RecoCycle says: the controller changes neither its configuration nor *)
(* its progress (hpaenforcement_controller.go 281-289).                    *)
(***************************************************************************)
THEOREM CycleIsLeftAlone == Spec => LeavesCycleAlone
<1>1. Init => Cycle!Init
  BY DEF Init, Cycle!Init
<1>2. IInv /\ [Next]_vars => [Cycle!Next]_(Cycle!cycleVars)
  <2> SUFFICES ASSUME IInv, [Next]_vars PROVE [Cycle!Next]_(Cycle!cycleVars)
    OBVIOUS
  <2>1. server.reco \in Reco /\ server.autoscalers \in Autoscalers
    BY ObjectLemma DEF IInv
  <2>2. ASSUME server'.reco = server.reco PROVE UNCHANGED Cycle!cycleVars
    BY <2>2, SameCycleLemma
  <2>3. CASE Crash \/ (\E kind \in Kind : Deliver(kind) \/ Relist(kind)) \/ Reconcile
             \/ Scale \/ Fails \/ Autoscale \/ UNCHANGED vars
    <3>1. server' = server
      BY <2>3 DEF Crash, Deliver, Relist, Reconcile, Scale, Fails, Autoscale, vars, informerVars
    <3>2. QED
      BY <2>2, <3>1
  <2>4. ASSUME NEW object, Write("autoscalers", object, FALSE) PROVE server'.reco = server.reco
    <3>1. server' = [server EXCEPT !["autoscalers"] = object] /\ server \in Objects
      BY <2>4 DEF Write, IInv, InformerInv, InformerTypeOK
    <3>2. QED
      BY <3>1 DEF Objects
  <2>5. ASSUME NEW object, Write("workload", object, FALSE) PROVE server'.reco = server.reco
    <3>1. server' = [server EXCEPT !["workload"] = object] /\ server \in Objects
      BY <2>5 DEF Write, IInv, InformerInv, InformerTypeOK
    <3>2. QED
      BY <3>1 DEF Objects
  <2>6. CASE deleteControllerManagedAutoscaler \/ CreateOrUpdateAutoscaler
             \/ UserActs \/ OthersDelete
    <3>1. (\E object : Write("autoscalers", object, FALSE)) \/ server' = server
      BY <2>6 DEF deleteControllerManagedAutoscaler, CreateOrUpdateAutoscaler, UserActs,
                  OthersDelete, OthersWrite, informerVars
    <3>2. QED
      BY <2>2, <2>4, <3>1
  <2>7. CASE AnnotationChanges
    <3>1. \E object : Write("workload", object, FALSE)
      BY <2>7 DEF AnnotationChanges, OthersWrite
    <3>2. QED
      BY <2>2, <2>5, <3>1
  <2>8. CASE PatchHPAEnforced
    <3> DEFINE patched == [server.reco EXCEPT !.enforced = task.verdict]
    <3>1. /\ patched \in Reco /\ patched.generated = server.reco.generated
          /\ patched.config = server.reco.config
      BY <2>1 DEF IInv, ControlTypeOK, Reco
    <3>2. Write("reco", patched, TRUE) \/ server' = server
      BY <2>8 DEF PatchHPAEnforced, informerVars
    <3> HIDE DEF patched
    <3>3. server'.reco = patched \/ server'.reco = server.reco
      BY <3>1, <3>2, CycleWriteLemma
    <3>4. QED
      BY <3>1, <3>3, SameCycleLemma
  <2>9. CASE Initialize
    <3> DEFINE object == [server.reco EXCEPT !.initialized = TRUE]
    <3>1. /\ object \in Reco /\ object.generated = server.reco.generated
          /\ object.config = server.reco.config
      BY <2>1 DEF Reco
    <3>2. Write("reco", object, FALSE)
      BY <2>9 DEF Initialize, OthersWrite
    <3> HIDE DEF object
    <3>3. server'.reco = object
      BY <3>1, <3>2, CycleWriteLemma
    <3>4. QED
      BY <3>1, <3>3, SameCycleLemma
  <2>10. CASE RecoStarts
    <3> DEFINE object == [server.reco EXCEPT !.generated = FALSE]
    <3>1. /\ object \in Reco /\ object.generated = FALSE /\ object.config = server.reco.config
      BY <2>1 DEF Reco
    <3>2. Write("reco", object, FALSE)
      BY <2>10 DEF RecoStarts, OthersWrite
    <3> HIDE DEF object
    <3>3. server'.reco = object
      BY <3>1, <3>2, CycleWriteLemma
    <3>4. QED
      BY <3>1, <3>3 DEF Cycle!Next, Cycle!Start
  <2>11. CASE RecoChanges
    <3>1. PICK c \in Configs : Write("reco", [server.reco EXCEPT !.config = c], FALSE)
      BY <2>11 DEF RecoChanges, OthersWrite
    <3> DEFINE object == [server.reco EXCEPT !.config = c]
    <3>2. /\ object \in Reco /\ object.generated = server.reco.generated
          /\ object.config = c /\ c \in HPAConfiguration
      BY <2>1, EnforcementAssumption DEF Reco
    <3> HIDE DEF object
    <3>3. server'.reco = object
      BY <3>1, <3>2, CycleWriteLemma DEF object
    <3>4. ~server.reco.generated
      BY <2>11 DEF RecoChanges
    <3>5. QED
      BY <3>2, <3>3, <3>4 DEF Cycle!Next, Cycle!Change
  <2>12. CASE RecoFinishes
    <3> DEFINE object == [server.reco EXCEPT !.generated = TRUE]
    <3>1. /\ object \in Reco /\ object.generated = TRUE /\ object.config = server.reco.config
      BY <2>1 DEF Reco
    <3>2. Write("reco", object, FALSE) /\ ~server.reco.generated
      BY <2>12 DEF RecoFinishes, OthersWrite
    <3> HIDE DEF object
    <3>3. server'.reco = object
      BY <3>1, <3>2, CycleWriteLemma
    <3>4. QED
      BY <3>1, <3>2, <3>3 DEF Cycle!Next, Cycle!Finish
  <2>13. QED
    BY <2>3, <2>6, <2>7, <2>8, <2>9, <2>10, <2>11, <2>12 DEF Next, Enforce, Environment
<1>3. QED
  BY <1>1, <1>2, Invariance, PTL DEF Spec, LeavesCycleAlone, Cycle!Spec

--------------------------------------------------------------------------------
(***************************************************************************)
(* As long as nobody disturbs it, the enforcement controller gives a       *)
(* workload whose autoscaler it removes its maximum of replicas back.      *)
(*                                                                         *)
(* The maximum is that of a copy of the autoscaler from a cache that lags, *)
(* so CopiesInv says of every copy what EnforcesFinished says of the       *)
(* server's: its configuration was published and qualifies.  It is then a  *)
(* recommended one (PublishedInv), and its maximum is not zero, where      *)
(* deleteControllerManagedAutoscaler leaves the replicas as they are.      *)
(***************************************************************************)
Maxima == {c.Max : c \in Configs}

IsEnforceable(autoscalers, finished) ==
  autoscalers.by = "ottoscalr" =>
    autoscalers.config \in finished /\ Qualifies(autoscalers.config)

CopiesInv ==
  /\ IsEnforceable(cache.autoscalers, published)
  /\ \A i \in 1 .. Len(watch.autoscalers) : IsEnforceable(watch.autoscalers[i].object, published)

PublishedInv ==
  /\ server.reco.config \in Configs \cup {NoConfig}
  /\ published \subseteq Configs

BudgetInv ==
  /\ budget.fault <= MaxFaults
  /\ budget.crash <= MaxCrashes
  /\ budget.user <= MaxUsers
  /\ budget.deletion <= MaxDeletions

\* Without an autoscaler the workload is at a maximum or about to be scaled to one.
ResetInv ==
  Undisturbed =>
    /\ pc = "scale" => task.config.Max \in Maxima
    /\ server.autoscalers.by = "none" => pc = "scale" \/ replicas \in Maxima

ReplicaInv == IInv /\ CopiesInv /\ PublishedInv /\ BudgetInv /\ ResetInv

--------------------------------------------------------------------------------
(***************************************************************************)
(* The budgets: what was spent tells that the controller was disturbed.    *)
(***************************************************************************)
LEMMA BoundsLemma ==
  MaxFaults \in Nat /\ MaxCrashes \in Nat /\ MaxUsers \in Nat /\ MaxDeletions \in Nat
BY EnforcementAssumption

LEMMA SpentLemma ==
  ASSUME ControlTypeOK, BudgetInv,
         NEW what \in {"config", "annotation", "user", "deletion", "relist", "fault", "crash"},
         Spend(what)
  PROVE  /\ BudgetInv'
         /\ Undisturbed' => Undisturbed /\ what \in {"config", "annotation", "relist"}
<1>1. /\ budget \in Budget /\ budget[what] > 0
      /\ budget' = [budget EXCEPT ![what] = budget[what] - 1]
  BY DEF ControlTypeOK, Spend
<1>2. /\ budget.fault \in Nat /\ budget.crash \in Nat /\ budget.user \in Nat
      /\ budget.deletion \in Nat
  BY <1>1 DEF Budget
<1>3. /\ budget'.fault = IF what = "fault" THEN budget.fault - 1 ELSE budget.fault
      /\ budget'.crash = IF what = "crash" THEN budget.crash - 1 ELSE budget.crash
      /\ budget'.user = IF what = "user" THEN budget.user - 1 ELSE budget.user
      /\ budget'.deletion = IF what = "deletion" THEN budget.deletion - 1 ELSE budget.deletion
  BY <1>1 DEF Budget
<1>4. BudgetInv'
  BY <1>2, <1>3, BoundsLemma DEF BudgetInv
<1>5. ASSUME Undisturbed'
      PROVE  Undisturbed /\ what \in {"config", "annotation", "relist"}
  <2>1. /\ budget'.fault = MaxFaults /\ budget'.crash = MaxCrashes
        /\ budget'.user = MaxUsers /\ budget'.deletion = MaxDeletions
    BY <1>5 DEF Undisturbed
  <2>2. what \notin {"fault", "crash", "user", "deletion"}
    BY <1>2, <1>3, <2>1, BoundsLemma DEF BudgetInv
  <2> QED
    BY <1>3, <2>1, <2>2 DEF Undisturbed
<1> QED
  BY <1>4, <1>5

LEMMA UnspentLemma ==
  ASSUME BudgetInv, budget' = budget
  PROVE  BudgetInv' /\ (Undisturbed' => Undisturbed)
BY DEF BudgetInv, Undisturbed

\* Undisturbed, a call is followed by the next step.
LEMMA GoesOnLemma ==
  ASSUME ControlTypeOK, BudgetInv, NEW step, Goto(step)
  PROVE  /\ BudgetInv'
         /\ Undisturbed' => Undisturbed /\ pc' = step
<1>1. CASE pc' = step /\ UNCHANGED <<queued, budget>>
  BY <1>1, UnspentLemma
<1>2. CASE Spend("fault") /\ Requeue
  BY <1>2, SpentLemma
<1> QED
  BY <1>1, <1>2 DEF Goto

--------------------------------------------------------------------------------
(***************************************************************************)
(* The copies of the autoscaler.                                           *)
(***************************************************************************)
LEMMA ServerLemma ==
  ASSUME IInv
  PROVE  /\ IsEnforceable(server.autoscalers, published)
         /\ watch.autoscalers \in Seq([object : Autoscalers, own : BOOLEAN])
BY DEF IInv, EnforcesFinished, IsEnforceable, InformerInv, InformerTypeOK, Watches, Versions

LEMMA SameCopiesLemma ==
  ASSUME CopiesInv, published \subseteq published',
         cache'.autoscalers = cache.autoscalers, watch'.autoscalers = watch.autoscalers
  PROVE  CopiesInv'
BY DEF CopiesInv, IsEnforceable

\* An informer that is up to date has what the server has.
LEMMA FreshCopiesLemma ==
  ASSUME IInv, published' = published,
         cache'.autoscalers = server.autoscalers, watch'.autoscalers = << >>
  PROVE  CopiesInv'
BY ServerLemma DEF CopiesInv, IsEnforceable

LEMMA WriteCopiesLemma ==
  ASSUME IInv, IInv', CopiesInv, published \subseteq published', NEW kind \in Kind,
         NEW object, IsOf(kind, object), NEW own \in BOOLEAN, Write(kind, object, own)
  PROVE  /\ CopiesInv'
         /\ kind # "autoscalers" => server'.autoscalers = server.autoscalers
         /\ kind = "autoscalers" => server'.autoscalers = object
         /\ kind # "reco" => server'.reco = server.reco
         /\ kind = "reco" => server'.reco = object
<1>1. /\ server'[kind] = object /\ cache' = cache
      /\ watch'[kind] = Append(watch[kind], [object |-> object, own |-> own])
      /\ \A k \in Kind \ {kind} : server'[k] = server[k] /\ watch'[k] = watch[k]
  BY WriteLemma DEF IInv
<1>2. CASE kind # "autoscalers"
  <2>1. watch'.autoscalers = watch.autoscalers /\ server'.autoscalers = server.autoscalers
    BY <1>1, <1>2 DEF Kind
  <2>2. CopiesInv'
    BY <1>1, <2>1, SameCopiesLemma
  <2>3. /\ kind # "reco" => server'.reco = server.reco
        /\ kind = "reco" => server'.reco = object
    BY <1>1 DEF Kind
  <2> QED
    BY <1>2, <2>1, <2>2, <2>3
<1>3. CASE kind = "autoscalers"
  <2> DEFINE version == [object |-> object, own |-> own]
             versions == watch.autoscalers
             new == Append(versions, version)
  <2>1. /\ server'.autoscalers = object /\ server'.reco = server.reco
        /\ watch'.autoscalers = new
    BY <1>1, <1>3 DEF Kind
  <2>2. versions \in Seq([object : Autoscalers, own : BOOLEAN])
    BY ServerLemma
  <2>3. version \in [object : Autoscalers, own : BOOLEAN] /\ version.object = object
    BY <1>3 DEF IsOf
  <2> HIDE DEF version
  <2>4. /\ Len(versions) \in Nat /\ Len(new) = Len(versions) + 1
        /\ new[Len(new)] = version
        /\ \A i \in 1 .. Len(versions) : new[i] = versions[i]
    BY <2>2, <2>3, AppendLemma
  <2>5. IsEnforceable(object, published')
    <3>1. IsEnforceable(server.autoscalers, published)'
      BY ServerLemma, PTL
    <3> QED
      BY <2>1, <3>1 DEF IsEnforceable
  <2>6. IsEnforceable(cache'.autoscalers, published')
    BY <1>1 DEF CopiesInv, IsEnforceable
  <2> HIDE DEF new
  <2>7. ASSUME NEW i \in 1 .. Len(new)
        PROVE  IsEnforceable(new[i].object, published')
    <3>1. CASE i = Len(new)
      BY <2>3, <2>4, <2>5, <3>1
    <3>2. CASE i # Len(new)
      <4>1. i \in 1 .. Len(versions) /\ new[i] = versions[i]
        BY <2>4, <3>2
      <4> QED
        BY <4>1 DEF CopiesInv, IsEnforceable
    <3> QED
      BY <3>1, <3>2
  <2>8. CopiesInv'
    BY <2>1, <2>6, <2>7 DEF CopiesInv
  <2> QED
    BY <1>3, <2>1, <2>8
<1> QED
  BY <1>2, <1>3

LEMMA DeliverCopiesLemma ==
  ASSUME IInv, CopiesInv, NEW kind \in Kind, Deliver(kind)
  PROVE  CopiesInv'
<1>1. /\ watch[kind] # << >> /\ published' = published
      /\ cache' = [cache EXCEPT ![kind] = Head(watch[kind]).object]
      /\ watch' = [watch EXCEPT ![kind] = Tail(watch[kind])]
  BY DEF Deliver
<1>2. cache \in Objects /\ watch \in Watches
  BY DEF IInv, InformerInv, InformerTypeOK
<1>3. CASE kind # "autoscalers"
  <2>1. cache'.autoscalers = cache.autoscalers /\ watch'.autoscalers = watch.autoscalers
    BY <1>1, <1>2, <1>3 DEF Objects, Watches
  <2> QED
    BY <1>1, <2>1, SameCopiesLemma
<1>4. CASE kind = "autoscalers"
  <2> DEFINE versions == watch.autoscalers
             rest == Tail(versions)
  <2>1. /\ cache'.autoscalers = Head(versions).object /\ watch'.autoscalers = rest
        /\ versions # << >>
    BY <1>1, <1>2, <1>4 DEF Objects, Watches
  <2>2. versions \in Seq([object : Autoscalers, own : BOOLEAN])
    BY ServerLemma
  <2>3. /\ Len(versions) \in Nat \ {0} /\ Head(versions) = versions[1]
        /\ Len(rest) = Len(versions) - 1
        /\ \A i \in 1 .. Len(rest) : rest[i] = versions[i + 1]
    BY <2>1, <2>2, TailLemma
  <2> HIDE DEF rest
  <2>4. IsEnforceable(cache'.autoscalers, published')
    BY <1>1, <2>1, <2>3 DEF CopiesInv
  <2>5. ASSUME NEW i \in 1 .. Len(rest)
        PROVE  IsEnforceable(rest[i].object, published')
    <3>1. i + 1 \in 1 .. Len(versions) /\ rest[i] = versions[i + 1]
      BY <2>3
    <3> QED
      BY <1>1, <3>1 DEF CopiesInv
  <2> QED
    BY <2>1, <2>4, <2>5 DEF CopiesInv
<1> QED
  BY <1>3, <1>4

--------------------------------------------------------------------------------
(***************************************************************************)
(* The reconciler.                                                         *)
(***************************************************************************)
\* A step that leaves the autoscaler and does not touch the replicas.
LEMMA StillLemma ==
  ASSUME ResetInv, Undisturbed' => Undisturbed,
         server'.autoscalers.by = server.autoscalers.by, replicas' = replicas,
         \/ pc' = pc /\ task' = task
         \/ pc # "scale" /\ pc' # "scale"
  PROVE  ResetInv'
BY DEF ResetInv

\* A recommended configuration that qualifies has a maximum to scale to.
LEMMA MaximumLemma ==
  ASSUME PublishedInv, NEW autoscalers, autoscalers.by = "ottoscalr",
         IsEnforceable(autoscalers, published)
  PROVE  autoscalers.config.Max \in Maxima /\ autoscalers.config.Max # 0
<1>1. /\ autoscalers.config \in Configs /\ Qualifies(autoscalers.config)
      /\ autoscalers.config.Max \in Nat /\ MinRequiredReplicas \in Nat
  BY EnforcementAssumption DEF IsEnforceable, PublishedInv, HPAConfiguration
<1> QED
  BY <1>1 DEF Qualifies, Maxima

LEMMA ReconcileReplicas ==
  ASSUME ReplicaInv, IInv', Reconcile
  PROVE  ReplicaInv'
<1>1. /\ UNCHANGED <<informerVars, replicas, published, budget>> /\ pc = "idle"
      /\ pc' \in {"idle", "patch", "delete", "enforce"}
  <2> DEFINE verdict == Verdict(cache.reco.config, cache.workload, cache.autoscalers)
  <2>1. verdict \in Reason
    BY VerdictLemma
  <2> HIDE DEF verdict
  <2> QED
    BY <2>1 DEF Reconcile, verdict, Reason
<1>2. CopiesInv'
  BY <1>1, SameCopiesLemma DEF ReplicaInv, informerVars
<1>3. PublishedInv'
  BY <1>1 DEF ReplicaInv, PublishedInv, informerVars
<1>4. BudgetInv' /\ (Undisturbed' => Undisturbed)
  BY <1>1, UnspentLemma DEF ReplicaInv
<1>5. ResetInv'
  BY <1>1, <1>4, StillLemma DEF ReplicaInv, informerVars
<1> QED
  BY <1>2, <1>3, <1>4, <1>5 DEF ReplicaInv

LEMMA DeleteReplicas ==
  ASSUME ReplicaInv, IInv', deleteControllerManagedAutoscaler
  PROVE  ReplicaInv'
<1> DEFINE listed == cache.autoscalers
           found == server.autoscalers
<1>1. pc = "delete" /\ replicas' = replicas /\ published' = published
  BY DEF deleteControllerManagedAutoscaler
<1>2. CASE listed.by = "ottoscalr" /\ found.by # "none"
  <2>1. listed.config.Max \in Maxima /\ listed.config.Max # 0
    BY <1>2, MaximumLemma DEF ReplicaInv, CopiesInv
  <2>2. /\ Write("autoscalers", Deleted(found), FALSE)
        /\ task' = [task EXCEPT !.config = listed.config]
        /\ Goto("scale")
    BY <1>2, <2>1 DEF deleteControllerManagedAutoscaler
  <2>3. Deleted(found) \in Autoscalers
    <3>1. found \in Autoscalers
      BY ObjectLemma DEF ReplicaInv, IInv
    <3> QED
      BY <3>1 DEF Deleted, Autoscalers, NoConfig, HPAConfiguration
  <2>4. CopiesInv' /\ server'.reco = server.reco
    BY <1>1, <2>2, <2>3, WriteCopiesLemma DEF ReplicaInv, Kind, IsOf
  <2>5. PublishedInv'
    BY <1>1, <2>4 DEF ReplicaInv, PublishedInv
  <2>6. BudgetInv' /\ (Undisturbed' => pc' = "scale")
    BY <2>2, GoesOnLemma DEF ReplicaInv, IInv
  <2>7. task'.config = listed.config
    BY <2>2 DEF ReplicaInv, IInv, ControlTypeOK
  <2>8. ResetInv'
    BY <2>1, <2>6, <2>7 DEF ResetInv, Maxima
  <2> QED
    BY <2>4, <2>5, <2>6, <2>8 DEF ReplicaInv
<1>3. CASE ~(listed.by = "ottoscalr" /\ found.by # "none")
  <2>1. pc' = "patch" /\ UNCHANGED <<informerVars, budget>>
    BY <1>3 DEF deleteControllerManagedAutoscaler
  <2>2. CopiesInv'
    BY <1>1, <2>1, SameCopiesLemma DEF ReplicaInv, informerVars
  <2>3. PublishedInv'
    BY <1>1, <2>1 DEF ReplicaInv, PublishedInv, informerVars
  <2>4. BudgetInv' /\ (Undisturbed' => Undisturbed)
    BY <2>1, UnspentLemma DEF ReplicaInv
  <2>5. ResetInv'
    BY <1>1, <2>1, <2>4, StillLemma DEF ReplicaInv, informerVars
  <2> QED
    BY <2>2, <2>3, <2>4, <2>5 DEF ReplicaInv
<1> QED
  BY <1>2, <1>3

LEMMA ScaleReplicas ==
  ASSUME ReplicaInv, IInv', Scale
  PROVE  ReplicaInv'
<1>1. /\ UNCHANGED <<informerVars, task, published>> /\ pc = "scale"
      /\ replicas' = task.config.Max /\ Goto("patch")
  BY DEF Scale
<1>2. CopiesInv'
  BY <1>1, SameCopiesLemma DEF ReplicaInv, informerVars
<1>3. PublishedInv'
  BY <1>1 DEF ReplicaInv, PublishedInv, informerVars
<1>4. BudgetInv' /\ (Undisturbed' => Undisturbed /\ pc' = "patch")
  BY <1>1, GoesOnLemma DEF ReplicaInv, IInv
<1>5. ResetInv'
  BY <1>1, <1>4 DEF ReplicaInv, ResetInv, Maxima
<1> QED
  BY <1>2, <1>3, <1>4, <1>5 DEF ReplicaInv

LEMMA EnforceReplicas ==
  ASSUME ReplicaInv, IInv', CreateOrUpdateAutoscaler
  PROVE  ReplicaInv'
<1> DEFINE found == server.autoscalers
           created == [found EXCEPT !.by = "ottoscalr", !.config = task.config]
           updated == [found EXCEPT !.config = task.config]
<1>1. pc = "enforce" /\ replicas' = replicas /\ published' = published
  BY DEF CreateOrUpdateAutoscaler
<1>2. found \in Autoscalers /\ task.config \in HPAConfiguration
  BY ObjectLemma DEF ReplicaInv, IInv, ControlTypeOK
<1>3. /\ created \in Autoscalers /\ created.by = "ottoscalr"
      /\ updated \in Autoscalers /\ updated.by = found.by
  BY <1>2 DEF Autoscalers
<1> HIDE DEF created, updated
<1>4. CASE UNCHANGED <<informerVars, budget>> /\ pc' \in {"patch", "idle"}
  <2>1. CopiesInv'
    BY <1>1, <1>4, SameCopiesLemma DEF ReplicaInv, informerVars
  <2>2. PublishedInv'
    BY <1>1, <1>4 DEF ReplicaInv, PublishedInv, informerVars
  <2>3. BudgetInv' /\ (Undisturbed' => Undisturbed)
    BY <1>4, UnspentLemma DEF ReplicaInv
  <2>4. ResetInv'
    BY <1>1, <1>4, <2>3, StillLemma DEF ReplicaInv, informerVars
  <2> QED
    BY <2>1, <2>2, <2>3, <2>4 DEF ReplicaInv
<1>5. ASSUME NEW object \in Autoscalers, Write("autoscalers", object, FALSE), Goto("patch"),
             object.by \in {"ottoscalr", found.by}
      PROVE  ReplicaInv'
  <2>1. CopiesInv' /\ server'.reco = server.reco /\ server'.autoscalers = object
    BY <1>1, <1>5, WriteCopiesLemma DEF ReplicaInv, Kind, IsOf
  <2>2. PublishedInv'
    BY <1>1, <2>1 DEF ReplicaInv, PublishedInv
  <2>3. BudgetInv' /\ (Undisturbed' => Undisturbed /\ pc' = "patch")
    BY <1>5, GoesOnLemma DEF ReplicaInv, IInv
  <2>4. ResetInv'
    BY <1>1, <1>5, <2>1, <2>3 DEF ReplicaInv, ResetInv, Maxima
  <2> QED
    BY <2>1, <2>2, <2>3, <2>4 DEF ReplicaInv
<1>6. \/ UNCHANGED <<informerVars, budget>> /\ pc' \in {"patch", "idle"}
      \/ Write("autoscalers", created, FALSE) /\ Goto("patch")
      \/ Write("autoscalers", updated, FALSE) /\ Goto("patch")
  BY DEF CreateOrUpdateAutoscaler, Requeue, created, updated
<1> QED
  BY <1>3, <1>4, <1>5, <1>6

LEMMA PatchReplicas ==
  ASSUME ReplicaInv, IInv', PatchHPAEnforced
  PROVE  ReplicaInv'
<1> DEFINE patched == [server.reco EXCEPT !.enforced = task.verdict]
<1>1. /\ pc = "patch" /\ Goto("idle") /\ UNCHANGED <<task, replicas, published>>
      /\ Write("reco", patched, TRUE) \/ UNCHANGED informerVars
  BY DEF PatchHPAEnforced
<1>2. patched \in Reco /\ patched.config = server.reco.config
  BY ObjectLemma DEF ReplicaInv, IInv, ControlTypeOK, Reco
<1> HIDE DEF patched
<1>3. /\ CopiesInv' /\ server'.autoscalers = server.autoscalers
      /\ server'.reco.config = server.reco.config
  <2>1. CASE Write("reco", patched, TRUE)
    BY <1>1, <1>2, <2>1, WriteCopiesLemma DEF ReplicaInv, Kind, IsOf
  <2>2. CASE UNCHANGED informerVars
    BY <1>1, <2>2, SameCopiesLemma DEF ReplicaInv, informerVars
  <2> QED
    BY <1>1, <2>1, <2>2
<1>4. PublishedInv'
  BY <1>1, <1>3 DEF ReplicaInv, PublishedInv
<1>5. BudgetInv' /\ (Undisturbed' => Undisturbed /\ pc' = "idle")
  BY <1>1, GoesOnLemma DEF ReplicaInv, IInv
<1>6. ResetInv'
  BY <1>1, <1>3, <1>5 DEF ReplicaInv, ResetInv, Maxima
<1> QED
  BY <1>3, <1>4, <1>5, <1>6 DEF ReplicaInv

\* A failure or a restart disturbs: there is nothing to show for the replicas.
LEMMA FailureReplicas ==
  ASSUME ReplicaInv, IInv', Fails \/ Crash
  PROVE  ReplicaInv'
<1>1. UNCHANGED <<server, published>> /\ (Spend("fault") \/ Spend("crash"))
  BY DEF Fails, Crash, informerVars
<1>2. BudgetInv' /\ ~Undisturbed'
  BY <1>1, SpentLemma DEF ReplicaInv, IInv
<1>3. CopiesInv'
  <2>1. CASE Fails
    BY <1>1, <2>1, SameCopiesLemma DEF ReplicaInv, Fails, informerVars
  <2>2. CASE Crash
    <3>1. cache'.autoscalers = server.autoscalers /\ watch'.autoscalers = << >>
      BY <2>2 DEF Crash, Kind
    <3> QED
      BY <1>1, <3>1, FreshCopiesLemma DEF ReplicaInv
  <2> QED
    BY <2>1, <2>2
<1>4. PublishedInv'
  BY <1>1 DEF ReplicaInv, PublishedInv
<1> QED
  BY <1>2, <1>3, <1>4 DEF ReplicaInv, ResetInv

--------------------------------------------------------------------------------
(***************************************************************************)
(* The informers and the environment.                                      *)
(***************************************************************************)
LEMMA InformerReplicas ==
  ASSUME ReplicaInv, IInv', NEW kind \in Kind, Deliver(kind) \/ Relist(kind)
  PROVE  ReplicaInv'
<1>1. UNCHANGED <<server, pc, task, replicas, published>>
  BY DEF Deliver, Relist
<1>2. BudgetInv' /\ (Undisturbed' => Undisturbed)
  <2>1. CASE Deliver(kind)
    BY <2>1, UnspentLemma DEF Deliver, ReplicaInv
  <2>2. CASE Relist(kind)
    BY <2>2, SpentLemma DEF Relist, ReplicaInv, IInv
  <2> QED
    BY <2>1, <2>2
<1>3. CopiesInv'
  <2>1. CASE Deliver(kind)
    BY <2>1, DeliverCopiesLemma DEF ReplicaInv
  <2>2. CASE Relist(kind)
    <3>1. /\ cache' = [cache EXCEPT ![kind] = server[kind]]
          /\ watch' = [watch EXCEPT ![kind] = << >>]
          /\ cache \in Objects /\ watch \in Watches
      BY <2>2 DEF Relist, ReplicaInv, IInv, InformerInv, InformerTypeOK
    <3>2. CASE kind = "autoscalers"
      <4>1. cache'.autoscalers = server.autoscalers /\ watch'.autoscalers = << >>
        BY <3>1, <3>2 DEF Objects, Watches
      <4> QED
        BY <1>1, <4>1, FreshCopiesLemma DEF ReplicaInv
    <3>3. CASE kind # "autoscalers"
      <4>1. cache'.autoscalers = cache.autoscalers /\ watch'.autoscalers = watch.autoscalers
        BY <3>1, <3>3 DEF Objects, Watches
      <4> QED
        BY <1>1, <4>1, SameCopiesLemma DEF ReplicaInv
    <3> QED
      BY <3>2, <3>3
  <2> QED
    BY <2>1, <2>2
<1>4. PublishedInv'
  BY <1>1 DEF ReplicaInv, PublishedInv
<1>5. ResetInv'
  BY <1>1, <1>2, StillLemma DEF ReplicaInv
<1> QED
  BY <1>2, <1>3, <1>4, <1>5 DEF ReplicaInv

\* RecoController publishes only what was recommended.
LEMMA RecoReplicas ==
  ASSUME ReplicaInv, IInv', Initialize \/ RecoStarts \/ RecoChanges \/ RecoFinishes
  PROVE  ReplicaInv'
<1>1. server.reco \in Reco /\ server.reco.config \in Configs \cup {NoConfig}
  BY ObjectLemma DEF ReplicaInv, IInv, PublishedInv
<1>2. UNCHANGED <<controllerVars, replicas>> /\ (budget' = budget \/ Spend("config"))
  BY DEF Initialize, RecoStarts, RecoChanges, RecoFinishes
<1>3. BudgetInv' /\ (Undisturbed' => Undisturbed)
  BY <1>2, UnspentLemma, SpentLemma DEF ReplicaInv, IInv
<1>4. /\ published \subseteq published' /\ published' \subseteq Configs
      /\ \E object \in Reco : /\ object.config \in Configs \cup {NoConfig}
                              /\ Write("reco", object, FALSE)
  <2>1. CASE Initialize
    <3> DEFINE object == [server.reco EXCEPT !.initialized = TRUE]
    <3>1. object \in Reco /\ object.config = server.reco.config
      BY <1>1 DEF Reco
    <3> QED
      BY <1>1, <2>1, <3>1 DEF Initialize, OthersWrite, ReplicaInv, PublishedInv
  <2>2. CASE RecoStarts
    <3> DEFINE object == [server.reco EXCEPT !.generated = FALSE]
    <3>1. object \in Reco /\ object.config = server.reco.config
      BY <1>1 DEF Reco
    <3> QED
      BY <1>1, <2>2, <3>1 DEF RecoStarts, OthersWrite, ReplicaInv, PublishedInv
  <2>3. CASE RecoChanges
    <3>1. PICK c \in Configs : Write("reco", [server.reco EXCEPT !.config = c], FALSE)
      BY <2>3 DEF RecoChanges, OthersWrite
    <3> DEFINE object == [server.reco EXCEPT !.config = c]
    <3>2. object \in Reco /\ object.config = c
      BY <1>1, EnforcementAssumption DEF Reco
    <3> QED
      BY <2>3, <3>1, <3>2 DEF RecoChanges, ReplicaInv, PublishedInv
  <2>4. CASE RecoFinishes
    <3> DEFINE object == [server.reco EXCEPT !.generated = TRUE]
    <3>1. object \in Reco /\ object.config = server.reco.config
      BY <1>1 DEF Reco
    <3> QED
      BY <1>1, <2>4, <3>1 DEF RecoFinishes, OthersWrite, ReplicaInv, PublishedInv
  <2> QED
    BY <2>1, <2>2, <2>3, <2>4
<1>5. PICK object \in Reco : /\ object.config \in Configs \cup {NoConfig}
                             /\ Write("reco", object, FALSE)
  BY <1>4
<1>6. CopiesInv' /\ server'.autoscalers = server.autoscalers /\ server'.reco = object
  BY <1>4, <1>5, WriteCopiesLemma DEF ReplicaInv, Kind, IsOf
<1>7. PublishedInv'
  BY <1>4, <1>5, <1>6 DEF PublishedInv
<1>8. ResetInv'
  BY <1>2, <1>3, <1>6, StillLemma DEF ReplicaInv, controllerVars
<1> QED
  BY <1>3, <1>6, <1>7, <1>8 DEF ReplicaInv

LEMMA AnnotationReplicas ==
  ASSUME ReplicaInv, IInv', AnnotationChanges
  PROVE  ReplicaInv'
<1>1. /\ UNCHANGED <<controllerVars, replicas, published>> /\ Spend("annotation")
      /\ \E a \in Annotation : Write("workload", a, FALSE)
  BY DEF AnnotationChanges, OthersWrite
<1>2. BudgetInv' /\ (Undisturbed' => Undisturbed)
  BY <1>1, SpentLemma DEF ReplicaInv, IInv
<1>3. /\ CopiesInv' /\ server'.autoscalers = server.autoscalers
      /\ server'.reco = server.reco
  BY <1>1, WriteCopiesLemma DEF ReplicaInv, Kind, IsOf
<1>4. PublishedInv'
  BY <1>1, <1>3 DEF ReplicaInv, PublishedInv
<1>5. ResetInv'
  BY <1>1, <1>2, <1>3, StillLemma DEF ReplicaInv, controllerVars
<1> QED
  BY <1>2, <1>3, <1>4, <1>5 DEF ReplicaInv

\* What others do to the autoscalers disturbs as well.
LEMMA UserReplicas ==
  ASSUME ReplicaInv, IInv', UserActs \/ OthersDelete
  PROVE  ReplicaInv'
<1> DEFINE found == server.autoscalers
<1>1. /\ UNCHANGED <<controllerVars, replicas, published>>
      /\ Spend("user") \/ Spend("deletion")
  BY DEF UserActs, OthersDelete
<1>2. BudgetInv' /\ ~Undisturbed'
  BY <1>1, SpentLemma DEF ReplicaInv, IInv
<1>3. \E object \in Autoscalers : Write("autoscalers", object, FALSE)
  <2>1. found \in Autoscalers
    BY ObjectLemma DEF ReplicaInv, IInv
  <2>2. /\ [found EXCEPT !.by = "user", !.config = UserConfig] \in Autoscalers
        /\ Deleted(found) \in Autoscalers
        /\ [found EXCEPT !.other = ~found.other] \in Autoscalers
    BY <2>1, EnforcementAssumption DEF Autoscalers, Deleted, NoConfig, HPAConfiguration
  <2> QED
    BY <2>2 DEF UserActs, OthersDelete, OthersWrite
<1>4. CopiesInv' /\ server'.reco = server.reco
  BY <1>1, <1>3, WriteCopiesLemma DEF ReplicaInv, Kind, IsOf
<1>5. PublishedInv'
  BY <1>1, <1>4 DEF ReplicaInv, PublishedInv
<1> QED
  BY <1>2, <1>4, <1>5 DEF ReplicaInv, ResetInv

\* The cluster scales only what has an autoscaler.
LEMMA AutoscaleReplicas ==
  ASSUME ReplicaInv, IInv', Autoscale
  PROVE  ReplicaInv'
<1>1. /\ UNCHANGED <<informerVars, controllerVars, published, budget>>
      /\ server.autoscalers.by # "none"
  BY DEF Autoscale
<1>2. CopiesInv'
  BY <1>1, SameCopiesLemma DEF ReplicaInv, informerVars
<1>3. PublishedInv'
  BY <1>1 DEF ReplicaInv, PublishedInv, informerVars
<1>4. BudgetInv' /\ (Undisturbed' => Undisturbed)
  BY <1>1, UnspentLemma DEF ReplicaInv
<1>5. ResetInv'
  BY <1>1, <1>4 DEF ReplicaInv, ResetInv, Maxima, informerVars, controllerVars
<1> QED
  BY <1>2, <1>3, <1>4, <1>5 DEF ReplicaInv

LEMMA StutterReplicas ==
  ASSUME ReplicaInv, IInv', UNCHANGED vars
  PROVE  ReplicaInv'
<1>1. UNCHANGED <<informerVars, controllerVars, replicas, published, budget>>
  BY DEF vars
<1>2. CopiesInv'
  BY <1>1, SameCopiesLemma DEF ReplicaInv, informerVars
<1>3. PublishedInv'
  BY <1>1 DEF ReplicaInv, PublishedInv, informerVars
<1>4. BudgetInv' /\ (Undisturbed' => Undisturbed)
  BY <1>1, UnspentLemma DEF ReplicaInv
<1>5. ResetInv'
  BY <1>1, <1>4, StillLemma DEF ReplicaInv, informerVars, controllerVars
<1> QED
  BY <1>2, <1>3, <1>4, <1>5 DEF ReplicaInv

LEMMA InitReplicas == Init => ReplicaInv
<1> SUFFICES ASSUME Init PROVE ReplicaInv
  OBVIOUS
<1>1. /\ server.reco.config = NoConfig /\ server.autoscalers.by = "none"
      /\ cache.autoscalers.by = "none" /\ watch.autoscalers = << >>
      /\ published = {} /\ pc = "idle" /\ replicas \in Maxima
  BY DEF Init, Kind, Maxima
<1>2. BudgetInv
  BY BoundsLemma DEF Init, BudgetInv
<1> QED
  BY <1>1, <1>2, InitLemma DEF ReplicaInv, CopiesInv, IsEnforceable, PublishedInv, ResetInv

LEMMA NextReplicas == ReplicaInv /\ [Next]_vars => ReplicaInv'
<1> SUFFICES ASSUME ReplicaInv, [Next]_vars PROVE ReplicaInv'
  OBVIOUS
<1>1. IInv'
  BY NextLemma DEF ReplicaInv
<1>2. ASSUME NEW kind \in Kind, Deliver(kind) \/ Relist(kind) PROVE ReplicaInv'
  BY <1>1, <1>2, InformerReplicas
<1>3. CASE Enforce
  BY <1>1, <1>3, ReconcileReplicas, DeleteReplicas, ScaleReplicas, EnforceReplicas,
     PatchReplicas DEF Enforce
<1>4. CASE Fails \/ Crash
  BY <1>1, <1>4, FailureReplicas
<1>5. CASE Environment
  BY <1>1, <1>5, RecoReplicas, AnnotationReplicas, UserReplicas, AutoscaleReplicas
     DEF Environment
<1>6. CASE UNCHANGED vars
  BY <1>1, <1>6, StutterReplicas
<1> QED
  BY <1>2, <1>3, <1>4, <1>5, <1>6 DEF Next

(***************************************************************************)
(* For all configurations, lags, relists and changes of the annotation: as *)
(* long as no call failed, nothing crashed and nobody else touched the     *)
(* autoscalers, a workload without an autoscaler has, once the controller  *)
(* is done, the maximum of replicas of a recommended configuration         *)
(* (hpaenforcement_controller.go, deleteControllerManagedAutoscaler).      *)
(***************************************************************************)
THEOREM ReplicasAreGivenBack == Spec => []ReplicasAreReset
<1>1. ReplicaInv => ReplicasAreReset
  BY DEF ReplicaInv, ResetInv, ReplicasAreReset, Quiet, Maxima
<1> QED
  BY <1>1, InitReplicas, NextReplicas, PTL DEF Spec
================================================================================

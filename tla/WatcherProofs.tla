----------------------------- MODULE WatcherProofs -----------------------------
(***************************************************************************)
(* The policy watcher, for any number of policies.  Two facts carry the    *)
(* proofs: what the worker and the informer know of a policy is a version  *)
(* the policy has or had, and of two default policies one is still to be   *)
(* reconciled, or is being reconciled with the other on the list.          *)
(***************************************************************************)
EXTENDS PolicyWatcher, SequenceTheorems, FiniteSetTheorems, TLAPS

\* object is a version of p: the newest one or an older one, and a policy that is
\* alive was so in all its versions.
Knows(p, object) ==
  /\ object.version <= server[p].version
  /\ object.version = server[p].version => object = server[p]
  /\ server[p].phase = "live" => object.phase = "live"

\* The informer gets the versions of a policy in their order, up to the newest one.
InformerInv ==
  /\ \A p \in Policy : Knows(p, cache[p])
  /\ \A i \in 1..Len(watch) :
       /\ Knows(watch[i].name, watch[i].object)
       /\ cache[watch[i].name].version < watch[i].object.version
  /\ \A i, j \in 1..Len(watch) :
       i < j /\ watch[i].name = watch[j].name =>
         watch[i].object.version < watch[j].object.version
  /\ \A p \in Policy :
       \/ cache[p] = server[p]
       \/ \E i \in 1..Len(watch) : watch[i] = [name |-> p, object |-> server[p]]

\* The worker goes on to removeFinalizer only with a policy that was deleted, after
\* it has queued the PolicyRecommendations.
WorkerInv ==
  /\ Knows(policy.name, policy.object)
  /\ pc = "removeFinalizer" => policy.object.phase = "deleting" /\ policy.name \in warned

\* A version that will pass the filter is on its way.
Dirty(p) ==
  \E i \in 1..Len(watch) :
    watch[i].name = p /\ reconcilePredicate(cache[p], watch[i].object)

Due(p) == p \in queue \/ Dirty(p)

\* The worker has p as the default and has q to mark non-default, or will list it.
Handling(p, q) ==
  /\ pc \in {"addFinalizer", "requeue", "undefault"}
  /\ policy.name = p
  /\ policy.object.isDefault
  /\ pc = "undefault" => \E r \in others : r.name = q

DefaultsInv ==
  \A p, q \in Defaults :
    p # q => Due(p) \/ Due(q) \/ Handling(p, q) \/ Handling(q, p)

IInv == TypeOK /\ InformerInv /\ WorkerInv /\ DefaultsInv

Entry == [name : Policy, object : Object]

--------------------------------------------------------------------------------
(***************************************************************************)
(* Writing a policy.  Whatever was known of a policy stays known, and a    *)
(* change that passes the filter is on its way to the informer.            *)
(***************************************************************************)
LEMMA WritePreserves ==
  ASSUME TypeOK, InformerInv, NEW p \in Policy, NEW object \in Object, Write(p, object),
         object.phase = "live" => server[p].phase = "live",
         object.phase = "deleting" => object.finalizer,
         object.phase = "absent" => ~object.finalizer
  PROVE  /\ server' \in [Policy -> Object]
         /\ \A q \in Policy : /\ server'[q].phase = "deleting" => server'[q].finalizer
                              /\ server'[q].phase = "absent" => ~server'[q].finalizer
         /\ \A q \in Policy : q # p => server'[q] = server[q]
         /\ server'[p].phase = object.phase /\ server'[p].isDefault = object.isDefault
         /\ watch' \in Seq(Entry)
         /\ cache' = cache
         /\ InformerInv'
         /\ \A q \in Policy, o \in Object : Knows(q, o) => Knows(q, o)'
         /\ Knows(p, server[p])'
         /\ \A q \in Policy : Dirty(q) => Dirty(q)'
         /\ reconcilePredicate(server[p], object) => Dirty(p)'
<1> DEFINE new == [object EXCEPT !.version = server[p].version + 1]
           entry == [name |-> p, object |-> new]
           n == Len(watch)
<1>1. /\ server \in [Policy -> Object] /\ cache \in [Policy -> Object] /\ watch \in Seq(Entry)
      /\ \A q \in Policy : /\ server[q].phase = "deleting" => server[q].finalizer
                           /\ server[q].phase = "absent" => ~server[q].finalizer
  BY DEF TypeOK, Entry
<1>2. /\ server' = [server EXCEPT ![p] = new]
      /\ watch' = Append(watch, entry)
      /\ cache' = cache
  BY DEF Write
<1>3. server[p].version \in Nat /\ \A q \in Policy, o \in Object : server[q].version \in Nat /\ o.version \in Nat
  BY <1>1 DEF Object
<1>4. /\ new \in Object /\ new.version = server[p].version + 1
      /\ new.phase = object.phase /\ new.isDefault = object.isDefault
      /\ new.finalizer = object.finalizer
  BY <1>3 DEF Object
<1>5. entry \in Entry /\ entry.name = p /\ entry.object = new
  BY <1>4 DEF Entry
<1> HIDE DEF new, entry
<1>6. /\ server' \in [Policy -> Object] /\ server'[p] = new
      /\ \A q \in Policy : q # p => server'[q] = server[q]
  BY <1>1, <1>2, <1>4
<1>7. /\ watch' \in Seq(Entry) /\ Len(watch') = n + 1 /\ n \in Nat
      /\ \A i \in 1..n : watch'[i] = watch[i] /\ watch[i] \in Entry
      /\ watch'[n + 1] = entry
  BY <1>1, <1>2, <1>5, AppendProperties, LenProperties, ElementOfSeq
<1> HIDE DEF n
<1>8. /\ \A q \in Policy : /\ server'[q].phase = "deleting" => server'[q].finalizer
                           /\ server'[q].phase = "absent" => ~server'[q].finalizer
  <2> SUFFICES ASSUME NEW q \in Policy
               PROVE  /\ server'[q].phase = "deleting" => server'[q].finalizer
                      /\ server'[q].phase = "absent" => ~server'[q].finalizer
    OBVIOUS
  <2>1. CASE q = p
    BY <2>1, <1>4, <1>6
  <2>2. CASE q # p
    BY <2>2, <1>1, <1>6
  <2> QED
    BY <2>1, <2>2
<1>9. ASSUME NEW q \in Policy, NEW o \in Object, Knows(q, o)
      PROVE  Knows(q, o)'
  <2>1. CASE q = p
    <3>1. o.version < new.version
      BY <2>1, <1>3, <1>4, <1>9 DEF Knows
    <3> QED
      BY <3>1, <2>1, <1>3, <1>4, <1>6, <1>9 DEF Knows
  <2>2. CASE q # p
    BY <2>2, <1>6, <1>9 DEF Knows
  <2> QED
    BY <2>1, <2>2
<1>10. Knows(p, server[p])'
  BY <1>3, <1>4, <1>6 DEF Knows
<1>11. \A q \in Policy : Knows(q, cache[q]) /\ cache[q] \in Object
  BY <1>1 DEF InformerInv
<1>12. \A i \in 1..n : /\ watch[i].name \in Policy /\ watch[i].object \in Object
                       /\ Knows(watch[i].name, watch[i].object)
                       /\ cache[watch[i].name].version < watch[i].object.version
  BY <1>7 DEF InformerInv, Entry, n
<1>13. InformerInv'
  <2>1. ASSUME NEW q \in Policy
        PROVE  Knows(q, cache[q])'
    BY <1>2, <1>9, <1>11 DEF Knows
  <2>2. ASSUME NEW i \in 1..(n + 1)
        PROVE  /\ Knows(watch[i].name, watch[i].object)'
               /\ cache'[watch'[i].name].version < watch'[i].object.version
    <3>1. CASE i \in 1..n
      <4>1. watch'[i] = watch[i]
        BY <3>1, <1>7
      <4>2. Knows(watch[i].name, watch[i].object)'
        BY <4>1, <3>1, <1>9, <1>12 DEF Knows
      <4> QED
        BY <4>1, <4>2, <3>1, <1>2, <1>12
    <3>2. CASE i = n + 1
      <4>1. watch'[i].name = p /\ watch'[i].object = new
        BY <3>2, <1>5, <1>7
      <4>2. cache[p].version < new.version
        BY <1>3, <1>4, <1>11 DEF Knows
      <4> QED
        BY <4>1, <4>2, <1>2, <1>6, <1>10 DEF Knows
    <3> QED
      BY <3>1, <3>2, <1>7
  <2>3. ASSUME NEW i \in 1..(n + 1), NEW j \in 1..(n + 1), i < j,
               watch'[i].name = watch'[j].name
        PROVE  watch'[i].object.version < watch'[j].object.version
    <3>1. i \in 1..n /\ watch'[i] = watch[i]
      BY <2>3, <1>7
    <3>2. CASE j \in 1..n
      BY <3>1, <3>2, <2>3, <1>7 DEF InformerInv, n
    <3>3. CASE j = n + 1
      <4>1. watch'[j].name = p /\ watch'[j].object = new
        BY <3>3, <1>5, <1>7
      <4>2. watch[i].object.version <= server[p].version
        BY <4>1, <3>1, <2>3, <1>12 DEF Knows
      <4> QED
        BY <4>1, <4>2, <3>1, <1>3, <1>4, <1>12
    <3> QED
      BY <3>2, <3>3, <1>7
  <2>4. ASSUME NEW q \in Policy
        PROVE  \/ cache'[q] = server'[q]
               \/ \E i \in 1..(n + 1) : watch'[i] = [name |-> q, object |-> server'[q]]
    <3>1. CASE q = p
      <4>1. n + 1 \in 1..(n + 1) /\ watch'[n + 1] = [name |-> q, object |-> server'[q]]
        BY <3>1, <1>6, <1>7 DEF entry
      <4> QED
        BY <4>1
    <3>2. CASE q # p
      <4>1. \/ cache[q] = server[q]
            \/ \E i \in 1..n : watch[i] = [name |-> q, object |-> server[q]]
        BY DEF InformerInv, n
      <4>2. 1..n \subseteq 1..(n + 1)
        BY <1>7
      <4> QED
        BY <4>1, <4>2, <3>2, <1>2, <1>6, <1>7
    <3> QED
      BY <3>1, <3>2
  <2> QED
    BY <2>1, <2>2, <2>3, <2>4, <1>7 DEF InformerInv
<1>14. ASSUME NEW q \in Policy, NEW i \in 1..n, watch[i].name = q,
              reconcilePredicate(cache[q], watch[i].object)
       PROVE  Dirty(q)'
  <2>1. i \in 1..(n + 1) /\ watch'[i] = watch[i]
    BY <1>7
  <2> QED
    BY <2>1, <1>2, <1>7, <1>14 DEF Dirty
<1>15. \A q \in Policy : Dirty(q) => Dirty(q)'
  BY <1>14 DEF Dirty, n
<1>16. reconcilePredicate(server[p], object) => Dirty(p)'
  <2> SUFFICES ASSUME reconcilePredicate(server[p], object) PROVE Dirty(p)'
    OBVIOUS
  <2>1. CASE cache[p] = server[p]
    <3>1. reconcilePredicate(cache[p], new)
      BY <2>1, <1>4 DEF reconcilePredicate
    <3>2. n + 1 \in 1..(n + 1) /\ watch'[n + 1].name = p /\ watch'[n + 1].object = new
      BY <1>5, <1>7
    <3> QED
      BY <3>1, <3>2, <1>2, <1>7 DEF Dirty
  <2>2. CASE reconcilePredicate(cache[p], object)
    <3>1. reconcilePredicate(cache[p], new)
      BY <2>2, <1>4 DEF reconcilePredicate
    <3>2. n + 1 \in 1..(n + 1) /\ watch'[n + 1].name = p /\ watch'[n + 1].object = new
      BY <1>5, <1>7
    <3> QED
      BY <3>1, <3>2, <1>2, <1>7 DEF Dirty
  <2>3. CASE cache[p] # server[p] /\ ~reconcilePredicate(cache[p], object)
    <3>1. reconcilePredicate(cache[p], server[p])
      BY <2>3 DEF reconcilePredicate
    <3>2. PICK i \in 1..n : watch[i] = [name |-> p, object |-> server[p]]
      BY <2>3 DEF InformerInv, n
    <3> QED
      BY <3>1, <3>2, <1>14
  <2> QED
    BY <2>1, <2>2, <2>3
<1> QED
  BY <1>2, <1>4, <1>6, <1>7, <1>8, <1>9, <1>10, <1>13, <1>15, <1>16

\* What the informer has not shown of a policy is on its way.
LEMMA UnseenIsDirty ==
  ASSUME InformerInv, NEW p \in Policy, reconcilePredicate(cache[p], server[p])
  PROVE  Dirty(p)
<1>1. cache[p] # server[p]
  BY DEF reconcilePredicate
<1>2. PICK i \in 1..Len(watch) : watch[i] = [name |-> p, object |-> server[p]]
  BY <1>1 DEF InformerInv
<1> QED
  BY <1>2 DEF Dirty

\* Delivering a version queues the policy or changes nothing of what will queue it.
LEMMA DeliverPreserves ==
  ASSUME TypeOK, InformerInv, Deliver
  PROVE  /\ watch' \in Seq(Entry)
         /\ cache' \in [Policy -> Object]
         /\ queue' \subseteq Policy
         /\ InformerInv'
         /\ \A p \in Policy : Due(p) => Due(p)'
<1> DEFINE head == Head(watch)
           h == head.name
           n == Len(watch)
<1>1. /\ cache \in [Policy -> Object] /\ server \in [Policy -> Object]
      /\ watch \in Seq(Entry) /\ watch # << >> /\ queue \subseteq Policy
  BY DEF TypeOK, Entry, Deliver
<1>2. /\ watch' = Tail(watch) /\ server' = server
      /\ cache' = [cache EXCEPT ![h] = head.object]
      /\ queue' = IF reconcilePredicate(cache[h], head.object) THEN queue \cup {h} ELSE queue
  BY DEF Deliver
<1>3. /\ n \in Nat \ {0} /\ head = watch[1]
      /\ \A i \in 1..n : watch[i] \in Entry
  BY <1>1, EmptySeq, ElementOfSeq
<1>4. /\ watch' \in Seq(Entry) /\ Len(watch') = n - 1
      /\ \A i \in 1..(n - 1) : watch'[i] = watch[i + 1]
  BY <1>1, <1>2, HeadTailProperties
<1>5. head \in Entry /\ h \in Policy /\ head.object \in Object
  BY <1>3 DEF Entry
<1> HIDE DEF head, h, n
<1>6. /\ cache' \in [Policy -> Object] /\ cache'[h] = head.object
      /\ \A p \in Policy : p # h => cache'[p] = cache[p]
  BY <1>1, <1>2, <1>5
<1>7. \A i \in 1..(n - 1) : /\ i + 1 \in 1..n /\ i + 1 > 1 /\ 1 \in 1..n
  BY <1>3
<1>8. 1 \in 1..n /\ watch[1].name = h /\ watch[1].object = head.object
  BY <1>3 DEF h
<1>9. \A i \in 1..n : /\ watch[i].name \in Policy /\ watch[i].object \in Object
                      /\ Knows(watch[i].name, watch[i].object)
                      /\ cache[watch[i].name].version < watch[i].object.version
  BY <1>3 DEF InformerInv, Entry, n
<1>10. \A i, j \in 1..n :
         i < j /\ watch[i].name = watch[j].name =>
           watch[i].object.version < watch[j].object.version
  BY DEF InformerInv, n
<1>11. InformerInv'
  <2>1. ASSUME NEW p \in Policy
        PROVE  Knows(p, cache[p])'
    <3>1. CASE p = h
      BY <3>1, <1>2, <1>6, <1>8, <1>9 DEF Knows
    <3>2. CASE p # h
      BY <3>2, <1>2, <1>6 DEF Knows, InformerInv
    <3> QED
      BY <3>1, <3>2
  <2>2. ASSUME NEW i \in 1..(n - 1)
        PROVE  /\ Knows(watch[i].name, watch[i].object)'
               /\ cache'[watch'[i].name].version < watch'[i].object.version
    <3>1. watch'[i] = watch[i + 1] /\ i + 1 \in 1..n /\ 1 < i + 1
      BY <1>3, <1>4, <1>7
    <3>2. Knows(watch[i].name, watch[i].object)'
      BY <3>1, <1>2, <1>9 DEF Knows
    <3>3. CASE watch[i + 1].name = h
      BY <3>1, <3>2, <3>3, <1>6, <1>8, <1>10
    <3>4. CASE watch[i + 1].name # h
      BY <3>1, <3>2, <3>4, <1>6, <1>9
    <3> QED
      BY <3>2, <3>3, <3>4
  <2>3. ASSUME NEW i \in 1..(n - 1), NEW j \in 1..(n - 1), i < j,
               watch'[i].name = watch'[j].name
        PROVE  watch'[i].object.version < watch'[j].object.version
    <3>1. watch'[i] = watch[i + 1] /\ watch'[j] = watch[j + 1]
          /\ i + 1 \in 1..n /\ j + 1 \in 1..n /\ i + 1 < j + 1
      BY <2>3, <1>3, <1>4
    <3> QED
      BY <3>1, <2>3, <1>10
  <2>4. ASSUME NEW p \in Policy
        PROVE  \/ cache'[p] = server'[p]
               \/ \E i \in 1..(n - 1) : watch'[i] = [name |-> p, object |-> server'[p]]
    <3>1. CASE \E k \in 1..n : watch[k] = [name |-> p, object |-> server[p]]
      <4>1. PICK k \in 1..n : watch[k] = [name |-> p, object |-> server[p]]
        BY <3>1
      <4>2. CASE k = 1
        BY <4>1, <4>2, <1>2, <1>6, <1>8
      <4>3. CASE k # 1
        <5>1. k - 1 \in 1..(n - 1) /\ (k - 1) + 1 = k
          BY <4>3, <1>3
        <5>2. watch'[k - 1] = watch[k]
          BY <5>1, <1>4
        <5> QED
          BY <5>1, <5>2, <4>1, <1>2
      <4> QED
        BY <4>2, <4>3
    <3>2. CASE cache[p] = server[p]
      <4>1. CASE p = h
        <5>1. cache[p].version < head.object.version /\ head.object.version <= server[p].version
          BY <4>1, <1>8, <1>9 DEF Knows
        <5>2. cache[p].version \in Nat /\ head.object.version \in Nat /\ server[p].version \in Nat
          BY <1>1, <1>5 DEF Object
        <5> QED
          BY <5>1, <5>2, <3>2
      <4>2. CASE p # h
        BY <4>2, <3>2, <1>2, <1>6
      <4> QED
        BY <4>1, <4>2
    <3> QED
      BY <3>1, <3>2 DEF InformerInv, n
  <2> QED
    BY <2>1, <2>2, <2>3, <2>4, <1>4 DEF InformerInv
<1>12. ASSUME NEW p \in Policy, Due(p)
       PROVE  Due(p)'
  <2>1. CASE p \in queue
    BY <2>1, <1>2 DEF Due
  <2>2. CASE Dirty(p)
    <3>1. PICK k \in 1..n : watch[k].name = p /\ reconcilePredicate(cache[p], watch[k].object)
      BY <2>2 DEF Dirty, n
    <3>2. CASE p = h /\ reconcilePredicate(cache[h], head.object)
      BY <3>2, <1>2 DEF Due
    <3>3. CASE ~(p = h /\ reconcilePredicate(cache[h], head.object))
      <4>1. k # 1
        BY <3>1, <3>3, <1>8
      <4>2. k - 1 \in 1..(n - 1) /\ (k - 1) + 1 = k
        BY <4>1, <1>3
      <4>3. watch'[k - 1] = watch[k]
        BY <4>2, <1>4
      <4>4. reconcilePredicate(cache'[p], watch[k].object)
        BY <3>1, <3>3, <1>6 DEF reconcilePredicate
      <4> QED
        BY <4>2, <4>3, <4>4, <3>1, <1>4 DEF Due, Dirty
    <3> QED
      BY <3>2, <3>3
  <2> QED
    BY <2>1, <2>2, <1>12 DEF Due
<1> QED
  BY <1>1, <1>2, <1>4, <1>5, <1>6, <1>11, <1>12

--------------------------------------------------------------------------------
(***************************************************************************)
(* Steps that write a policy and do not make it a default keep             *)
(* DefaultsInv as far as the worker goes on handling what it handled.      *)
(***************************************************************************)
LEMMA DefaultsAfterWrite ==
  ASSUME TypeOK, DefaultsInv, NEW p \in Policy,
         \A q \in Policy : q # p => server'[q] = server[q],
         server'[p].phase = "live" => server[p].phase = "live",
         \/ server'[p].isDefault => server[p].isDefault
         \/ Dirty(p)',
         \A q \in Policy : Due(q) => Due(q)',
         \A q, r \in Policy : q \in Defaults' /\ r \in Defaults' /\ Handling(q, r) =>
                                Due(q)' \/ Due(r)' \/ Handling(q, r)'
  PROVE  DefaultsInv'
<1> SUFFICES ASSUME NEW q \in Defaults', NEW r \in Defaults', q # r
             PROVE  Due(q)' \/ Due(r)' \/ Handling(q, r)' \/ Handling(r, q)'
  BY DEF DefaultsInv
<1>1. q \in Policy /\ r \in Policy
  BY DEF Defaults
<1>2. CASE Dirty(p)' /\ (q = p \/ r = p)
  BY <1>2 DEF Due
<1>3. CASE ~(Dirty(p)' /\ (q = p \/ r = p))
  <2>1. q \in Defaults /\ r \in Defaults
    BY <1>1, <1>3 DEF Defaults
  <2>2. Due(q) \/ Due(r) \/ Handling(q, r) \/ Handling(r, q)
    BY <2>1 DEF DefaultsInv
  <2> QED
    BY <2>2, <1>1
<1> QED
  BY <1>2, <1>3

\* Steps that write nothing.
LEMMA DefaultsAfterStep ==
  ASSUME TypeOK, DefaultsInv, UNCHANGED server,
         \A q \in Policy, r \in Policy :
           /\ q \in Defaults /\ r \in Defaults /\ q # r
           /\ Due(q) \/ Handling(q, r)
           => Due(q)' \/ Due(r)' \/ Handling(q, r)' \/ Handling(r, q)'
  PROVE  DefaultsInv'
<1>1. Defaults' = Defaults /\ Defaults \subseteq Policy
  BY DEF Defaults
<1> SUFFICES ASSUME NEW q \in Defaults, NEW r \in Defaults, q # r
             PROVE  Due(q)' \/ Due(r)' \/ Handling(q, r)' \/ Handling(r, q)'
  BY <1>1 DEF DefaultsInv
<1>2. q \in Policy /\ r \in Policy
  BY <1>1
<1>3. Due(q) \/ Due(r) \/ Handling(q, r) \/ Handling(r, q)
  BY DEF DefaultsInv
<1> QED
  BY <1>2, <1>3

\* What is due stays due when only the queue grows.
LEMMA DueIfQueueGrows ==
  ASSUME UNCHANGED <<watch, cache>>, queue \subseteq queue'
  PROVE  \A p \in Policy : Due(p) => Due(p)'
BY DEF Due, Dirty

\* Nothing is written.
LEMMA SameInformers ==
  ASSUME InformerInv, UNCHANGED informerVars
  PROVE  /\ InformerInv'
         /\ \A p \in Policy, o \in Object : Knows(p, o) => Knows(p, o)'
<1>1. server' = server /\ watch' = watch /\ cache' = cache
  BY DEF informerVars
<1>2. InformerInv'
  BY <1>1 DEF InformerInv, Knows
<1>3. \A p \in Policy, o \in Object : Knows(p, o) => Knows(p, o)'
  BY <1>1 DEF Knows
<1> QED
  BY <1>2, <1>3

LEMMA SpendType ==
  ASSUME TypeOK, NEW what \in {"mark", "deletion", "fault", "crash"}, Spend(what)
  PROVE  budget' \in [mark : Nat, deletion : Nat, fault : Nat, crash : Nat]
<1>1. budget \in [mark : Nat, deletion : Nat, fault : Nat, crash : Nat]
  BY DEF TypeOK
<1>2. budget[what] \in Nat /\ budget[what] > 0 /\ budget' = [budget EXCEPT ![what] = budget[what] - 1]
  BY <1>1 DEF Spend
<1> QED
  BY <1>1, <1>2

LEMMA InformerDelivers ==
  ASSUME IInv, Deliver
  PROVE  IInv'
<1>1. /\ watch' \in Seq(Entry) /\ cache' \in [Policy -> Object] /\ queue' \subseteq Policy
      /\ InformerInv'
      /\ \A p \in Policy : Due(p) => Due(p)'
  BY DeliverPreserves DEF IInv
<1>2. UNCHANGED <<server, pc, policy, others, warned, budget>>
  BY DEF Deliver
<1>3. TypeOK'
  BY <1>1, <1>2 DEF IInv, TypeOK, Entry
<1>4. WorkerInv'
  BY <1>2 DEF IInv, WorkerInv, Knows
<1>5. \A p, q : Handling(p, q) => Handling(p, q)'
  BY <1>2 DEF Handling
<1>6. DefaultsInv'
  BY <1>1, <1>2, <1>5, DefaultsAfterStep DEF IInv
<1> QED
  BY <1>1, <1>3, <1>4, <1>6 DEF IInv

--------------------------------------------------------------------------------
(***************************************************************************)
(* The worker.                                                             *)
(***************************************************************************)
LEMMA ReconcilePreserves ==
  ASSUME IInv, NEW p \in Policy, Reconcile(p)
  PROVE  IInv'
<1>1. TypeOK /\ InformerInv /\ WorkerInv /\ DefaultsInv
  BY DEF IInv
<1>2. /\ pc = "idle" /\ queue' = queue \ {p}
      /\ UNCHANGED <<informerVars, others, warned, budget>>
  BY DEF Reconcile
<1>3. cache[p] \in Object /\ Knows(p, cache[p])
  BY <1>1 DEF TypeOK, InformerInv
<1>4. InformerInv' /\ \A q \in Policy, o \in Object : Knows(q, o) => Knows(q, o)'
  BY <1>1, <1>2, SameInformers
<1>5. CASE cache[p].phase = "absent"
  <2>1. UNCHANGED <<pc, policy>>
    BY <1>5 DEF Reconcile
  <2>2. TypeOK'
    BY <2>1, <1>1, <1>2 DEF TypeOK, informerVars
  <2>3. WorkerInv'
    BY <2>1, <1>1, <1>2 DEF WorkerInv, Knows, informerVars
  <2>4. server[p].phase # "live"
    BY <1>3, <1>5 DEF Knows
  <2>5. ASSUME NEW q \in Defaults, Due(q)
        PROVE  Due(q)'
    BY <2>4, <2>5, <1>2 DEF Due, Dirty, Defaults, informerVars
  <2>6. \A q, r : ~Handling(q, r)
    BY <1>2 DEF Handling
  <2>7. DefaultsInv'
    BY <2>5, <2>6, <1>1, <1>2, DefaultsAfterStep DEF informerVars
  <2> QED
    BY <2>2, <2>3, <2>7, <1>4 DEF IInv
<1>6. CASE cache[p].phase # "absent"
  <2>1. /\ policy' = [name |-> p, object |-> cache[p]]
        /\ pc' \in {"requeue", "addFinalizer"}
    BY <1>6 DEF Reconcile
  <2>2. policy'.name = p /\ policy'.object = cache[p]
    BY <2>1
  <2>3. TypeOK'
    BY <2>1, <1>1, <1>2, <1>3 DEF TypeOK, informerVars
  <2>4. WorkerInv'
    BY <2>1, <2>2, <1>2, <1>3 DEF WorkerInv, Knows, informerVars
  <2>5. ASSUME NEW q \in Policy, NEW r \in Policy, q \in Defaults, Due(q)
        PROVE  Due(q)' \/ Handling(q, r)'
    <3>1. CASE q # p \/ Dirty(q)
      BY <3>1, <2>5, <1>2 DEF Due, Dirty, informerVars
    <3>2. CASE q = p /\ cache[p].isDefault
      BY <3>2, <2>1, <2>2 DEF Handling
    <3>3. CASE q = p /\ ~cache[p].isDefault
      <4>1. reconcilePredicate(cache[p], server[p])
        BY <3>3, <2>5 DEF reconcilePredicate, Defaults
      <4>2. Dirty(p)
        BY <4>1, <1>1, UnseenIsDirty
      <4> QED
        BY <4>2, <3>1, <3>3
    <3> QED
      BY <3>1, <3>2, <3>3
  <2>6. \A q, r : ~Handling(q, r)
    BY <1>2 DEF Handling
  <2>7. DefaultsInv'
    BY <2>5, <2>6, <1>1, <1>2, DefaultsAfterStep DEF informerVars
  <2> QED
    BY <2>3, <2>4, <2>7, <1>4 DEF IInv
<1> QED
  BY <1>5, <1>6

\* The copy of an update that is accepted is the newest version.
LEMMA NotStale ==
  ASSUME TypeOK, WorkerInv, ~Stale(policy.name, policy.object.version)
  PROVE  policy.object = server[policy.name] /\ server[policy.name].phase # "absent"
BY DEF TypeOK, WorkerInv, Stale, Knows

LEMMA AddFinalizerPreserves ==
  ASSUME IInv, addFinalizer
  PROVE  IInv'
<1>1. TypeOK /\ InformerInv /\ WorkerInv /\ DefaultsInv
  BY DEF IInv
<1>2. PICK p \in Policy : /\ p = policy.name
                          /\ policy.object = server[p] /\ policy.object \in Object
                          /\ server[p].phase # "absent"
  BY <1>1, NotStale DEF addFinalizer, TypeOK
<1>3. PICK object \in Object : /\ object = [policy.object EXCEPT !.finalizer = TRUE]
                               /\ object.finalizer
                               /\ object.phase = server[p].phase
                               /\ object.isDefault = server[p].isDefault
  <2> DEFINE new == [policy.object EXCEPT !.finalizer = TRUE]
  <2>1. /\ new = [policy.object EXCEPT !.finalizer = TRUE]
        /\ new \in Object
        /\ new.finalizer
        /\ new.phase = server[p].phase
        /\ new.isDefault = server[p].isDefault
    BY <1>2 DEF Object
  <2> HIDE DEF new
  <2> QED
    BY <2>1
<1>4. /\ Write(p, object)
      /\ policy' = [policy EXCEPT !.object = server'[p]]
      /\ pc = "addFinalizer" /\ pc' = "requeue"
      /\ UNCHANGED <<queue, others, warned, budget>>
  BY <1>2, <1>3 DEF addFinalizer
<1>5. /\ server' \in [Policy -> Object]
      /\ \A q \in Policy : /\ server'[q].phase = "deleting" => server'[q].finalizer
                           /\ server'[q].phase = "absent" => ~server'[q].finalizer
      /\ \A q \in Policy : q # p => server'[q] = server[q]
      /\ server'[p].phase = object.phase /\ server'[p].isDefault = object.isDefault
      /\ watch' \in Seq(Entry)
      /\ cache' = cache
      /\ InformerInv'
      /\ Knows(p, server[p])'
      /\ \A q \in Policy : Dirty(q) => Dirty(q)'
  BY <1>1, <1>2, <1>3, <1>4, WritePreserves
<1>6. policy' \in [name : Policy, object : Object] /\ policy'.name = p /\ policy'.object = server'[p]
  BY <1>1, <1>2, <1>4, <1>5 DEF TypeOK
<1>7. TypeOK'
  BY <1>1, <1>4, <1>5, <1>6 DEF TypeOK, Entry
<1>8. WorkerInv'
  BY <1>4, <1>5, <1>6 DEF WorkerInv, Knows
<1>9. \A q \in Policy : Due(q) => Due(q)'
  BY <1>4, <1>5 DEF Due
<1>10. \A q, r \in Policy : Handling(q, r) => Handling(q, r)'
  BY <1>2, <1>3, <1>4, <1>5, <1>6 DEF Handling
<1>11. DefaultsInv'
  BY <1>1, <1>2, <1>3, <1>5, <1>9, <1>10, DefaultsAfterWrite
<1> QED
  BY <1>5, <1>7, <1>8, <1>11 DEF IInv

LEMMA HandleReconcilationPreserves ==
  ASSUME IInv, handleReconcilation
  PROVE  IInv'
<1> DEFINE listed == {q \in Policy \ {policy.name} :
                        cache[q].phase # "absent" /\ cache[q].isDefault}
<1>1. TypeOK /\ InformerInv /\ WorkerInv /\ DefaultsInv
  BY DEF IInv
<1>2. /\ pc = "requeue"
      /\ warned' = IF policy.object.phase = "deleting" THEN warned \cup {policy.name} ELSE warned
      /\ pc' = CASE policy.object.phase = "deleting" -> "removeFinalizer"
                 [] policy.object.phase = "live" /\ policy.object.isDefault -> "undefault"
                 [] OTHER -> "idle"
      /\ others' = { [name |-> q, version |-> cache[q].version] : q \in listed }
      /\ UNCHANGED <<informerVars, queue, policy, budget>>
  BY DEF handleReconcilation
<1>3. InformerInv'
  BY <1>1, <1>2, SameInformers
<1>4. policy.name \in Policy /\ policy.object \in Object
  BY <1>1 DEF TypeOK
<1>5. /\ pc' = "removeFinalizer" => policy.object.phase = "deleting"
      /\ policy.object.phase = "live" /\ policy.object.isDefault => pc' = "undefault"
      /\ pc' \in {"removeFinalizer", "undefault", "idle"}
  BY <1>2
<1>6. TypeOK'
  <2>1. others' \subseteq [name : Policy, version : Nat]
    BY <1>1, <1>2 DEF TypeOK, Object
  <2>2. warned' \subseteq Policy
    BY <1>1, <1>2, <1>4 DEF TypeOK
  <2> QED
    BY <2>1, <2>2, <1>1, <1>2, <1>5 DEF TypeOK, informerVars
<1>7. WorkerInv'
  BY <1>1, <1>2, <1>5 DEF WorkerInv, Knows, informerVars
<1>8. \A q \in Policy : Due(q) => Due(q)'
  BY <1>2, DueIfQueueGrows DEF informerVars
<1>9. ASSUME NEW q \in Policy, NEW r \in Policy, q \in Defaults, r \in Defaults, q # r,
             Handling(q, r)
      PROVE  Due(r)' \/ Handling(q, r)'
  <2>1. policy.name = q /\ policy.object.isDefault
    BY <1>9 DEF Handling
  <2>2. policy.object.phase = "live"
    BY <2>1, <1>1, <1>9 DEF WorkerInv, Knows, Defaults
  <2>3. cache[r].phase = "live"
    BY <1>1, <1>9 DEF InformerInv, Knows, Defaults
  <2>4. CASE cache[r].isDefault
    <3>1. r \in listed
      BY <2>1, <2>3, <2>4, <1>9
    <3>2. [name |-> r, version |-> cache[r].version] \in others'
      BY <3>1, <1>2
    <3>3. pc' = "undefault" /\ policy' = policy
      BY <2>1, <2>2, <1>2, <1>5
    <3> QED
      BY <3>2, <3>3, <2>1 DEF Handling
  <2>5. CASE ~cache[r].isDefault
    <3>1. reconcilePredicate(cache[r], server[r])
      BY <2>5, <1>9 DEF reconcilePredicate, Defaults
    <3>2. Due(r)
      BY <3>1, <1>1, UnseenIsDirty DEF Due
    <3> QED
      BY <3>2, <1>8
  <2> QED
    BY <2>4, <2>5
<1>10. DefaultsInv'
  BY <1>1, <1>2, <1>8, <1>9, DefaultsAfterStep DEF informerVars
<1> QED
  BY <1>3, <1>6, <1>7, <1>10 DEF IInv

LEMMA RemoveFinalizerPreserves ==
  ASSUME IInv, removeFinalizer
  PROVE  /\ IInv'
         /\ \A q \in Policy :
              server[q].phase = "deleting" /\ server'[q].phase = "absent" => q \in warned
<1>1. TypeOK /\ InformerInv /\ WorkerInv /\ DefaultsInv
  BY DEF IInv
<1>2. PICK p \in Policy : /\ p = policy.name
                          /\ policy.object = server[p] /\ policy.object \in Object
                          /\ p \in warned
  BY <1>1, NotStale DEF removeFinalizer, TypeOK, WorkerInv
<1>3. PICK object \in Object : /\ object = [policy.object EXCEPT !.phase = "absent",
                                              !.finalizer = FALSE, !.isDefault = FALSE]
                               /\ object.phase = "absent"
                               /\ ~object.finalizer /\ ~object.isDefault
  <2> DEFINE new == [policy.object EXCEPT !.phase = "absent", !.finalizer = FALSE, !.isDefault = FALSE]
  <2>1. /\ new = [policy.object EXCEPT !.phase = "absent", !.finalizer = FALSE, !.isDefault = FALSE]
        /\ new \in Object
        /\ new.phase = "absent" /\ ~new.finalizer /\ ~new.isDefault
    BY <1>2 DEF Object, Phase
  <2> HIDE DEF new
  <2> QED
    BY <2>1
<1>4. /\ Write(p, object)
      /\ pc = "removeFinalizer" /\ pc' = "idle"
      /\ UNCHANGED <<queue, policy, others, warned, budget>>
  BY <1>2, <1>3 DEF removeFinalizer
<1>5. /\ server' \in [Policy -> Object]
      /\ \A q \in Policy : /\ server'[q].phase = "deleting" => server'[q].finalizer
                           /\ server'[q].phase = "absent" => ~server'[q].finalizer
      /\ \A q \in Policy : q # p => server'[q] = server[q]
      /\ server'[p].phase = object.phase /\ server'[p].isDefault = object.isDefault
      /\ watch' \in Seq(Entry)
      /\ cache' = cache
      /\ InformerInv'
      /\ \A q \in Policy, o \in Object : Knows(q, o) => Knows(q, o)'
      /\ \A q \in Policy : Dirty(q) => Dirty(q)'
  BY <1>1, <1>2, <1>3, <1>4, WritePreserves
<1>6. TypeOK'
  BY <1>1, <1>4, <1>5 DEF TypeOK, Entry
<1>7. WorkerInv'
  <2>1. Knows(p, policy.object)'
    BY <1>1, <1>2, <1>4, <1>5 DEF WorkerInv, Knows
  <2> QED
    BY <2>1, <1>2, <1>4 DEF WorkerInv, Knows
<1>8. \A q \in Policy : Due(q) => Due(q)'
  BY <1>4, <1>5 DEF Due
<1>9. \A q, r \in Policy : ~Handling(q, r)
  BY <1>4 DEF Handling
<1>10. DefaultsInv'
  BY <1>1, <1>2, <1>3, <1>5, <1>8, <1>9, DefaultsAfterWrite
<1>11. \A q \in Policy :
         server[q].phase = "deleting" /\ server'[q].phase = "absent" => q \in warned
  BY <1>2, <1>5
<1> QED
  BY <1>5, <1>6, <1>7, <1>10, <1>11 DEF IInv

LEMMA UndefaultPreserves ==
  ASSUME IInv, Undefault
  PROVE  /\ IInv'
         /\ \A q \in Policy : server'[q].phase = server[q].phase
<1>1. TypeOK /\ InformerInv /\ WorkerInv /\ DefaultsInv
  BY DEF IInv
<1>2. PICK x \in others :
        /\ ~Stale(x.name, x.version)
        /\ Write(x.name, [server[x.name] EXCEPT !.isDefault = FALSE])
        /\ others' = others \ {x}
  BY DEF Undefault
<1>3. pc = "undefault" /\ UNCHANGED <<queue, pc, policy, warned, budget>>
  BY DEF Undefault
<1>4. PICK p \in Policy : p = x.name
  BY <1>1 DEF TypeOK
<1>5. PICK object \in Object : /\ object = [server[p] EXCEPT !.isDefault = FALSE]
                               /\ object.phase = server[p].phase
                               /\ object.finalizer = server[p].finalizer
                               /\ ~object.isDefault
  <2> DEFINE new == [server[p] EXCEPT !.isDefault = FALSE]
  <2>1. /\ new = [server[p] EXCEPT !.isDefault = FALSE]
        /\ new \in Object
        /\ new.phase = server[p].phase /\ new.finalizer = server[p].finalizer
        /\ ~new.isDefault
    BY <1>1 DEF TypeOK, Object
  <2> HIDE DEF new
  <2> QED
    BY <2>1
<1>6. Write(p, object)
  BY <1>2, <1>4, <1>5
<1>7. /\ object.phase = "deleting" => object.finalizer
      /\ object.phase = "absent" => ~object.finalizer
  BY <1>1, <1>5 DEF TypeOK
<1>8. /\ server' \in [Policy -> Object]
      /\ \A q \in Policy : /\ server'[q].phase = "deleting" => server'[q].finalizer
                           /\ server'[q].phase = "absent" => ~server'[q].finalizer
      /\ \A q \in Policy : q # p => server'[q] = server[q]
      /\ server'[p].phase = object.phase /\ server'[p].isDefault = object.isDefault
      /\ watch' \in Seq(Entry)
      /\ cache' = cache
      /\ InformerInv'
      /\ \A q \in Policy, o \in Object : Knows(q, o) => Knows(q, o)'
      /\ \A q \in Policy : Dirty(q) => Dirty(q)'
  BY <1>1, <1>5, <1>6, <1>7, WritePreserves
<1>9. TypeOK'
  BY <1>1, <1>2, <1>3, <1>8 DEF TypeOK, Entry
<1>10. WorkerInv'
  <2>1. PICK q \in Policy, o \in Object : q = policy.name /\ o = policy.object /\ Knows(q, o)
    BY <1>1 DEF TypeOK, WorkerInv
  <2>2. Knows(q, o)'
    BY <2>1, <1>8
  <2> QED
    BY <2>1, <2>2, <1>3 DEF WorkerInv, Knows
<1>11. \A q \in Policy : Due(q) => Due(q)'
  BY <1>3, <1>8 DEF Due
<1>12. ASSUME NEW q \in Policy, NEW r \in Policy, r \in Defaults', Handling(q, r)
       PROVE  Handling(q, r)'
  <2>1. PICK y \in others : y.name = r
    BY <1>3, <1>12 DEF Handling
  <2>2. r # p
    BY <1>5, <1>8, <1>12 DEF Defaults
  <2>3. y \in others'
    BY <2>1, <2>2, <1>2, <1>4
  <2> QED
    BY <2>1, <2>3, <1>3, <1>12 DEF Handling
<1>13. DefaultsInv'
  BY <1>1, <1>5, <1>8, <1>11, <1>12, DefaultsAfterWrite
<1> QED
  BY <1>5, <1>8, <1>9, <1>10, <1>13 DEF IInv

LEMMA UndefaultedPreserves ==
  ASSUME IInv, Undefaulted
  PROVE  IInv'
<1>1. TypeOK /\ InformerInv /\ WorkerInv /\ DefaultsInv
  BY DEF IInv
<1>2. /\ pc = "undefault" /\ others = {} /\ pc' = "idle"
      /\ UNCHANGED <<informerVars, queue, policy, others, warned, budget>>
  BY DEF Undefaulted
<1>3. InformerInv'
  BY <1>1, <1>2, SameInformers
<1>4. TypeOK'
  BY <1>1, <1>2 DEF TypeOK, informerVars
<1>5. WorkerInv'
  BY <1>1, <1>2 DEF WorkerInv, Knows, informerVars
<1>6. \A q, r : ~Handling(q, r)
  BY <1>2 DEF Handling
<1>7. \A q \in Policy : Due(q) => Due(q)'
  BY <1>2, DueIfQueueGrows DEF informerVars
<1>8. DefaultsInv'
  BY <1>1, <1>2, <1>6, <1>7, DefaultsAfterStep DEF informerVars
<1> QED
  BY <1>3, <1>4, <1>5, <1>8 DEF IInv

\* A reconciliation that is given up is tried again.
LEMMA RequeuePreserves ==
  ASSUME IInv, Conflict \/ Fails
  PROVE  IInv'
<1>1. TypeOK /\ InformerInv /\ WorkerInv /\ DefaultsInv
  BY DEF IInv
<1>2. /\ pc' = "idle" /\ queue' = queue \cup {policy.name}
      /\ UNCHANGED <<informerVars, policy, others, warned>>
  BY DEF Conflict, Fails, Requeue
<1>3. budget' \in [mark : Nat, deletion : Nat, fault : Nat, crash : Nat]
  BY <1>1, SpendType DEF Conflict, Fails, TypeOK
<1>4. InformerInv'
  BY <1>1, <1>2, SameInformers
<1>5. TypeOK'
  BY <1>1, <1>2, <1>3 DEF TypeOK, informerVars
<1>6. WorkerInv'
  BY <1>1, <1>2 DEF WorkerInv, Knows, informerVars
<1>7. \A q \in Policy : Due(q) => Due(q)'
  BY <1>2, DueIfQueueGrows DEF informerVars
<1>8. \A q, r : Handling(q, r) => Due(q)'
  BY <1>2 DEF Handling, Due
<1>9. DefaultsInv'
  BY <1>1, <1>2, <1>7, <1>8, DefaultsAfterStep DEF informerVars
<1> QED
  BY <1>4, <1>5, <1>6, <1>9 DEF IInv

--------------------------------------------------------------------------------
(***************************************************************************)
(* Restarts and users.                                                     *)
(***************************************************************************)
LEMMA CrashPreserves ==
  ASSUME IInv, Crash
  PROVE  IInv'
<1>1. TypeOK /\ InformerInv /\ WorkerInv /\ DefaultsInv
  BY DEF IInv
<1>2. /\ pc' = "idle" /\ cache' = server /\ watch' = << >>
      /\ queue' = {p \in Policy : server[p].phase # "absent"}
      /\ UNCHANGED <<server, policy, others, warned>>
  BY DEF Crash
<1>3. budget' \in [mark : Nat, deletion : Nat, fault : Nat, crash : Nat]
  BY <1>1, SpendType DEF Crash
<1>4. TypeOK'
  BY <1>1, <1>2, <1>3 DEF TypeOK
<1>5. InformerInv'
  <2>1. Len(watch') = 0
    BY <1>2
  <2>2. \A p \in Policy : Knows(p, cache[p])' /\ cache'[p] = server'[p]
    BY <1>1, <1>2 DEF Knows, TypeOK, Object
  <2> QED
    BY <2>1, <2>2 DEF InformerInv
<1>6. WorkerInv'
  BY <1>1, <1>2 DEF WorkerInv, Knows
<1>7. \A q \in Defaults : Due(q)'
  BY <1>2 DEF Defaults, Due
<1>8. DefaultsInv'
  BY <1>1, <1>2, <1>7, DefaultsAfterStep
<1> QED
  BY <1>4, <1>5, <1>6, <1>8 DEF IInv

\* A user's write leaves the worker alone; a policy it makes a default will be queued.
LEMMA UserPreserves ==
  ASSUME IInv, NEW p \in Policy, NEW object \in Object, Write(p, object),
         server[p].phase = "live",
         object.phase = "deleting" => object.finalizer,
         object.phase = "absent" => ~object.finalizer,
         budget' \in [mark : Nat, deletion : Nat, fault : Nat, crash : Nat],
         UNCHANGED <<workerVars, warned>>
  PROVE  /\ IInv'
         /\ \A q \in Policy : q # p => server'[q] = server[q]
<1>1. TypeOK /\ InformerInv /\ WorkerInv /\ DefaultsInv
  BY DEF IInv
<1>2. UNCHANGED <<queue, pc, policy, others, warned>>
  BY DEF workerVars
<1>3. /\ server' \in [Policy -> Object]
      /\ \A q \in Policy : /\ server'[q].phase = "deleting" => server'[q].finalizer
                           /\ server'[q].phase = "absent" => ~server'[q].finalizer
      /\ \A q \in Policy : q # p => server'[q] = server[q]
      /\ server'[p].phase = object.phase /\ server'[p].isDefault = object.isDefault
      /\ watch' \in Seq(Entry)
      /\ cache' = cache
      /\ InformerInv'
      /\ \A q \in Policy, o \in Object : Knows(q, o) => Knows(q, o)'
      /\ \A q \in Policy : Dirty(q) => Dirty(q)'
      /\ reconcilePredicate(server[p], object) => Dirty(p)'
  BY <1>1, WritePreserves
<1>4. TypeOK'
  BY <1>1, <1>2, <1>3 DEF TypeOK, Entry
<1>5. WorkerInv'
  <2>1. PICK q \in Policy, o \in Object : q = policy.name /\ o = policy.object /\ Knows(q, o)
    BY <1>1 DEF TypeOK, WorkerInv
  <2>2. Knows(q, o)'
    BY <2>1, <1>3
  <2> QED
    BY <2>1, <2>2, <1>1, <1>2 DEF WorkerInv, Knows
<1>6. \A q \in Policy : Due(q) => Due(q)'
  BY <1>2, <1>3 DEF Due
<1>7. \A q, r : Handling(q, r) => Handling(q, r)'
  BY <1>2 DEF Handling
<1>8. (server'[p].isDefault => server[p].isDefault) \/ Dirty(p)'
  BY <1>3 DEF reconcilePredicate
<1>9. DefaultsInv'
  BY <1>1, <1>3, <1>6, <1>7, <1>8, DefaultsAfterWrite
<1> QED
  BY <1>3, <1>4, <1>5, <1>9 DEF IInv

LEMMA MarkPreserves ==
  ASSUME IInv, NEW p \in Policy, Mark(p)
  PROVE  /\ IInv'
         /\ \A q \in Policy : server[q].phase = "deleting" => server'[q] = server[q]
<1>1. TypeOK /\ server[p] \in Object
  BY DEF IInv, TypeOK
<1>2. PICK object \in Object : /\ object = [server[p] EXCEPT !.isDefault = ~server[p].isDefault]
                               /\ object.phase = server[p].phase
  <2> DEFINE new == [server[p] EXCEPT !.isDefault = ~server[p].isDefault]
  <2>1. /\ new = [server[p] EXCEPT !.isDefault = ~server[p].isDefault]
        /\ new \in Object
        /\ new.phase = server[p].phase
    BY <1>1 DEF Object
  <2> HIDE DEF new
  <2> QED
    BY <2>1
<1>3. Write(p, object) /\ server[p].phase = "live" /\ UNCHANGED <<workerVars, warned>>
  BY <1>2 DEF Mark
<1>4. budget' \in [mark : Nat, deletion : Nat, fault : Nat, crash : Nat]
  BY <1>1, SpendType DEF Mark
<1> QED
  BY <1>2, <1>3, <1>4, UserPreserves

LEMMA DeletePreserves ==
  ASSUME IInv, NEW p \in Policy, Delete(p)
  PROVE  /\ IInv'
         /\ \A q \in Policy : server[q].phase = "deleting" => server'[q] = server[q]
<1>1. TypeOK /\ server[p] \in Object /\ server[p].phase = "live"
  BY DEF IInv, TypeOK, Delete
<1>2. PICK object \in Object :
        /\ object = IF server[p].finalizer
                      THEN [server[p] EXCEPT !.phase = "deleting"]
                      ELSE [server[p] EXCEPT !.phase = "absent", !.isDefault = FALSE]
        /\ object.phase = "deleting" => object.finalizer
        /\ object.phase = "absent" => ~object.finalizer
  <2> DEFINE new == (IF server[p].finalizer
                    THEN [server[p] EXCEPT !.phase = "deleting"]
                    ELSE [server[p] EXCEPT !.phase = "absent", !.isDefault = FALSE])
  <2>1. /\ new = (IF server[p].finalizer
                    THEN [server[p] EXCEPT !.phase = "deleting"]
                    ELSE [server[p] EXCEPT !.phase = "absent", !.isDefault = FALSE])
        /\ new \in Object
        /\ new.phase = "deleting" => new.finalizer
        /\ new.phase = "absent" => ~new.finalizer
    BY <1>1 DEF Object, Phase
  <2> HIDE DEF new
  <2> QED
    BY <2>1
<1>3. Write(p, object) /\ UNCHANGED <<workerVars, warned>>
  BY <1>2 DEF Delete
<1>4. budget' \in [mark : Nat, deletion : Nat, fault : Nat, crash : Nat]
  BY <1>1, SpendType DEF Delete
<1> QED
  BY <1>1, <1>2, <1>3, <1>4, UserPreserves

--------------------------------------------------------------------------------
LEMMA InitEstablishes == Init => IInv
<1> SUFFICES ASSUME Init PROVE IInv
  OBVIOUS
<1>1. PICK d \in Policy :
        server = [p \in Policy |-> [phase |-> "live", isDefault |-> p = d,
                                    finalizer |-> FALSE, version |-> 1]]
  BY DEF Init
<1>2. \A p \in Policy : /\ server[p] \in Object
                        /\ server[p].phase = "live" /\ ~server[p].finalizer
                        /\ server[p].isDefault <=> p = d
  BY <1>1 DEF Object, Phase
<1>3. server \in [Policy -> Object]
  BY <1>1, <1>2
<1>4. /\ watch = << >> /\ cache = server /\ queue = Policy /\ pc = "idle"
      /\ others = {} /\ warned = {}
      /\ policy \in [name : Policy, object : Object] /\ policy.object = server[policy.name]
  BY <1>2 DEF Init
<1>5. budget \in [mark : Nat, deletion : Nat, fault : Nat, crash : Nat]
  BY WatcherAssumption DEF Init
<1>6. TypeOK
  BY <1>2, <1>3, <1>4, <1>5 DEF TypeOK
<1>7. InformerInv
  <2>1. Len(watch) = 0
    BY <1>4
  <2>2. \A p \in Policy : Knows(p, cache[p])
    BY <1>2, <1>4 DEF Knows, Object
  <2> QED
    BY <2>1, <2>2, <1>4 DEF InformerInv
<1>8. WorkerInv
  BY <1>2, <1>4 DEF WorkerInv, Knows, Object
<1>9. DefaultsInv
  BY <1>2 DEF DefaultsInv, Defaults
<1> QED
  BY <1>6, <1>7, <1>8, <1>9 DEF IInv

LEMMA StutterPreserves ==
  ASSUME IInv, UNCHANGED vars
  PROVE  IInv'
<1>1. UNCHANGED <<informerVars, queue, pc, policy, others, warned, budget>>
  BY DEF vars, workerVars
<1>2. InformerInv'
  BY <1>1, SameInformers DEF IInv
<1>3. TypeOK'
  BY <1>1 DEF IInv, TypeOK, informerVars
<1>4. WorkerInv'
  BY <1>1 DEF IInv, WorkerInv, Knows, informerVars
<1>5. \A q \in Policy : Due(q) => Due(q)'
  BY <1>1, DueIfQueueGrows DEF informerVars
<1>6. \A q, r : Handling(q, r) => Handling(q, r)'
  BY <1>1 DEF Handling
<1>7. DefaultsInv'
  BY <1>1, <1>5, <1>6, DefaultsAfterStep DEF IInv, informerVars
<1> QED
  BY <1>2, <1>3, <1>4, <1>7 DEF IInv

LEMMA NextPreserves == IInv /\ [Next]_vars => IInv'
<1> SUFFICES ASSUME IInv, [Next]_vars PROVE IInv'
  OBVIOUS
<1>1. CASE Deliver
  BY <1>1, InformerDelivers
<1>2. CASE Work
  BY <1>2, ReconcilePreserves, AddFinalizerPreserves, HandleReconcilationPreserves,
     RemoveFinalizerPreserves, UndefaultPreserves, UndefaultedPreserves, RequeuePreserves
     DEF Work
<1>3. CASE Fails
  BY <1>3, RequeuePreserves
<1>4. CASE Crash
  BY <1>4, CrashPreserves
<1>5. ASSUME NEW p \in Policy, Mark(p) \/ Delete(p)
      PROVE  IInv'
  BY <1>5, MarkPreserves, DeletePreserves
<1>6. CASE UNCHANGED vars
  BY <1>6, StutterPreserves
<1> QED
  BY <1>1, <1>2, <1>3, <1>4, <1>5, <1>6 DEF Next

\* The inductive invariant of the policy watcher.
THEOREM Invariance == Spec => []IInv
BY InitEstablishes, NextPreserves, PTL DEF Spec

\* Every variable keeps its type; a policy that is being deleted has the finalizer
\* (policy_controller.go, Reconcile).
THEOREM WatcherIsTyped == Spec => []TypeOK
BY Invariance, PTL DEF IInv

\* Two default policies are never left behind: one of them is queued, will be queued
\* by a version on its way, or is being reconciled with the other one on the list of
\* policies to mark (policy_controller.go, "ensure no other policy is marked as default").
THEOREM OneDefaultWhenQuiet == Spec => []AtMostOneDefault
<1>1. IInv => AtMostOneDefault
  <2> SUFFICES ASSUME IInv, Quiet PROVE Cardinality(Defaults) <= 1
    BY DEF AtMostOneDefault
  <2>1. \A p \in Policy : ~Due(p)
    <3>1. Len(watch) = 0 /\ queue = {}
      BY DEF Quiet
    <3> QED
      BY <3>1 DEF Due, Dirty
  <2>2. \A p, q : ~Handling(p, q)
    BY DEF Quiet, Handling
  <2>3. \A p, q \in Defaults : p = q
    BY <2>1, <2>2 DEF IInv, DefaultsInv, Defaults
  <2>4. CASE Defaults = {}
    BY <2>4, FS_EmptySet
  <2>5. CASE Defaults # {}
    <3>1. PICK p : Defaults = {p}
      BY <2>3, <2>5
    <3> QED
      BY <3>1, FS_Singleton
  <2> QED
    BY <2>4, <2>5
<1> QED
  BY <1>1, Invariance, PTL

\* The finalizer does what it is for: through stale caches, conflicts and restarts, a
\* deleted policy is let go only after the PolicyRecommendations at it were queued
\* (policy_controller.go, the order of handleReconcilation and removeFinalizer).
THEOREM GoneOnlyWhenWarned == Spec => WarnedBeforeGone
<1> DEFINE A == \A p \in Policy :
                  server[p].phase = "deleting" /\ server'[p].phase = "absent" => p \in warned
<1>1. IInv /\ [Next]_vars => [A]_server
  <2> SUFFICES ASSUME IInv, Next, server' # server PROVE A
    BY DEF vars, informerVars
  <2>1. CASE addFinalizer
    <3>1. policy.name \in Policy /\ policy.object = server[policy.name]
          /\ policy.object \in Object /\ server[policy.name].phase # "absent"
      BY <2>1, NotStale DEF IInv, addFinalizer, TypeOK
    <3>2. server' = [server EXCEPT ![policy.name] =
                       [[policy.object EXCEPT !.finalizer = TRUE]
                          EXCEPT !.version = server[policy.name].version + 1]]
      BY <2>1 DEF addFinalizer, Write
    <3> QED
      BY <3>1, <3>2 DEF IInv, TypeOK, Object
  <2>2. CASE removeFinalizer
    BY <2>2, RemoveFinalizerPreserves
  <2>3. CASE Undefault
    BY <2>3, UndefaultPreserves
  <2>4. ASSUME NEW p \in Policy, Mark(p) \/ Delete(p)
        PROVE  A
    BY <2>4, MarkPreserves, DeletePreserves
  <2>5. CASE Deliver \/ handleReconcilation \/ Undefaulted \/ Conflict \/ Fails \/ Crash
    BY <2>5 DEF Deliver, handleReconcilation, Undefaulted, Conflict, Fails, Crash, informerVars
  <2>6. CASE \E p \in Policy : Reconcile(p)
    BY <2>6 DEF Reconcile, informerVars
  <2> QED
    BY <2>1, <2>2, <2>3, <2>4, <2>5, <2>6 DEF Next, Work
<1> QED
  BY <1>1, Invariance, PTL DEF Spec, WarnedBeforeGone
================================================================================

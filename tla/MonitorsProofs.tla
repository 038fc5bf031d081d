----------------------------- MODULE MonitorsProofs -----------------------------
(***************************************************************************)
(* The monitors of any number of workloads: which goroutines are alive,    *)
(* and where the ones that are blocked are waited for.                     *)
(***************************************************************************)
EXTENDS Monitors, SequenceTheorems, TLAPS

\* DeregisterMonitor waits for the monitor that is still registered, and Shutdown
\* for monitors that stay registered.
ManagerInv ==
  /\ manager.call = "deregister" =>
       /\ manager.stopping \in Monitor
       /\ monitors[manager.stopping[1]] = manager.stopping[2]
       /\ manager.left = {}
  /\ \A w \in manager.left : monitors[w] # 0

IInv ==
  /\ TypeOK
  /\ ManagerInv
  /\ AliveAreRegistered
  /\ BlockedAreQueued

--------------------------------------------------------------------------------
(***************************************************************************)
(* Queues whose elements are distinct.                                     *)
(***************************************************************************)
\* What is not yet in a queue can be appended.
LEMMA Appended ==
  ASSUME NEW S, NEW q \in Seq(S), NEW x \in S, IsInjective(q), ~Contains(q, x)
  PROVE  /\ Append(q, x) \in Seq(S)
         /\ IsInjective(Append(q, x))
         /\ \A y : Contains(Append(q, x), y) <=> Contains(q, y) \/ y = x
<1> DEFINE p == Append(q, x)
           n == Len(q)
<1>1. /\ p \in Seq(S)
      /\ Len(p) = n + 1
      /\ \A i \in 1..n : p[i] = q[i]
      /\ p[n + 1] = x
  BY AppendProperties
<1>2. n \in Nat /\ DOMAIN q = 1..n /\ DOMAIN p = 1..(n + 1)
  BY <1>1, LenProperties
<1> HIDE DEF p, n
<1>3. \A i \in 1..n : q[i] # x
  BY DEF Contains, n
<1>4. IsInjective(p)
  <2> SUFFICES ASSUME NEW a \in 1..(n + 1), NEW b \in 1..(n + 1), p[a] = p[b]
               PROVE  a = b
    BY <1>2 DEF IsInjective
  <2>1. CASE a \in 1..n /\ b \in 1..n
    BY <2>1, <1>1, <1>2 DEF IsInjective
  <2>2. CASE a = n + 1 \/ b = n + 1
    BY <2>2, <1>1, <1>2, <1>3
  <2> QED
    BY <2>1, <2>2, <1>2
<1>5. ASSUME NEW y
      PROVE  Contains(p, y) <=> Contains(q, y) \/ y = x
  <2>1. Contains(p, y) <=> \E i \in 1..(n + 1) : p[i] = y
    BY <1>1 DEF Contains
  <2>2. Contains(q, y) <=> \E i \in 1..n : q[i] = y
    BY DEF Contains, n
  <2>3. ASSUME NEW i \in 1..(n + 1), p[i] = y
        PROVE  Contains(q, y) \/ y = x
    <3>1. CASE i = n + 1
      BY <3>1, <2>3, <1>1
    <3>2. CASE i # n + 1
      <4>1. i \in 1..n
        BY <3>2, <1>2
      <4> QED
        BY <4>1, <2>3, <2>2, <1>1
    <3> QED
      BY <3>1, <3>2
  <2>4. ASSUME NEW i \in 1..n, q[i] = y
        PROVE  Contains(p, y)
    <3>1. i \in 1..(n + 1) /\ p[i] = y
      BY <2>4, <1>1, <1>2
    <3> QED
      BY <3>1, <2>1
  <2>5. n + 1 \in 1..(n + 1)
    BY <1>2
  <2>6. y = x => Contains(p, y)
    BY <2>5, <2>1, <1>1
  <2> QED
    BY <2>1, <2>2, <2>3, <2>4, <2>6
<1> QED
  BY <1>1, <1>4, <1>5 DEF p

\* Removing an element leaves the others.
LEMMA Removed ==
  ASSUME NEW S, NEW q \in Seq(S), NEW k \in 1..Len(q), IsInjective(q)
  PROVE  /\ RemoveAt(q, k) \in Seq(S)
         /\ IsInjective(RemoveAt(q, k))
         /\ \A y : Contains(RemoveAt(q, k), y) <=> Contains(q, y) /\ y # q[k]
<1> DEFINE n == Len(q)
           front == SubSeq(q, 1, k - 1)
           rear == SubSeq(q, k + 1, n)
           p == RemoveAt(q, k)
<1>1. n \in Nat /\ DOMAIN q = 1..n /\ \A i \in 1..n : q[i] \in S
  BY LenProperties, ElementOfSeq
<1>2. k \in Int /\ k - 1 \in Int /\ k + 1 \in Int /\ 1 <= k /\ k <= n
  BY <1>1
<1>3. /\ front \in Seq(S)
      /\ Len(front) = k - 1
      /\ \A i \in 1..(k - 1) : front[i] = q[i]
  <2>1. \A i \in 1..(k - 1) : q[i] \in S
    BY <1>1, <1>2
  <2> HIDE DEF n
  <2>2. /\ front \in Seq(S)
        /\ Len(front) = IF 1 <= k - 1 THEN k - 1 - 1 + 1 ELSE 0
        /\ \A i \in 1..(k - 1 - 1 + 1) : front[i] = q[1 + i - 1]
    BY <2>1, <1>2, SubSeqProperties
  <2> QED
    BY <2>2, <1>2
<1>4. /\ rear \in Seq(S)
      /\ Len(rear) = n - k
      /\ \A i \in 1..(n - k) : rear[i] = q[k + i]
  <2>1. \A i \in (k + 1)..n : q[i] \in S
    BY <1>1, <1>2
  <2> HIDE DEF n
  <2>2. /\ rear \in Seq(S)
        /\ Len(rear) = IF k + 1 <= n THEN n - (k + 1) + 1 ELSE 0
        /\ \A i \in 1..(n - (k + 1) + 1) : rear[i] = q[k + 1 + i - 1]
    BY <2>1, <1>1, <1>2, SubSeqProperties
  <2> QED
    BY <2>2, <1>1, <1>2
<1>5. p = front \o rear
  BY DEF RemoveAt
<1> HIDE DEF n, front, rear, p
<1>6. /\ p \in Seq(S)
      /\ Len(p) = Len(front) + Len(rear)
      /\ \A i \in 1..(Len(front) + Len(rear)) :
           p[i] = IF i <= Len(front) THEN front[i] ELSE rear[i - Len(front)]
  BY <1>3, <1>4, <1>5, ConcatProperties
<1>7. /\ Len(p) = n - 1 /\ n - 1 \in Nat
      /\ \A i \in 1..(n - 1) : p[i] = IF i < k THEN q[i] ELSE q[i + 1]
  <2>1. Len(p) = n - 1 /\ n - 1 \in Nat
    BY <1>1, <1>2, <1>3, <1>4, <1>6
  <2>2. ASSUME NEW i \in 1..(n - 1), i < k
        PROVE  p[i] = q[i]
    BY <2>2, <1>1, <1>2, <1>3, <1>4, <1>6
  <2>3. ASSUME NEW i \in 1..(n - 1), ~(i < k)
        PROVE  p[i] = q[i + 1]
    <3>1. i \in 1..(Len(front) + Len(rear)) /\ ~(i <= Len(front))
      BY <2>3, <1>1, <1>2, <1>3, <1>4
    <3>2. p[i] = rear[i - Len(front)]
      BY <3>1, <1>6
    <3>3. i - Len(front) \in 1..(n - k) /\ k + (i - Len(front)) = i + 1
      BY <2>3, <1>1, <1>2, <1>3, <1>4
    <3> QED
      BY <3>2, <3>3, <1>4
  <2> QED
    BY <2>1, <2>2, <2>3
<1>8. DOMAIN p = 1..(n - 1)
  BY <1>6, <1>7, LenProperties
<1>9. \A a, b \in 1..n : q[a] = q[b] => a = b
  BY <1>1 DEF IsInjective
<1>10. IsInjective(p)
  <2> SUFFICES ASSUME NEW a \in 1..(n - 1), NEW b \in 1..(n - 1), p[a] = p[b]
               PROVE  a = b
    BY <1>8 DEF IsInjective
  <2> DEFINE at(i) == IF i < k THEN i ELSE i + 1
  <2>1. /\ at(a) \in 1..n /\ p[a] = q[at(a)]
        /\ at(b) \in 1..n /\ p[b] = q[at(b)]
    BY <1>1, <1>2, <1>7
  <2>2. at(a) = at(b)
    <3> HIDE DEF at
    <3> QED
      BY <2>1, <1>9
  <2> QED
    BY <2>2, <1>2
<1>11. ASSUME NEW y
       PROVE  Contains(p, y) <=> Contains(q, y) /\ y # q[k]
  <2>1. Contains(p, y) <=> \E i \in 1..(n - 1) : p[i] = y
    BY <1>7 DEF Contains
  <2>2. Contains(q, y) <=> \E i \in 1..n : q[i] = y
    BY DEF Contains, n
  <2>3. ASSUME NEW i \in 1..(n - 1), p[i] = y
        PROVE  Contains(q, y) /\ y # q[k]
    <3> DEFINE j == IF i < k THEN i ELSE i + 1
    <3>1. j \in 1..n /\ j # k /\ q[j] = y
      BY <2>3, <1>1, <1>2, <1>7
    <3> HIDE DEF j
    <3>2. k \in 1..n
      BY DEF n
    <3> QED
      BY <3>1, <3>2, <2>2, <1>9
  <2>4. ASSUME NEW i \in 1..n, q[i] = y, y # q[k]
        PROVE  Contains(p, y)
    <3> DEFINE j == IF i < k THEN i ELSE i - 1
    <3>1. i # k
      BY <2>4
    <3>2. j \in 1..(n - 1) /\ p[j] = y
      BY <3>1, <2>4, <1>1, <1>2, <1>7
    <3> QED
      BY <3>2, <2>1
  <2> QED
    BY <2>1, <2>2, <2>3, <2>4
<1> QED
  BY <1>6, <1>10, <1>11 DEF p

\* Taking the head leaves the others.
LEMMA Taken ==
  ASSUME NEW S, NEW q \in Seq(S), q # << >>, IsInjective(q)
  PROVE  /\ Head(q) \in S
         /\ Contains(q, Head(q))
         /\ Tail(q) \in Seq(S)
         /\ IsInjective(Tail(q))
         /\ \A y : Contains(Tail(q), y) <=> Contains(q, y) /\ y # Head(q)
<1>1. Len(q) \in Nat \ {0} /\ 1 \in 1..Len(q) /\ Head(q) = q[1]
  BY EmptySeq
<1>2. Tail(q) = RemoveAt(q, 1)
  <2>1. SubSeq(q, 1, 0) = << >>
    BY SubSeqEmpty
  <2>2. Tail(q) = SubSeq(q, 2, Len(q)) /\ Tail(q) \in Seq(S)
    BY TailIsSubSeq, HeadTailProperties
  <2>3. << >> \o Tail(q) = Tail(q)
    BY <2>2, ConcatEmptySeq
  <2> QED
    BY <2>1, <2>2, <2>3 DEF RemoveAt
<1>3. q[1] \in S
  BY <1>1, ElementOfSeq
<1>4. Contains(q, q[1])
  BY <1>1 DEF Contains
<1>5. /\ RemoveAt(q, 1) \in Seq(S)
      /\ IsInjective(RemoveAt(q, 1))
      /\ \A y : Contains(RemoveAt(q, 1), y) <=> Contains(q, y) /\ y # q[1]
  BY <1>1, Removed
<1> QED
  BY <1>1, <1>2, <1>3, <1>4, <1>5
\* A queue of several elements has elements left when its head is taken.
LEMMA LongTail ==
  ASSUME NEW S, NEW q \in Seq(S), Len(q) > 1
  PROVE  Tail(q) \in Seq(S) \ {<< >>}
<1>1. Len(q) \in Nat /\ Len(<< >>) = 0
  BY LenProperties
<1>2. q # << >>
  BY <1>1
<1>3. Tail(q) \in Seq(S) /\ Len(Tail(q)) = Len(q) - 1
  BY <1>2, HeadTailProperties
<1>4. Len(Tail(q)) # 0
  BY <1>1, <1>3
<1> QED
  BY <1>1, <1>3, <1>4

--------------------------------------------------------------------------------
(***************************************************************************)
(* The types.                                                              *)
(***************************************************************************)
LEMMA InitTypes == Init => TypeOK
<1> SUFFICES ASSUME Init PROVE TypeOK
  OBVIOUS
<1>1. monitors \in [Workload -> 0..MaxMonitors] /\ created \in [Workload -> 0..MaxMonitors]
  BY MonitorsAssumption DEF Init
<1>2. /\ breachLoop \in [Monitor -> BreachLoop]
      /\ periodicLoop \in [Monitor -> {"none", "select", "send", "ended"}]
  BY DEF Init, At, BreachLoop
<1>3. \A w \in Workload : <<FALSE>> \in Seq(BOOLEAN) \ {<< >>}
  OBVIOUS
<1>4. /\ versions \in [Workload -> Seq(BOOLEAN) \ {<< >>}]
      /\ queued \in [Workload -> BOOLEAN]
      /\ breaching \in [Workload -> {"no", "yes", "recent"}]
  BY <1>3 DEF Init
<1>5. handler \in [at : {"receive", "update", "patch"},
                   workload : Workload, latest : BOOLEAN]
  <2>1. (CHOOSE w \in Workload : TRUE) \in Workload
    BY MonitorsAssumption
  <2> QED
    BY <2>1 DEF Init
<1>6. budget \in [stop : Nat, change : Nat, event : Nat]
  BY MonitorsAssumption DEF Init
<1>7. acquirers \in Seq(Monitor) /\ senders \in Seq(Monitor \X Loop)
  BY DEF Init
<1> QED
  BY <1>1, <1>2, <1>4, <1>5, <1>6, <1>7 DEF Init, TypeOK

LEMMA SpendTypes ==
  ASSUME TypeOK, NEW what \in {"stop", "change", "event"}, Spend(what)
  PROVE  budget' \in [stop : Nat, change : Nat, event : Nat]
<1>1. budget \in [stop : Nat, change : Nat, event : Nat]
  BY DEF TypeOK
<1>2. budget[what] \in Nat /\ budget[what] > 0 /\ budget' = [budget EXCEPT ![what] = budget[what] - 1]
  BY <1>1 DEF Spend
<1> QED
  BY <1>1, <1>2

LEMMA WriteTypes ==
  ASSUME TypeOK, NEW w \in Workload, NEW b \in BOOLEAN, Write(w, b)
  PROVE  versions' \in [Workload -> Seq(BOOLEAN) \ {<< >>}]
<1>1. versions \in [Workload -> Seq(BOOLEAN) \ {<< >>}] /\ versions[w] \in Seq(BOOLEAN)
  BY DEF TypeOK
<1>2. Append(versions[w], b) \in Seq(BOOLEAN) \ {<< >>}
  BY <1>1, AppendProperties
<1> QED
  BY <1>1, <1>2 DEF Write

LEMMA StoredType ==
  ASSUME TypeOK, NEW w \in Workload
  PROVE  Stored(w) \in BOOLEAN /\ Cached(w) \in BOOLEAN
<1>1. versions[w] \in Seq(BOOLEAN) /\ versions[w] # << >>
  BY DEF TypeOK
<1>2. Len(versions[w]) \in Nat \ {0}
  BY <1>1, EmptySeq
<1>3. Len(versions[w]) \in 1..Len(versions[w])
  BY <1>2
<1>4. Stored(w) \in BOOLEAN
  BY <1>1, <1>3, ElementOfSeq DEF Stored
<1> QED
  BY <1>1, <1>4, HeadTailProperties DEF Cached

LEMMA OutdatedType ==
  ASSUME TypeOK, NEW w, handler' = Outdated(w)
  PROVE  handler' \in [at : {"receive", "update", "patch"},
                       workload : Workload, latest : BOOLEAN]
BY DEF TypeOK, Outdated

LEMMA HandlerAtType ==
  ASSUME TypeOK, NEW place \in {"receive", "update", "patch"}, HandlerAt(place)
  PROVE  handler' \in [at : {"receive", "update", "patch"},
                       workload : Workload, latest : BOOLEAN]
BY DEF TypeOK, HandlerAt

--------------------------------------------------------------------------------
(***************************************************************************)
(* The manager's calls.  A monitor that is registered is not alive before, *)
(* and one that is deregistered is not alive any more.                     *)
(***************************************************************************)
LEMMA RegisterPreserves ==
  ASSUME IInv, NEW w \in Workload, RegisterMonitor(w)
  PROVE  IInv'
<1> DEFINE n == created[w] + 1
           new == <<w, n>>
<1>1. /\ TypeOK /\ ManagerInv /\ AliveAreRegistered /\ BlockedAreQueued
      /\ manager.call = "none" /\ monitors[w] = 0
      /\ created[w] \in 0..MaxMonitors /\ created[w] < MaxMonitors /\ MaxMonitors \in Nat
  BY MonitorsAssumption DEF IInv, RegisterMonitor, Unlocked, TypeOK
<1>2. n \in 1..MaxMonitors /\ n \in 0..MaxMonitors /\ n # 0 /\ new \in Monitor
  BY <1>1 DEF Monitor
<1>3. /\ monitors' = [monitors EXCEPT ![w] = n]
      /\ created' = [created EXCEPT ![w] = n]
      /\ breachLoop' = [breachLoop EXCEPT ![new] = At("select")]
      /\ periodicLoop' = [periodicLoop EXCEPT ![new] = "select"]
      /\ UNCHANGED <<cancelled, manager, acquirers, senders, handler, objectVars,
                     breaching, budget>>
  BY DEF RegisterMonitor
<1> HIDE DEF n, new
<1>4. TypeOK'
  <2>1. At("select") \in BreachLoop
    BY DEF At, BreachLoop
  <2>2. breachLoop' \in [Monitor -> BreachLoop]
    BY <2>1, <1>1, <1>3 DEF TypeOK
  <2>3. /\ periodicLoop' \in [Monitor -> {"none", "select", "send", "ended"}]
        /\ monitors' \in [Workload -> 0..MaxMonitors]
        /\ created' \in [Workload -> 0..MaxMonitors]
    BY <1>1, <1>2, <1>3 DEF TypeOK
  <2> QED
    BY <2>2, <2>3, <1>1, <1>3 DEF TypeOK, objectVars
<1>5. ManagerInv'
  BY <1>1, <1>2, <1>3 DEF ManagerInv, TypeOK
<1>6. \A m \in Monitor : m # new => breachLoop'[m] = breachLoop[m] /\ periodicLoop'[m] = periodicLoop[m]
  BY <1>1, <1>3 DEF TypeOK
<1>7. breachLoop'[new] = At("select") /\ periodicLoop'[new] = "select"
  BY <1>1, <1>2, <1>3 DEF TypeOK
<1>8. ~Alive(new)
  <2>1. new[1] = w /\ new[2] = n
    BY DEF new
  <2> QED
    BY <2>1, <1>1, <1>2 DEF AliveAreRegistered
<1>9. AliveAreRegistered'
  <2> SUFFICES ASSUME NEW m \in Monitor, Alive(m)'
               PROVE  monitors'[m[1]] = m[2]
    BY DEF AliveAreRegistered
  <2>1. CASE m = new
    BY <2>1, <1>1, <1>3 DEF TypeOK, new
  <2>2. CASE m # new
    <3>1. Alive(m)
      BY <2>2, <1>6 DEF Alive
    <3>2. monitors[m[1]] = m[2] /\ m[1] \in Workload /\ m[2] \in 1..MaxMonitors
      BY <3>1, <1>1 DEF AliveAreRegistered, Monitor
    <3>3. m[1] # w
      BY <3>2, <1>1
    <3> QED
      BY <3>2, <3>3, <1>1, <1>3 DEF TypeOK
  <2> QED
    BY <2>1, <2>2
<1>10. BlockedAreQueued'
  <2>1. /\ breachLoop[new].at \notin {"acquire", "send"} /\ periodicLoop[new] # "send"
        /\ breachLoop'[new].at \notin {"acquire", "send"} /\ periodicLoop'[new] # "send"
    BY <1>7, <1>8 DEF Alive, At
  <2>2. /\ \A m \in Monitor :
             /\ breachLoop'[m].at = "acquire" <=> breachLoop[m].at = "acquire"
             /\ breachLoop'[m].at = "send" <=> breachLoop[m].at = "send"
             /\ periodicLoop'[m] = "send" <=> periodicLoop[m] = "send"
    BY <2>1, <1>6
  <2>3. acquirers' = acquirers /\ senders' = senders
    BY <1>3
  <2> QED
    BY <2>2, <2>3, <1>1 DEF BlockedAreQueued
<1> QED
  BY <1>4, <1>5, <1>9, <1>10 DEF IInv

\* The calls that stop monitors leave their goroutines alone.
LEMMA LoopsUnchanged ==
  ASSUME IInv, UNCHANGED <<monitors, loopVars, acquirers, senders>>
  PROVE  AliveAreRegistered' /\ BlockedAreQueued'
<1>1. monitors' = monitors /\ breachLoop' = breachLoop /\ periodicLoop' = periodicLoop
      /\ acquirers' = acquirers /\ senders' = senders
  BY DEF loopVars
<1>2. AliveAreRegistered'
  BY <1>1 DEF IInv, AliveAreRegistered, Alive
<1>3. BlockedAreQueued'
  BY <1>1 DEF IInv, BlockedAreQueued
<1> QED
  BY <1>2, <1>3

LEMMA DeregisterPreserves ==
  ASSUME IInv, NEW w \in Workload, DeregisterMonitor(w)
  PROVE  IInv'
<1>1. AliveAreRegistered' /\ BlockedAreQueued'
  BY LoopsUnchanged DEF DeregisterMonitor
<1>2. monitors[w] \in 1..MaxMonitors /\ <<w, monitors[w]>> \in Monitor
  BY MonitorsAssumption DEF IInv, TypeOK, DeregisterMonitor, Registered, Monitor
<1>3. ManagerInv'
  BY <1>2 DEF DeregisterMonitor, ManagerInv
<1>4. budget' \in [stop : Nat, change : Nat, event : Nat]
  BY SpendTypes DEF IInv, DeregisterMonitor
<1>5. manager' \in [call : {"none", "deregister", "shutdown"},
                    stopping : Monitor \cup {None}, left : SUBSET Workload]
  BY <1>2 DEF DeregisterMonitor
<1>6. TypeOK'
  BY <1>2, <1>4, <1>5 DEF IInv, TypeOK, DeregisterMonitor, Cancel, loopVars, objectVars
<1> QED
  BY <1>1, <1>3, <1>6 DEF IInv

LEMMA ShutdownPreserves ==
  ASSUME IInv, Shutdown
  PROVE  IInv'
<1>1. AliveAreRegistered' /\ BlockedAreQueued'
  BY LoopsUnchanged DEF Shutdown
<1>2. ManagerInv'
  BY DEF Shutdown, ManagerInv, Registered
<1>3. budget' \in [stop : Nat, change : Nat, event : Nat]
  BY SpendTypes DEF IInv, Shutdown
<1>4. manager' \in [call : {"none", "deregister", "shutdown"},
                    stopping : Monitor \cup {None}, left : SUBSET Workload]
  BY DEF Shutdown
<1>5. TypeOK'
  BY <1>3, <1>4 DEF IInv, TypeOK, Shutdown, loopVars, objectVars
<1> QED
  BY <1>1, <1>2, <1>5 DEF IInv

LEMMA StopNextPreserves ==
  ASSUME IInv, NEW w \in Workload, StopNext(w)
  PROVE  IInv'
<1>1. AliveAreRegistered' /\ BlockedAreQueued'
  BY LoopsUnchanged DEF StopNext
<1>2. monitors[w] \in 1..MaxMonitors /\ <<w, monitors[w]>> \in Monitor
  <2>1. monitors[w] # 0
    BY DEF IInv, ManagerInv, StopNext
  <2>2. monitors[w] \in 0..MaxMonitors /\ MaxMonitors \in Nat
    BY MonitorsAssumption DEF IInv, TypeOK
  <2> QED
    BY <2>1, <2>2 DEF Monitor
<1>3. manager' = [call |-> "shutdown", stopping |-> <<w, monitors[w]>>,
                  left |-> manager.left \ {w}]
  BY DEF IInv, TypeOK, StopNext
<1>4. ManagerInv'
  BY <1>3 DEF IInv, StopNext, ManagerInv
<1>5. manager' \in [call : {"none", "deregister", "shutdown"},
                    stopping : Monitor \cup {None}, left : SUBSET Workload]
  BY <1>2, <1>3 DEF IInv, TypeOK
<1>6. TypeOK'
  BY <1>2, <1>5 DEF IInv, TypeOK, StopNext, Cancel, loopVars, objectVars
<1> QED
  BY <1>1, <1>4, <1>6 DEF IInv

LEMMA StoppedPreserves ==
  ASSUME IInv, Stopped
  PROVE  IInv'
<1>1. /\ TypeOK /\ ManagerInv /\ AliveAreRegistered /\ BlockedAreQueued
      /\ manager.stopping \in Monitor /\ manager.left \subseteq Workload
      /\ manager.call \in {"none", "deregister", "shutdown"}
      /\ Wait(manager.stopping)
  BY DEF IInv, TypeOK, Stopped
<1>2. manager' = [call |-> IF manager.left = {} THEN "none" ELSE manager.call,
                  stopping |-> None, left |-> manager.left]
  BY DEF IInv, TypeOK, Stopped
<1>3. manager.stopping[1] \in Workload /\ manager.stopping[2] \in 1..MaxMonitors
  BY <1>1 DEF Monitor
<1>4. monitors' \in [Workload -> 0..MaxMonitors]
  BY <1>1, <1>3, MonitorsAssumption DEF Stopped, TypeOK
<1>5. manager' \in [call : {"none", "deregister", "shutdown"},
                    stopping : Monitor \cup {None}, left : SUBSET Workload]
  BY <1>1, <1>2
<1>6. TypeOK'
  BY <1>1, <1>4, <1>5 DEF TypeOK, Stopped, loopVars, objectVars
<1>7. ManagerInv'
  <2>1. manager'.call # "deregister"
    BY <1>1, <1>2 DEF ManagerInv
  <2>2. manager'.left = manager.left
    BY <1>2
  <2>3. CASE manager.call = "deregister"
    BY <2>1, <2>2, <2>3, <1>1 DEF ManagerInv
  <2>4. CASE manager.call # "deregister"
    BY <2>1, <2>2, <2>4, <1>1 DEF ManagerInv, Stopped
  <2> QED
    BY <2>3, <2>4
<1>8. AliveAreRegistered'
  <2> SUFFICES ASSUME NEW m \in Monitor, Alive(m)'
               PROVE  monitors'[m[1]] = m[2]
    BY DEF AliveAreRegistered
  <2>1. Alive(m)
    BY DEF Alive, Stopped, loopVars
  <2>2. monitors[m[1]] = m[2] /\ m[1] \in Workload /\ m = <<m[1], m[2]>>
    BY <2>1, <1>1 DEF AliveAreRegistered, Monitor
  <2>3. CASE manager.call = "deregister"
    <3>1. monitors[manager.stopping[1]] = manager.stopping[2]
      BY <2>3, <1>1 DEF ManagerInv
    <3>2. m # manager.stopping
      BY <2>1, <1>1 DEF Wait, Alive
    <3>3. manager.stopping = <<manager.stopping[1], manager.stopping[2]>>
      BY <1>1 DEF Monitor
    <3>4. m[1] # manager.stopping[1]
      BY <3>1, <3>2, <3>3, <2>2
    <3>5. monitors' = [monitors EXCEPT ![manager.stopping[1]] = 0]
      BY <2>3 DEF Stopped
    <3> QED
      BY <3>4, <3>5, <2>2, <1>1 DEF TypeOK
  <2>4. CASE manager.call # "deregister"
    BY <2>2, <2>4 DEF Stopped
  <2> QED
    BY <2>3, <2>4
<1>9. BlockedAreQueued'
  <2>1. /\ breachLoop' = breachLoop /\ periodicLoop' = periodicLoop
        /\ acquirers' = acquirers /\ senders' = senders
    BY DEF Stopped, loopVars
  <2> QED
    BY <2>1, <1>1 DEF BlockedAreQueued
<1> QED
  BY <1>6, <1>7, <1>8, <1>9 DEF IInv

--------------------------------------------------------------------------------
(***************************************************************************)
(* The object and the load.                                                *)
(***************************************************************************)
LEMMA ObjectPreserves ==
  ASSUME IInv, NEW w \in Workload,
         \/ Deliver(w) \/ Consume(w) \/ ForeignWrite(w)
         \/ BreachStarts(w) \/ BreachEnds(w) \/ WindowPasses(w)
  PROVE  IInv'
<1>1. TypeOK /\ Stored(w) \in BOOLEAN
  BY StoredType DEF IInv
<1>2. UNCHANGED <<managerVars, loopVars, acquirers, senders>>
  BY DEF Deliver, Consume, ForeignWrite, BreachStarts, BreachEnds, WindowPasses
<1>3. AliveAreRegistered' /\ BlockedAreQueued'
  BY <1>2, LoopsUnchanged DEF managerVars
<1>4. ManagerInv'
  BY <1>2 DEF IInv, ManagerInv, managerVars
<1>5. CASE Deliver(w)
  <2>1. versions \in [Workload -> Seq(BOOLEAN) \ {<< >>}] /\ versions[w] \in Seq(BOOLEAN)
        /\ versions[w] # << >> /\ Len(versions[w]) > 1
    BY <1>1, <1>5 DEF Deliver, TypeOK
  <2>2. Tail(versions[w]) \in Seq(BOOLEAN) \ {<< >>}
    BY <2>1, LongTail
  <2>3. versions' \in [Workload -> Seq(BOOLEAN) \ {<< >>}]
    BY <2>1, <2>2, <1>5 DEF Deliver
  <2>4. TypeOK'
    BY <2>3, <1>1, <1>2, <1>5 DEF TypeOK, Deliver, managerVars, loopVars
  <2> QED
    BY <2>4, <1>3, <1>4 DEF IInv
<1>6. CASE Consume(w)
  <2>1. versions' \in [Workload -> Seq(BOOLEAN) \ {<< >>}]
    BY <1>1, <1>6, WriteTypes DEF Consume
  <2>2. handler' \in [at : {"receive", "update", "patch"},
                      workload : Workload, latest : BOOLEAN]
    BY <1>1, <1>6, OutdatedType DEF Consume
  <2>3. queued' \in [Workload -> BOOLEAN]
    BY <1>1, <1>6 DEF Consume, TypeOK
  <2>4. TypeOK'
    BY <2>1, <2>2, <2>3, <1>1, <1>2, <1>6 DEF TypeOK, Consume, managerVars, loopVars
  <2> QED
    BY <2>4, <1>3, <1>4 DEF IInv
<1>7. CASE ForeignWrite(w)
  <2>1. versions' \in [Workload -> Seq(BOOLEAN) \ {<< >>}]
    BY <1>1, <1>7, WriteTypes DEF ForeignWrite
  <2>2. handler' \in [at : {"receive", "update", "patch"},
                      workload : Workload, latest : BOOLEAN]
    BY <1>1, <1>7, OutdatedType DEF ForeignWrite
  <2>3. budget' \in [stop : Nat, change : Nat, event : Nat]
    BY <1>1, <1>7, SpendTypes DEF ForeignWrite
  <2>4. TypeOK'
    BY <2>1, <2>2, <2>3, <1>1, <1>2, <1>7 DEF TypeOK, ForeignWrite, managerVars, loopVars
  <2> QED
    BY <2>4, <1>3, <1>4 DEF IInv
<1>8. CASE BreachStarts(w) \/ BreachEnds(w) \/ WindowPasses(w)
  <2>1. budget' \in [stop : Nat, change : Nat, event : Nat]
    <3>1. CASE BreachStarts(w)
      BY <3>1, <1>1, SpendTypes DEF BreachStarts
    <3>2. CASE BreachEnds(w)
      BY <3>2, <1>1, SpendTypes DEF BreachEnds
    <3>3. CASE WindowPasses(w)
      BY <3>3, <1>1 DEF WindowPasses, TypeOK
    <3> QED
      BY <3>1, <3>2, <3>3, <1>8
  <2>2. breaching' \in [Workload -> {"no", "yes", "recent"}]
    <3>1. breaching \in [Workload -> {"no", "yes", "recent"}]
      BY <1>1 DEF TypeOK
    <3>2. \E b \in {"no", "yes", "recent"} : breaching' = [breaching EXCEPT ![w] = b]
      BY <1>8 DEF BreachStarts, BreachEnds, WindowPasses
    <3> QED
      BY <3>1, <3>2
  <2>3. UNCHANGED <<handler, objectVars>>
    BY <1>8 DEF BreachStarts, BreachEnds, WindowPasses
  <2>4. TypeOK'
    BY <2>1, <2>2, <2>3, <1>1, <1>2 DEF TypeOK, managerVars, loopVars, objectVars
  <2> QED
    BY <2>4, <1>3, <1>4 DEF IInv
<1> QED
  BY <1>5, <1>6, <1>7, <1>8

--------------------------------------------------------------------------------
(***************************************************************************)
(* The goroutines of a monitor.  What a breach loop does after it has      *)
(* looked for a breach, or has patched the object: it goes back to its     *)
(* select, patches, or blocks on the channel.                              *)
(***************************************************************************)
GoesOn(m) ==
  \E loop \in BreachLoop :
    /\ BreachLoopAt(m, loop)
    /\ \/ loop.at \in {"select", "patch"} /\ UNCHANGED senders
       \/ loop.at = "send" /\ Send(m, "breach")

LEMMA AnsweredGoesOn ==
  ASSUME TypeOK, NEW m \in Monitor, NEW breached \in BOOLEAN, Answered(m, breached)
  PROVE  GoesOn(m)
<1> DEFINE patch == [At("patch") EXCEPT !.past = breachLoop[m].past]
<1>1. breachLoop[m].past \in BOOLEAN
  BY DEF TypeOK, BreachLoop
<1>2. /\ At("select") \in BreachLoop /\ At("select").at = "select"
      /\ At("send") \in BreachLoop /\ At("send").at = "send"
      /\ patch \in BreachLoop /\ patch.at = "patch"
  BY <1>1 DEF At, BreachLoop
<1>3. \/ BreachLoopAt(m, patch) /\ UNCHANGED senders
      \/ BreachLoopAt(m, At("send")) /\ Send(m, "breach")
      \/ BreachLoopAt(m, At("select")) /\ UNCHANGED senders
  BY DEF Answered
<1> HIDE DEF patch
<1> QED
  BY <1>2, <1>3 DEF GoesOn

LEMMA PatchedGoesOn ==
  ASSUME TypeOK, NEW m \in Monitor, Patched(m)
  PROVE  GoesOn(m)
<1>1. /\ At("select") \in BreachLoop /\ At("select").at = "select"
      /\ At("send") \in BreachLoop /\ At("send").at = "send"
  BY DEF At, BreachLoop
<1>2. \/ BreachLoopAt(m, At("send")) /\ Send(m, "breach")
      \/ BreachLoopAt(m, At("select")) /\ UNCHANGED senders
  BY DEF Patched
<1> QED
  BY <1>1, <1>2 DEF GoesOn

\* Moving one breach loop that is alive registers nothing new as alive.
LEMMA AliveBreachLoop ==
  ASSUME TypeOK, AliveAreRegistered, NEW m \in Monitor, NEW loop, Alive(m),
         BreachLoopAt(m, loop), UNCHANGED <<monitors, periodicLoop>>
  PROVE  AliveAreRegistered'
<1> SUFFICES ASSUME NEW k \in Monitor, Alive(k)'
             PROVE  monitors'[k[1]] = k[2]
  BY DEF AliveAreRegistered
<1>1. breachLoop' = [breachLoop EXCEPT ![m] = loop] /\ monitors' = monitors
      /\ periodicLoop' = periodicLoop
  BY DEF BreachLoopAt
<1>2. k # m => breachLoop'[k] = breachLoop[k]
  BY <1>1 DEF TypeOK
<1>3. Alive(k)
  BY <1>1, <1>2 DEF Alive
<1> QED
  BY <1>1, <1>3 DEF AliveAreRegistered

LEMMA AlivePeriodicLoop ==
  ASSUME TypeOK, AliveAreRegistered, NEW m \in Monitor, NEW place, Alive(m),
         periodicLoop' = [periodicLoop EXCEPT ![m] = place],
         UNCHANGED <<monitors, breachLoop>>
  PROVE  AliveAreRegistered'
<1> SUFFICES ASSUME NEW k \in Monitor, Alive(k)'
             PROVE  monitors'[k[1]] = k[2]
  BY DEF AliveAreRegistered
<1>1. breachLoop' = breachLoop /\ monitors' = monitors
  OBVIOUS
<1>2. k # m => periodicLoop'[k] = periodicLoop[k]
  BY DEF TypeOK
<1>3. Alive(k)
  BY <1>1, <1>2 DEF Alive
<1> QED
  BY <1>1, <1>3 DEF AliveAreRegistered

\* The queue of the channel, when a breach loop leaves the semaphore or its patch.
LEMMA GoesOnQueues ==
  ASSUME TypeOK, BlockedAreQueued, NEW m \in Monitor,
         breachLoop[m].at \in {"acquire", "patch"}, GoesOn(m), UNCHANGED periodicLoop
  PROVE  /\ breachLoop' \in [Monitor -> BreachLoop]
         /\ \A k \in Monitor : k # m => breachLoop'[k] = breachLoop[k]
         /\ breachLoop'[m].at # "acquire"
         /\ senders' \in Seq(Monitor \X Loop)
         /\ IsInjective(senders')
         /\ \A k \in Monitor :
              /\ breachLoop'[k].at = "send" <=> Contains(senders', <<k, "breach">>)
              /\ periodicLoop'[k] = "send" <=> Contains(senders', <<k, "periodic">>)
<1>1. PICK loop \in BreachLoop :
        /\ BreachLoopAt(m, loop)
        /\ \/ loop.at \in {"select", "patch"} /\ UNCHANGED senders
           \/ loop.at = "send" /\ Send(m, "breach")
  BY DEF GoesOn
<1>2. breachLoop \in [Monitor -> BreachLoop] /\ senders \in Seq(Monitor \X Loop)
  BY DEF TypeOK
<1>3. /\ breachLoop' \in [Monitor -> BreachLoop]
      /\ \A k \in Monitor : k # m => breachLoop'[k] = breachLoop[k]
      /\ breachLoop'[m] = loop
  BY <1>1, <1>2 DEF BreachLoopAt
<1>4. /\ IsInjective(senders)
      /\ \A k \in Monitor :
           /\ breachLoop[k].at = "send" <=> Contains(senders, <<k, "breach">>)
           /\ periodicLoop[k] = "send" <=> Contains(senders, <<k, "periodic">>)
      /\ ~Contains(senders, <<m, "breach">>)
  BY DEF BlockedAreQueued
<1>5. CASE loop.at \in {"select", "patch"} /\ UNCHANGED senders
  <2>1. loop.at # "send" /\ loop.at # "acquire"
    BY <1>5
  <2>2. \A k \in Monitor : breachLoop'[k].at = "send" <=> Contains(senders', <<k, "breach">>)
    BY <2>1, <1>3, <1>4, <1>5
  <2> QED
    BY <2>1, <2>2, <1>2, <1>3, <1>4, <1>5
<1>6. CASE loop.at = "send" /\ Send(m, "breach")
  <2> DEFINE x == <<m, "breach">>
  <2>1. x \in Monitor \X Loop /\ senders' = Append(senders, x)
    BY <1>6 DEF Send, Loop
  <2>2. \A k \in Monitor : (<<k, "breach">> = x <=> k = m) /\ <<k, "periodic">> # x
    OBVIOUS
  <2>3. ~Contains(senders, x)
    BY <1>4
  <2> HIDE DEF x
  <2>4. /\ senders' \in Seq(Monitor \X Loop)
        /\ IsInjective(senders')
        /\ \A y : Contains(senders', y) <=> Contains(senders, y) \/ y = x
    BY <2>1, <2>3, <1>2, <1>4, Appended
  <2>5. ASSUME NEW k \in Monitor
        PROVE  /\ breachLoop'[k].at = "send" <=> Contains(senders', <<k, "breach">>)
               /\ periodicLoop'[k] = "send" <=> Contains(senders', <<k, "periodic">>)
    BY <2>2, <2>4, <1>3, <1>4, <1>6
  <2> QED
    BY <2>4, <2>5, <1>3, <1>6
<1> QED
  BY <1>1, <1>5, <1>6

LEMMA ReleaseQueues ==
  ASSUME IInv, NEW m \in Monitor, NEW breached \in BOOLEAN,
         breachLoop[m].at = "acquire", Release(m), Answered(m, breached),
         UNCHANGED <<monitors, periodicLoop>>
  PROVE  /\ breachLoop' \in [Monitor -> BreachLoop]
         /\ acquirers' \in Seq(Monitor)
         /\ senders' \in Seq(Monitor \X Loop)
         /\ AliveAreRegistered'
         /\ BlockedAreQueued'
<1>1. TypeOK /\ BlockedAreQueued /\ AliveAreRegistered
  BY DEF IInv
<1>2. GoesOn(m)
  BY <1>1, AnsweredGoesOn
<1>3. /\ breachLoop' \in [Monitor -> BreachLoop]
      /\ \A k \in Monitor : k # m => breachLoop'[k] = breachLoop[k]
      /\ breachLoop'[m].at # "acquire"
      /\ senders' \in Seq(Monitor \X Loop)
      /\ IsInjective(senders')
      /\ \A k \in Monitor :
           /\ breachLoop'[k].at = "send" <=> Contains(senders', <<k, "breach">>)
           /\ periodicLoop'[k] = "send" <=> Contains(senders', <<k, "periodic">>)
  BY <1>1, <1>2, GoesOnQueues
<1>4. PICK i \in 1..Len(acquirers) : acquirers[i] = m /\ acquirers' = RemoveAt(acquirers, i)
  BY DEF Release
<1>5. /\ acquirers \in Seq(Monitor) /\ IsInjective(acquirers)
      /\ \A k \in Monitor : breachLoop[k].at = "acquire" <=> Contains(acquirers, k)
  BY <1>1 DEF TypeOK, BlockedAreQueued
<1>6. /\ acquirers' \in Seq(Monitor)
      /\ IsInjective(acquirers')
      /\ \A y : Contains(acquirers', y) <=> Contains(acquirers, y) /\ y # m
  BY <1>4, <1>5, Removed
<1>7. \A k \in Monitor : breachLoop'[k].at = "acquire" <=> Contains(acquirers', k)
  BY <1>3, <1>5, <1>6
<1>8. BlockedAreQueued'
  BY <1>3, <1>6, <1>7 DEF BlockedAreQueued
<1>9. AliveAreRegistered'
  <2>1. Alive(m)
    BY DEF Alive
  <2>2. PICK loop \in BreachLoop : BreachLoopAt(m, loop)
    BY <1>2 DEF GoesOn
  <2> QED
    BY <2>1, <2>2, <1>1, AliveBreachLoop
<1> QED
  BY <1>3, <1>6, <1>8, <1>9

LEMMA PatchedQueues ==
  ASSUME IInv, NEW m \in Monitor, breachLoop[m].at = "patch", Patched(m),
         UNCHANGED <<monitors, periodicLoop, acquirers>>
  PROVE  /\ breachLoop' \in [Monitor -> BreachLoop]
         /\ senders' \in Seq(Monitor \X Loop)
         /\ AliveAreRegistered'
         /\ BlockedAreQueued'
<1>1. TypeOK /\ BlockedAreQueued /\ AliveAreRegistered
  BY DEF IInv
<1>2. GoesOn(m)
  BY <1>1, PatchedGoesOn
<1>3. /\ breachLoop' \in [Monitor -> BreachLoop]
      /\ \A k \in Monitor : k # m => breachLoop'[k] = breachLoop[k]
      /\ breachLoop'[m].at # "acquire"
      /\ senders' \in Seq(Monitor \X Loop)
      /\ IsInjective(senders')
      /\ \A k \in Monitor :
           /\ breachLoop'[k].at = "send" <=> Contains(senders', <<k, "breach">>)
           /\ periodicLoop'[k] = "send" <=> Contains(senders', <<k, "periodic">>)
  BY <1>1, <1>2, GoesOnQueues
<1>4. \A k \in Monitor : breachLoop'[k].at = "acquire" <=> Contains(acquirers', k)
  BY <1>1, <1>3 DEF BlockedAreQueued
<1>5. BlockedAreQueued'
  BY <1>1, <1>3, <1>4 DEF BlockedAreQueued
<1>6. AliveAreRegistered'
  <2>1. Alive(m)
    BY DEF Alive
  <2>2. PICK loop \in BreachLoop : BreachLoopAt(m, loop)
    BY <1>2 DEF GoesOn
  <2> QED
    BY <2>1, <2>2, <1>1, AliveBreachLoop
<1> QED
  BY <1>3, <1>5, <1>6

LEMMA BreachLoopPreserves ==
  ASSUME IInv, NEW m \in Monitor, BreachStep(m) \/ BreachDone(m)
  PROVE  IInv'
<1>1. TypeOK /\ ManagerInv /\ AliveAreRegistered /\ BlockedAreQueued
  BY DEF IInv
<1>2. breachLoop[m].seen \in BOOLEAN /\ breachLoop[m].past \in BOOLEAN /\ m[1] \in Workload
  BY <1>1 DEF TypeOK, BreachLoop, Monitor
<1>3. UNCHANGED <<managerVars, periodicLoop>>
  BY DEF BreachStep, BreachDone, BreachTick, BreachGetFails, HasBreached, HasBreachedErrs,
         PatchBreached, PatchBreachedFails, loopVars
<1>4. ManagerInv'
  BY <1>1, <1>3 DEF ManagerInv, managerVars
<1>5. /\ breachLoop' \in [Monitor -> BreachLoop]
      /\ acquirers' \in Seq(Monitor)
      /\ senders' \in Seq(Monitor \X Loop)
      /\ AliveAreRegistered'
      /\ BlockedAreQueued'
  <2>1. CASE BreachDone(m)
    <3>1. At("ended") \in BreachLoop /\ At("ended").at = "ended"
      BY DEF At, BreachLoop
    <3>2. /\ breachLoop[m].at = "select"
          /\ breachLoop' = [breachLoop EXCEPT ![m] = At("ended")]
          /\ UNCHANGED <<acquirers, senders>>
      BY <2>1 DEF BreachDone, BreachLoopAt
    <3>3. /\ breachLoop' \in [Monitor -> BreachLoop]
          /\ \A k \in Monitor : k # m => breachLoop'[k] = breachLoop[k]
          /\ breachLoop'[m] = At("ended")
      BY <3>1, <3>2, <1>1 DEF TypeOK
    <3>4. AliveAreRegistered'
      BY <3>2, <2>1, <1>1, <1>3, AliveBreachLoop DEF Alive, managerVars, BreachDone
    <3>5. \A k \in Monitor : /\ breachLoop'[k].at = "acquire" <=> breachLoop[k].at = "acquire"
                             /\ breachLoop'[k].at = "send" <=> breachLoop[k].at = "send"
      BY <3>1, <3>2, <3>3
    <3>6. acquirers' = acquirers /\ senders' = senders /\ periodicLoop' = periodicLoop
      BY <3>2, <1>3
    <3>7. BlockedAreQueued'
      BY <3>5, <3>6, <1>1 DEF BlockedAreQueued
    <3> QED
      BY <3>2, <3>3, <3>4, <3>7, <1>1 DEF TypeOK
  <2>2. CASE BreachTick(m)
    <3> DEFINE loop == [at |-> "acquire", past |-> Cached(m[1]), seen |-> breaching[m[1]] # "no"]
    <3>1. loop \in BreachLoop /\ loop.at = "acquire"
      BY <1>1, <1>2, StoredType DEF BreachLoop
    <3>2. /\ breachLoop[m].at = "select"
          /\ BreachLoopAt(m, loop)
          /\ acquirers' = Append(acquirers, m)
          /\ UNCHANGED senders
      BY <2>2 DEF BreachTick
    <3> HIDE DEF loop
    <3>3. /\ breachLoop' \in [Monitor -> BreachLoop]
          /\ \A k \in Monitor : k # m => breachLoop'[k] = breachLoop[k]
          /\ breachLoop'[m] = loop
      BY <3>1, <3>2, <1>1 DEF TypeOK, BreachLoopAt
    <3>4. AliveAreRegistered'
      BY <3>2, <1>1, <1>3, AliveBreachLoop DEF Alive, managerVars
    <3>5. /\ acquirers \in Seq(Monitor) /\ IsInjective(acquirers)
          /\ \A k \in Monitor : breachLoop[k].at = "acquire" <=> Contains(acquirers, k)
          /\ ~Contains(acquirers, m)
      BY <3>2, <1>1 DEF TypeOK, BlockedAreQueued
    <3>6. /\ acquirers' \in Seq(Monitor)
          /\ IsInjective(acquirers')
          /\ \A y : Contains(acquirers', y) <=> Contains(acquirers, y) \/ y = m
      BY <3>2, <3>5, Appended
    <3>7. \A k \in Monitor : breachLoop'[k].at = "acquire" <=> Contains(acquirers', k)
      BY <3>1, <3>3, <3>5, <3>6
    <3>8. \A k \in Monitor : breachLoop'[k].at = "send" <=> breachLoop[k].at = "send"
      BY <3>1, <3>2, <3>3
    <3>9. BlockedAreQueued'
      BY <3>2, <3>6, <3>7, <3>8, <1>1, <1>3 DEF BlockedAreQueued
    <3> QED
      BY <3>2, <3>3, <3>4, <3>6, <3>9, <1>1 DEF TypeOK
  <2>3. CASE BreachGetFails(m)
    <3>1. UNCHANGED <<monitors, loopVars, acquirers, senders>>
      BY <2>3 DEF BreachGetFails, managerVars
    <3> QED
      BY <3>1, <1>1, LoopsUnchanged DEF TypeOK, loopVars
  <2>4. CASE HasBreached(m)
    BY <2>4, <1>2, <1>3, ReleaseQueues DEF HasBreached, managerVars
  <2>5. CASE HasBreachedErrs(m)
    BY <2>5, <1>3, ReleaseQueues DEF HasBreachedErrs, managerVars
  <2>6. CASE PatchBreached(m) \/ PatchBreachedFails(m)
    <3>1. breachLoop[m].at = "patch" /\ Patched(m) /\ acquirers' = acquirers
      BY <2>6 DEF PatchBreached, PatchBreachedFails
    <3> QED
      BY <3>1, <1>1, <1>3, PatchedQueues DEF managerVars, TypeOK
  <2> QED
    BY <2>1, <2>2, <2>3, <2>4, <2>5, <2>6 DEF BreachStep
<1>6. budget' \in [stop : Nat, change : Nat, event : Nat]
  <2>1. Spend("event") \/ UNCHANGED budget
    BY DEF BreachStep, BreachDone, BreachTick, BreachGetFails, HasBreached, HasBreachedErrs,
           PatchBreached, PatchBreachedFails
  <2> QED
    BY <2>1, <1>1, SpendTypes DEF TypeOK
<1>7. /\ versions' \in [Workload -> Seq(BOOLEAN) \ {<< >>}]
      /\ handler' \in [at : {"receive", "update", "patch"},
                        workload : Workload, latest : BOOLEAN]
      /\ UNCHANGED <<queued, breaching>>
  <2>1. CASE PatchBreached(m)
    BY <2>1, <1>1, <1>2, WriteTypes, OutdatedType DEF PatchBreached
  <2>2. CASE ~PatchBreached(m)
    <3>1. UNCHANGED <<handler, objectVars, breaching>>
      BY <2>2 DEF BreachStep, BreachDone, BreachTick, BreachGetFails, HasBreached,
                  HasBreachedErrs, PatchBreachedFails
    <3> QED
      BY <3>1, <1>1 DEF TypeOK, objectVars
  <2> QED
    BY <2>1, <2>2
<1>8. TypeOK'
  BY <1>1, <1>3, <1>5, <1>6, <1>7 DEF TypeOK, managerVars
<1> QED
  BY <1>4, <1>5, <1>8 DEF IInv

LEMMA PeriodicLoopPreserves ==
  ASSUME IInv, NEW m \in Monitor, PeriodicTick(m) \/ PeriodicDone(m)
  PROVE  IInv'
<1>1. TypeOK /\ ManagerInv /\ AliveAreRegistered /\ BlockedAreQueued
  BY DEF IInv
<1>2. /\ periodicLoop[m] = "select"
      /\ UNCHANGED <<managerVars, breachLoop, acquirers, handler, objectVars, breaching>>
  BY DEF PeriodicTick, PeriodicDone
<1>3. ManagerInv'
  BY <1>1, <1>2 DEF ManagerInv, managerVars
<1>4. PICK place \in {"send", "ended"} :
        /\ periodicLoop' = [periodicLoop EXCEPT ![m] = place]
        /\ \/ place = "send" /\ Send(m, "periodic") /\ Spend("event")
           \/ place = "ended" /\ UNCHANGED <<senders, budget>>
  BY DEF PeriodicTick, PeriodicDone
<1>5. /\ periodicLoop' \in [Monitor -> {"none", "select", "send", "ended"}]
      /\ \A k \in Monitor : k # m => periodicLoop'[k] = periodicLoop[k]
      /\ periodicLoop'[m] = place
  BY <1>1, <1>4 DEF TypeOK
<1>6. AliveAreRegistered'
  BY <1>1, <1>2, <1>4, AlivePeriodicLoop DEF Alive, managerVars
<1>7. budget' \in [stop : Nat, change : Nat, event : Nat]
  BY <1>1, <1>4, SpendTypes DEF TypeOK
<1>8. senders' \in Seq(Monitor \X Loop) /\ BlockedAreQueued'
  <2>1. /\ senders \in Seq(Monitor \X Loop) /\ IsInjective(senders)
        /\ \A k \in Monitor :
             /\ breachLoop[k].at = "send" <=> Contains(senders, <<k, "breach">>)
             /\ periodicLoop[k] = "send" <=> Contains(senders, <<k, "periodic">>)
        /\ ~Contains(senders, <<m, "periodic">>)
    BY <1>1, <1>2 DEF TypeOK, BlockedAreQueued
  <2>2. CASE place = "ended" /\ UNCHANGED <<senders, budget>>
    <3>1. \A k \in Monitor : periodicLoop'[k] = "send" <=> Contains(senders', <<k, "periodic">>)
      BY <2>1, <2>2, <1>2, <1>5
    <3> QED
      BY <3>1, <2>1, <2>2, <1>1, <1>2 DEF BlockedAreQueued
  <2>3. CASE place = "send" /\ Send(m, "periodic")
    <3> DEFINE x == <<m, "periodic">>
    <3>1. x \in Monitor \X Loop /\ senders' = Append(senders, x)
      BY <2>3 DEF Send, Loop
    <3>2. \A k \in Monitor : (<<k, "periodic">> = x <=> k = m) /\ <<k, "breach">> # x
      OBVIOUS
    <3>3. ~Contains(senders, x)
      BY <2>1
    <3> HIDE DEF x
    <3>4. /\ senders' \in Seq(Monitor \X Loop)
          /\ IsInjective(senders')
          /\ \A y : Contains(senders', y) <=> Contains(senders, y) \/ y = x
      BY <3>1, <3>3, <2>1, Appended
    <3>5. ASSUME NEW k \in Monitor
          PROVE  /\ breachLoop'[k].at = "send" <=> Contains(senders', <<k, "breach">>)
                 /\ periodicLoop'[k] = "send" <=> Contains(senders', <<k, "periodic">>)
      BY <3>2, <3>4, <2>1, <2>3, <1>2, <1>5
    <3> QED
      BY <3>4, <3>5, <1>1, <1>2 DEF BlockedAreQueued
  <2> QED
    BY <2>2, <2>3, <1>4
<1>9. TypeOK'
  BY <1>1, <1>2, <1>5, <1>7, <1>8 DEF TypeOK, managerVars, objectVars
<1> QED
  BY <1>3, <1>6, <1>8, <1>9 DEF IInv

--------------------------------------------------------------------------------
(***************************************************************************)
(* The handler's goroutine.                                                *)
(***************************************************************************)
LEMMA ReceivePreserves ==
  ASSUME IInv, HandlerGet \/ HandlerGetFails
  PROVE  IInv'
<1>1. TypeOK /\ ManagerInv /\ AliveAreRegistered /\ BlockedAreQueued
  BY DEF IInv
<1>2. Receive
  BY DEF HandlerGet, HandlerGetFails
<1>3. ManagerInv'
  BY <1>1, <1>2 DEF Receive, ManagerInv, managerVars
<1>4. /\ senders \in Seq(Monitor \X Loop) /\ senders # << >> /\ IsInjective(senders)
      /\ \A k \in Monitor :
           /\ breachLoop[k].at = "send" <=> Contains(senders, <<k, "breach">>)
           /\ periodicLoop[k] = "send" <=> Contains(senders, <<k, "periodic">>)
  BY <1>1, <1>2 DEF Receive, TypeOK, BlockedAreQueued
<1> DEFINE head == Head(senders)
<1>5. /\ head \in Monitor \X Loop
      /\ Contains(senders, head)
      /\ Tail(senders) \in Seq(Monitor \X Loop)
      /\ IsInjective(Tail(senders))
      /\ \A y : Contains(Tail(senders), y) <=> Contains(senders, y) /\ y # head
  BY <1>4, Taken
<1>6. PICK m \in Monitor, loop \in Loop : head = <<m, loop>>
  BY <1>5
<1>7. /\ senders' = Tail(senders) /\ acquirers' = acquirers /\ monitors' = monitors
      /\ IF loop = "breach"
         THEN BreachLoopAt(m, At("select")) /\ UNCHANGED periodicLoop
         ELSE /\ periodicLoop' = [periodicLoop EXCEPT ![m] = "select"]
              /\ UNCHANGED breachLoop
  BY <1>2, <1>6 DEF Receive, managerVars
<1>8. m[1] \in Workload
  BY DEF Monitor
<1> HIDE DEF head
<1>9. /\ breachLoop' \in [Monitor -> BreachLoop]
      /\ periodicLoop' \in [Monitor -> {"none", "select", "send", "ended"}]
      /\ senders' \in Seq(Monitor \X Loop)
      /\ AliveAreRegistered'
      /\ BlockedAreQueued'
  <2>1. CASE loop = "breach"
    <3>1. At("select") \in BreachLoop /\ At("select").at = "select"
      BY DEF At, BreachLoop
    <3>2. /\ breachLoop' \in [Monitor -> BreachLoop]
          /\ \A k \in Monitor : k # m => breachLoop'[k] = breachLoop[k]
          /\ breachLoop'[m] = At("select")
          /\ periodicLoop' = periodicLoop
      BY <3>1, <2>1, <1>1, <1>7 DEF TypeOK, BreachLoopAt
    <3>3. breachLoop[m].at = "send" /\ Alive(m)
      BY <2>1, <1>4, <1>5, <1>6 DEF Alive
    <3>4. AliveAreRegistered'
      BY <3>3, <2>1, <1>1, <1>7, AliveBreachLoop
    <3>5. \A k \in Monitor : /\ <<k, "breach">> = head <=> k = m
                             /\ <<k, "periodic">> # head
      BY <2>1, <1>6
    <3>6. \A k \in Monitor : breachLoop'[k].at = "acquire" <=> breachLoop[k].at = "acquire"
      BY <3>1, <3>2, <3>3
    <3>7. ASSUME NEW k \in Monitor
          PROVE  /\ breachLoop'[k].at = "send" <=> Contains(senders', <<k, "breach">>)
                 /\ periodicLoop'[k] = "send" <=> Contains(senders', <<k, "periodic">>)
      BY <3>1, <3>2, <3>5, <1>4, <1>5, <1>7
    <3>8. BlockedAreQueued'
      BY <3>6, <3>7, <1>1, <1>5, <1>7 DEF BlockedAreQueued
    <3> QED
      BY <3>2, <3>4, <3>8, <1>1, <1>5, <1>7 DEF TypeOK
  <2>2. CASE loop = "periodic"
    <3>1. loop # "breach"
      BY <2>2
    <3>2. /\ periodicLoop' \in [Monitor -> {"none", "select", "send", "ended"}]
          /\ \A k \in Monitor : k # m => periodicLoop'[k] = periodicLoop[k]
          /\ periodicLoop'[m] = "select"
          /\ breachLoop' = breachLoop
      BY <3>1, <1>1, <1>7 DEF TypeOK
    <3>3. periodicLoop[m] = "send" /\ Alive(m)
      BY <2>2, <1>4, <1>5, <1>6 DEF Alive
    <3>4. AliveAreRegistered'
      BY <3>1, <3>2, <3>3, <1>1, <1>7, AlivePeriodicLoop
    <3>5. \A k \in Monitor : /\ <<k, "periodic">> = head <=> k = m
                             /\ <<k, "breach">> # head
      BY <2>2, <1>6
    <3>6. ASSUME NEW k \in Monitor
          PROVE  /\ breachLoop'[k].at = "send" <=> Contains(senders', <<k, "breach">>)
                 /\ periodicLoop'[k] = "send" <=> Contains(senders', <<k, "periodic">>)
      BY <3>2, <3>5, <1>4, <1>5, <1>7
    <3>7. BlockedAreQueued'
      BY <3>2, <3>6, <1>1, <1>5, <1>7 DEF BlockedAreQueued
    <3> QED
      BY <3>2, <3>4, <3>7, <1>1, <1>5, <1>7 DEF TypeOK
  <2> QED
    BY <2>1, <2>2 DEF Loop
<1>10. handler' \in [at : {"receive", "update", "patch"},
                     workload : Workload, latest : BOOLEAN]
  <2>1. head[1][1] \in Workload
    BY <1>6, <1>8
  <2>2. CASE HandlerGet
    <3> DEFINE w == head[1][1]
               latest == Len(versions[w]) = 1
    <3>1. handler' = [at |-> "update", workload |-> w, latest |-> latest]
      BY <2>2 DEF HandlerGet, head
    <3>2. latest \in BOOLEAN
      OBVIOUS
    <3> HIDE DEF latest
    <3> QED
      BY <3>1, <3>2, <2>1
  <2>3. CASE HandlerGetFails
    BY <2>3, <1>1 DEF HandlerGetFails, TypeOK
  <2> QED
    BY <2>2, <2>3
<1>11. budget' \in [stop : Nat, change : Nat, event : Nat]
  BY <1>1, SpendTypes DEF HandlerGet, HandlerGetFails, TypeOK
<1>12. TypeOK'
  BY <1>1, <1>2, <1>9, <1>10, <1>11 DEF TypeOK, Receive, managerVars, objectVars
<1> QED
  BY <1>3, <1>9, <1>12 DEF IInv

LEMMA HandlerPreserves ==
  ASSUME IInv, HandlerUpdate \/ HandlerConflicts \/ HandlerPatch \/ HandlerFails
  PROVE  IInv'
<1>1. TypeOK /\ ManagerInv /\ handler.workload \in Workload
      /\ Stored(handler.workload) \in BOOLEAN
  BY StoredType DEF IInv, TypeOK
<1>2. UNCHANGED <<managerVars, loopVars, acquirers, senders, breaching>>
  BY DEF HandlerUpdate, HandlerConflicts, HandlerPatch, HandlerFails
<1>3. AliveAreRegistered' /\ BlockedAreQueued'
  BY <1>2, LoopsUnchanged DEF managerVars
<1>4. ManagerInv'
  BY <1>1, <1>2 DEF ManagerInv, managerVars
<1>5. handler' \in [at : {"receive", "update", "patch"},
                    workload : Workload, latest : BOOLEAN]
  <2>1. HandlerAt("patch") \/ HandlerAt("receive")
    BY DEF HandlerUpdate, HandlerConflicts, HandlerPatch, HandlerFails
  <2> QED
    BY <2>1, <1>1, HandlerAtType
<1>6. versions' \in [Workload -> Seq(BOOLEAN) \ {<< >>}]
  <2>1. Write(handler.workload, Stored(handler.workload)) \/ UNCHANGED versions
    BY DEF HandlerUpdate, HandlerConflicts, HandlerPatch, HandlerFails, objectVars
  <2> QED
    BY <2>1, <1>1, WriteTypes DEF TypeOK
<1>7. queued' \in [Workload -> BOOLEAN]
  <2>1. UNCHANGED queued \/ queued' = [queued EXCEPT ![handler.workload] = TRUE]
    BY DEF HandlerUpdate, HandlerConflicts, HandlerPatch, HandlerFails, objectVars
  <2> QED
    BY <2>1, <1>1 DEF TypeOK
<1>8. budget' \in [stop : Nat, change : Nat, event : Nat]
  <2>1. Spend("event") \/ UNCHANGED budget
    BY DEF HandlerUpdate, HandlerConflicts, HandlerPatch, HandlerFails
  <2> QED
    BY <2>1, <1>1, SpendTypes DEF TypeOK
<1>9. TypeOK'
  BY <1>1, <1>2, <1>5, <1>6, <1>7, <1>8 DEF TypeOK, managerVars, loopVars
<1> QED
  BY <1>3, <1>4, <1>9 DEF IInv

--------------------------------------------------------------------------------
LEMMA InitEstablishes == Init => IInv
<1> SUFFICES ASSUME Init PROVE IInv
  OBVIOUS
<1>1. TypeOK
  BY InitTypes
<1>2. ManagerInv
  BY DEF Init, ManagerInv
<1>3. \A m \in Monitor : breachLoop[m] = At("none") /\ periodicLoop[m] = "none"
  BY DEF Init
<1>4. AliveAreRegistered
  BY <1>3 DEF AliveAreRegistered, Alive, At
<1>5. BlockedAreQueued
  <2>1. acquirers = << >> /\ senders = << >>
    BY DEF Init
  <2>2. IsInjective(<< >>) /\ \A x : ~Contains(<< >>, x)
    BY DEF IsInjective, Contains
  <2> QED
    BY <2>1, <2>2, <1>3 DEF BlockedAreQueued, At
<1> QED
  BY <1>1, <1>2, <1>4, <1>5 DEF IInv

LEMMA StutterPreserves ==
  ASSUME IInv, UNCHANGED vars
  PROVE  IInv'
<1>1. TypeOK'
  BY DEF IInv, TypeOK, vars, managerVars, loopVars, objectVars
<1>2. ManagerInv'
  BY DEF IInv, ManagerInv, vars, managerVars
<1>3. AliveAreRegistered' /\ BlockedAreQueued'
  BY LoopsUnchanged DEF vars, managerVars
<1> QED
  BY <1>1, <1>2, <1>3 DEF IInv

\* The inductive invariant of the monitors.
THEOREM Invariance == Spec => []IInv
<1>1. Init => IInv
  BY InitEstablishes
<1>2. IInv /\ [Next]_vars => IInv'
  <2> SUFFICES ASSUME IInv, [Next]_vars PROVE IInv'
    OBVIOUS
  <2>1. CASE ManagerStep
    BY <2>1, StoppedPreserves, StopNextPreserves DEF ManagerStep
  <2>2. CASE HandlerStep
    BY <2>2, ReceivePreserves, HandlerPreserves DEF HandlerStep
  <2>3. CASE Shutdown
    BY <2>3, ShutdownPreserves
  <2>4. ASSUME NEW w \in Workload,
               \/ RegisterMonitor(w) \/ DeregisterMonitor(w)
               \/ Deliver(w) \/ Consume(w) \/ ForeignWrite(w)
               \/ BreachStarts(w) \/ BreachEnds(w) \/ WindowPasses(w)
        PROVE  IInv'
    BY <2>4, RegisterPreserves, DeregisterPreserves, ObjectPreserves
  <2>5. ASSUME NEW m \in Monitor,
               BreachStep(m) \/ BreachDone(m) \/ PeriodicTick(m) \/ PeriodicDone(m)
        PROVE  IInv'
    BY <2>5, BreachLoopPreserves, PeriodicLoopPreserves
  <2>6. CASE UNCHANGED vars
    BY <2>6, StutterPreserves
  <2> QED
    BY <2>1, <2>2, <2>3, <2>4, <2>5, <2>6 DEF Next
<1> QED
  BY <1>1, <1>2, PTL DEF Spec

\* Every variable of the monitors keeps its type, the queues of the semaphore and of
\* the channel and the versions of an object included (monitor.go, trigger_handler.go).
THEOREM MonitorsAreTyped == Spec => []TypeOK
BY Invariance, PTL DEF IInv

\* Once DeregisterMonitor has returned, no goroutine of the monitor is left, and a
\* workload never has the goroutines of two monitors (monitor.go:339-350).
THEOREM OnlyRegisteredAreAlive == Spec => []AliveAreRegistered
BY Invariance, PTL DEF IInv

\* Every goroutine that waits for the semaphore or the channel is queued there once,
\* and no permit is lost to a goroutine that has gone on (monitor.go:258-293).
THEOREM EveryBlockedIsQueued == Spec => []BlockedAreQueued
BY Invariance, PTL DEF IInv
================================================================================

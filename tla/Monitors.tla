-------------------------------- MODULE Monitors --------------------------------
(***************************************************************************)
(* The monitors of the workloads and their manager                         *)
(* (pkg/trigger/monitor.go), with the handler goroutine they call          *)
(* (pkg/trigger/trigger_handler.go).                                       *)
(*                                                                         *)
(* A monitor is two goroutines: one looks for breaches at every tick,      *)
(* keeps the HasBreached condition of the PolicyRecommendation and asks    *)
(* the handler for a new recommendation while the breach lasts; the other  *)
(* asks for one periodically.  All breach loops share one semaphore, and   *)
(* all goroutines send to the handler over one unbuffered channel.         *)
(*                                                                         *)
(* Left out: events and gauges, and the object's other fields.  That       *)
(* another client writes the object is ForeignWrite; that it is read by    *)
(* the reconciler and the request consumed is Consume.                     *)
(***************************************************************************)
EXTENDS Naturals, SequencesExt

CONSTANTS
  Workload,
  Concurrency,      \* concurrentExecutions: the weight of the semaphore
  MaxMonitors,      \* bound: monitors created for one workload
  Loaded,           \* bound: the workloads whose load changes
  MaxChanges,       \* bound: starts and ends of breaches
  MaxStops,         \* bound: calls of DeregisterMonitor and Shutdown
  MaxEvents,        \* bound: periodic ticks, failing calls and writes of others
  MaxLag            \* bound: versions the informer is behind

ASSUME MonitorsAssumption ==
  /\ Workload # {} /\ Loaded \subseteq Workload
  /\ Concurrency \in Nat \ {0}
  /\ MaxLag \in Nat \ {0}
  /\ {MaxMonitors, MaxStops, MaxChanges, MaxEvents} \subseteq Nat

Monitor == Workload \X (1..MaxMonitors)
Loop == {"breach", "periodic"}
None == <<"none", 0>>

VARIABLES
  monitors,   \* mf.monitors: the number of the workload's monitor, 0 for none
  created,    \* how many monitors the workload has had
  cancelled,  \* the monitors whose context is cancelled
  manager,    \* the call that holds monitorMutex
  breachLoop, \* where monitorBreaches is and what it has read
  periodicLoop, \* where requeueAfterFixedInterval is
  acquirers,  \* the semaphore's holders and, behind them, its waiters
  senders,    \* the goroutines blocked on the handler's channel, in their order
  handler,    \* the goroutine queuePolicyRecommendations
  versions,   \* HasBreached of the versions from the cached to the stored one
  queued,     \* QueuedForExecution of the stored version
  breaching,  \* whether the workload is above the red line, or was in the last interval
  budget      \* what is left of the bounds

managerVars == <<monitors, created, cancelled, manager>>
loopVars == <<breachLoop, periodicLoop>>
objectVars == <<versions, queued>>
vars == <<managerVars, loopVars, acquirers, senders, handler, objectVars, breaching, budget>>

Cached(w) == Head(versions[w])
Stored(w) == versions[w][Len(versions[w])]

\* past is breachedInPast; seen: the window the loop is to query has a breach.
BreachLoop ==
  [at : {"none", "select", "acquire", "patch", "send", "ended"},
   past : BOOLEAN, seen : BOOLEAN]

At(place) == [at |-> place, past |-> FALSE, seen |-> FALSE]

TypeOK ==
  /\ monitors \in [Workload -> 0..MaxMonitors]
  /\ created \in [Workload -> 0..MaxMonitors]
  /\ cancelled \subseteq Monitor
  /\ manager \in [call : {"none", "deregister", "shutdown"},
                  stopping : Monitor \cup {None},
                  left : SUBSET Workload]
  /\ breachLoop \in [Monitor -> BreachLoop]
  /\ periodicLoop \in [Monitor -> {"none", "select", "send", "ended"}]
  /\ acquirers \in Seq(Monitor)
  /\ senders \in Seq(Monitor \X Loop)
  /\ handler \in [at : {"receive", "update", "patch"},
                  workload : Workload, latest : BOOLEAN]
  /\ versions \in [Workload -> Seq(BOOLEAN) \ {<< >>}]
  /\ queued \in [Workload -> BOOLEAN]
  /\ breaching \in [Workload -> {"no", "yes", "recent"}]
  /\ budget \in [stop : Nat, change : Nat, event : Nat]

Init ==
  /\ monitors = [w \in Workload |-> 0]
  /\ created = [w \in Workload |-> 0]
  /\ cancelled = {}
  /\ manager = [call |-> "none", stopping |-> None, left |-> {}]
  /\ breachLoop = [m \in Monitor |-> At("none")]
  /\ periodicLoop = [m \in Monitor |-> "none"]
  /\ acquirers = << >>
  /\ senders = << >>
  /\ handler = [at |-> "receive", workload |-> CHOOSE w \in Workload : TRUE, latest |-> FALSE]
  /\ versions = [w \in Workload |-> <<FALSE>>]
  /\ queued = [w \in Workload |-> FALSE]
  /\ breaching = [w \in Workload |-> "no"]
  /\ budget = [stop |-> MaxStops, change |-> MaxChanges, event |-> MaxEvents]

Spend(what) ==
  /\ budget[what] > 0
  /\ budget' = [budget EXCEPT ![what] = @ - 1]

--------------------------------------------------------------------------------
(***************************************************************************)
(* The manager.  RegisterMonitor never blocks while it holds the lock;     *)
(* DeregisterMonitor and Shutdown hold it while they wait for the          *)
(* goroutines of a monitor.                                                *)
(***************************************************************************)
Unlocked == manager.call = "none"

RegisterMonitor(w) ==
  /\ Unlocked
  /\ monitors[w] = 0
  /\ created[w] < MaxMonitors
  /\ LET m == <<w, created[w] + 1>>
     IN  /\ monitors' = [monitors EXCEPT ![w] = m[2]]
         /\ created' = [created EXCEPT ![w] = m[2]]
         /\ breachLoop' = [breachLoop EXCEPT ![m] = At("select")]
         /\ periodicLoop' = [periodicLoop EXCEPT ![m] = "select"]
  /\ UNCHANGED <<cancelled, manager, acquirers, senders, handler, objectVars, breaching, budget>>

\* Stop up to its wait: cancel the context.
Cancel(w) == cancelled' = cancelled \cup {<<w, monitors[w]>>}

\* Fault for the mutants: Stop does not wait for the goroutines.
DoNotWait(m) == TRUE

Wait(m) == breachLoop[m].at = "ended" /\ periodicLoop[m] = "ended"

\* Fault for the mutants: DeregisterMonitor does not look whether there is one.
Unchecked(w) == TRUE

Registered(w) == monitors[w] # 0

DeregisterMonitor(w) ==
  /\ Unlocked
  /\ Registered(w)
  /\ Spend("stop")
  /\ Cancel(w)
  /\ manager' = [call |-> "deregister", stopping |-> <<w, monitors[w]>>, left |-> {}]
  /\ UNCHANGED <<monitors, created, loopVars, acquirers, senders, handler, objectVars,
                 breaching>>

Shutdown ==
  /\ Unlocked
  /\ \E w \in Workload : Registered(w)
  /\ Spend("stop")
  /\ manager' = [call |-> "shutdown", stopping |-> None,
                 left |-> {w \in Workload : Registered(w)}]
  /\ UNCHANGED <<monitors, created, cancelled, loopVars, acquirers, senders, handler, objectVars,
                 breaching>>

\* Shutdown stops the monitors one after the other, in any order.
StopNext(w) ==
  /\ manager.call = "shutdown"
  /\ manager.stopping = None
  /\ w \in manager.left
  /\ Cancel(w)
  /\ manager' = [manager EXCEPT !.stopping = <<w, monitors[w]>>, !.left = @ \ {w}]
  /\ UNCHANGED <<monitors, created, loopVars, acquirers, senders, handler, objectVars,
                 breaching, budget>>

\* Stop returns, and with the last Stop the call that holds the lock.
Stopped ==
  /\ manager.stopping # None
  /\ Wait(manager.stopping)
  /\ manager' = [manager EXCEPT !.stopping = None,
                                !.call = IF manager.left = {} THEN "none" ELSE @]
  /\ monitors' = IF manager.call = "deregister"
                 THEN [monitors EXCEPT ![manager.stopping[1]] = 0] ELSE monitors
  /\ UNCHANGED <<created, cancelled, loopVars, acquirers, senders, handler, objectVars,
                 breaching, budget>>

--------------------------------------------------------------------------------
(***************************************************************************)
(* The PolicyRecommendation of a workload and the workload's load.  The    *)
(* informer delivers the versions in their order.  An Update of a copy     *)
(* that is not the stored version fails, so that every write outdates the  *)
(* copy the handler holds.                                                 *)
(***************************************************************************)
Write(w, hasBreached) ==
  /\ Len(versions[w]) <= MaxLag
  /\ versions' = [versions EXCEPT ![w] = Append(@, hasBreached)]

Outdated(w) ==
  IF handler.workload = w THEN [handler EXCEPT !.latest = FALSE] ELSE handler

Deliver(w) ==
  /\ Len(versions[w]) > 1
  /\ versions' = [versions EXCEPT ![w] = Tail(@)]
  /\ UNCHANGED <<managerVars, loopVars, acquirers, senders, handler, queued, breaching, budget>>

\* The reconciler takes the request and clears QueuedForExecution.
Consume(w) ==
  /\ queued[w]
  /\ queued' = [queued EXCEPT ![w] = FALSE]
  /\ Write(w, Stored(w))
  /\ handler' = Outdated(w)
  /\ UNCHANGED <<managerVars, loopVars, acquirers, senders, breaching, budget>>

ForeignWrite(w) ==
  /\ Spend("event")
  /\ Write(w, Stored(w))
  /\ handler' = Outdated(w)
  /\ UNCHANGED <<managerVars, loopVars, acquirers, senders, queued, breaching>>

BreachStarts(w) ==
  /\ w \in Loaded
  /\ breaching[w] # "yes"
  /\ Spend("change")
  /\ breaching' = [breaching EXCEPT ![w] = "yes"]
  /\ UNCHANGED <<managerVars, loopVars, acquirers, senders, handler, objectVars>>

BreachEnds(w) ==
  /\ breaching[w] = "yes"
  /\ Spend("change")
  /\ breaching' = [breaching EXCEPT ![w] = "recent"]
  /\ UNCHANGED <<managerVars, loopVars, acquirers, senders, handler, objectVars>>

\* breachCheckFrequency has passed since the breach ended.
WindowPasses(w) ==
  /\ breaching[w] = "recent"
  /\ breaching' = [breaching EXCEPT ![w] = "no"]
  /\ UNCHANGED <<managerVars, loopVars, acquirers, senders, handler, objectVars, budget>>

--------------------------------------------------------------------------------
(***************************************************************************)
(* monitorBreaches of monitor m.  A select whose context is cancelled may  *)
(* still take a tick that is ready: Go chooses among the ready cases at    *)
(* random.                                                                 *)
(***************************************************************************)
BreachLoopAt(m, loop) == breachLoop' = [breachLoop EXCEPT ![m] = loop]

BreachDone(m) ==
  /\ breachLoop[m].at = "select"
  /\ m \in cancelled
  /\ BreachLoopAt(m, At("ended"))
  /\ UNCHANGED <<managerVars, periodicLoop, acquirers, senders, handler, objectVars, breaching, budget>>

\* The tick fixes the window of the query; then the object is read and the
\* semaphore waited for.
BreachTick(m) ==
  /\ breachLoop[m].at = "select"
  /\ BreachLoopAt(m, [at |-> "acquire", past |-> Cached(m[1]), seen |-> breaching[m[1]] # "no"])
  /\ acquirers' = Append(acquirers, m)
  /\ UNCHANGED <<managerVars, periodicLoop, senders, handler, objectVars, breaching, budget>>

BreachGetFails(m) ==
  /\ breachLoop[m].at = "select"
  /\ Spend("event")
  /\ UNCHANGED <<managerVars, loopVars, acquirers, senders, handler, objectVars, breaching>>

Acquired(m) ==
  \E i \in 1..Len(acquirers) : i <= Concurrency /\ acquirers[i] = m

Release(m) ==
  \E i \in 1..Len(acquirers) : acquirers[i] = m /\ acquirers' = RemoveAt(acquirers, i)

\* handlerFunc: block on the channel until the handler receives.
Send(m, loop) == senders' = Append(senders, <<m, loop>>)

\* Fault for the mutants: the handler is called at the start of a breach only.
AnsweredOnce(m, breached) ==
  LET past == breachLoop[m].past
  IN  IF breached # past
      THEN BreachLoopAt(m, [At("patch") EXCEPT !.past = past]) /\ UNCHANGED senders
      ELSE BreachLoopAt(m, At("select")) /\ UNCHANGED senders

\* Fault for the mutants: the end of a breach is not recorded.
AnsweredWithoutEnd(m, breached) ==
  IF breached /\ ~breachLoop[m].past
  THEN BreachLoopAt(m, At("patch")) /\ UNCHANGED senders
  ELSE IF breached THEN BreachLoopAt(m, At("send")) /\ Send(m, "breach")
                   ELSE BreachLoopAt(m, At("select")) /\ UNCHANGED senders

Answered(m, breached) ==
  LET past == breachLoop[m].past
  IN  IF breached # past
      THEN BreachLoopAt(m, [At("patch") EXCEPT !.past = past]) /\ UNCHANGED senders
      ELSE IF breached THEN BreachLoopAt(m, At("send")) /\ Send(m, "breach")
                       ELSE BreachLoopAt(m, At("select")) /\ UNCHANGED senders

HasBreached(m) ==
  /\ breachLoop[m].at = "acquire"
  /\ Acquired(m)
  /\ Release(m)
  /\ Answered(m, breachLoop[m].seen)
  /\ UNCHANGED <<managerVars, periodicLoop, handler, objectVars, breaching, budget>>

\* Fault for the mutants: an error of the query leaves the semaphore acquired.
HasBreachedLeaks(m) ==
  /\ breachLoop[m].at = "acquire"
  /\ Acquired(m)
  /\ Spend("event")
  /\ Answered(m, FALSE)
  /\ UNCHANGED <<managerVars, periodicLoop, acquirers, handler, objectVars, breaching>>

\* An error of the metrics source is ignored and taken for no breach.
HasBreachedErrs(m) ==
  /\ breachLoop[m].at = "acquire"
  /\ Acquired(m)
  /\ Spend("event")
  /\ Release(m)
  /\ Answered(m, FALSE)
  /\ UNCHANGED <<managerVars, periodicLoop, handler, objectVars, breaching>>

\* After the patch, done or failed: a breach is passed on to the handler.
Patched(m) ==
  IF breachLoop[m].past
  THEN BreachLoopAt(m, At("select")) /\ UNCHANGED senders
  ELSE BreachLoopAt(m, At("send")) /\ Send(m, "breach")

PatchBreached(m) ==
  /\ breachLoop[m].at = "patch"
  /\ Write(m[1], ~breachLoop[m].past)
  /\ handler' = Outdated(m[1])
  /\ Patched(m)
  /\ UNCHANGED <<managerVars, periodicLoop, acquirers, queued, breaching, budget>>

PatchBreachedFails(m) ==
  /\ breachLoop[m].at = "patch"
  /\ Spend("event")
  /\ Patched(m)
  /\ UNCHANGED <<managerVars, periodicLoop, acquirers, handler, objectVars, breaching>>

--------------------------------------------------------------------------------
(***************************************************************************)
(* requeueAfterFixedInterval of monitor m.                                 *)
(***************************************************************************)
\* Fault for the mutants: the loop goes on after its context is cancelled.
PeriodicNotDone(m) ==
  /\ periodicLoop[m] = "select"
  /\ m \in cancelled
  /\ UNCHANGED vars

PeriodicDone(m) ==
  /\ periodicLoop[m] = "select"
  /\ m \in cancelled
  /\ periodicLoop' = [periodicLoop EXCEPT ![m] = "ended"]
  /\ UNCHANGED <<managerVars, breachLoop, acquirers, senders, handler, objectVars, breaching, budget>>

PeriodicTick(m) ==
  /\ periodicLoop[m] = "select"
  /\ Spend("event")
  /\ periodicLoop' = [periodicLoop EXCEPT ![m] = "send"]
  /\ Send(m, "periodic")
  /\ UNCHANGED <<managerVars, breachLoop, acquirers, handler, objectVars, breaching>>

--------------------------------------------------------------------------------
(***************************************************************************)
(* The handler's goroutine, queuePolicyRecommendations.  A request whose   *)
(* read or Update fails is dropped.                                        *)
(***************************************************************************)
HandlerAt(place) == handler' = [handler EXCEPT !.at = place, !.latest = FALSE]

\* The sender goes on as soon as its request is received.
Receive ==
  /\ handler.at = "receive"
  /\ senders # << >>
  /\ LET m == Head(senders)[1]
     IN  IF Head(senders)[2] = "breach"
         THEN BreachLoopAt(m, At("select")) /\ UNCHANGED periodicLoop
         ELSE /\ periodicLoop' = [periodicLoop EXCEPT ![m] = "select"]
              /\ UNCHANGED breachLoop
  /\ senders' = Tail(senders)
  /\ UNCHANGED <<managerVars, acquirers, objectVars, breaching>>

\* The copy comes from the cache and may be an old version.
HandlerGet ==
  /\ Receive
  /\ LET w == Head(senders)[1][1]
     IN  handler' = [at |-> "update", workload |-> w, latest |-> Len(versions[w]) = 1]
  /\ UNCHANGED budget

HandlerGetFails ==
  /\ Receive
  /\ Spend("event")
  /\ UNCHANGED handler

HandlerUpdate ==
  /\ handler.at = "update"
  /\ handler.latest
  /\ Write(handler.workload, Stored(handler.workload))
  /\ queued' = [queued EXCEPT ![handler.workload] = TRUE]
  /\ HandlerAt("patch")
  /\ UNCHANGED <<managerVars, loopVars, acquirers, senders, breaching, budget>>

HandlerConflicts ==
  /\ handler.at = "update"
  /\ ~handler.latest
  /\ HandlerAt("receive")
  /\ UNCHANGED <<managerVars, loopVars, acquirers, senders, objectVars, breaching, budget>>

HandlerPatch ==
  /\ handler.at = "patch"
  /\ Write(handler.workload, Stored(handler.workload))
  /\ HandlerAt("receive")
  /\ UNCHANGED <<managerVars, loopVars, acquirers, senders, queued, breaching, budget>>

HandlerFails ==
  /\ handler.at # "receive"
  /\ Spend("event")
  /\ HandlerAt("receive")
  /\ UNCHANGED <<managerVars, loopVars, acquirers, senders, objectVars, breaching>>

--------------------------------------------------------------------------------
ManagerStep ==
  \/ Stopped
  \/ \E w \in Workload : StopNext(w)

BreachStep(m) ==
  \/ BreachTick(m)
  \/ BreachGetFails(m)
  \/ HasBreached(m)
  \/ HasBreachedErrs(m)
  \/ PatchBreached(m)
  \/ PatchBreachedFails(m)

HandlerStep ==
  \/ HandlerGet
  \/ HandlerGetFails
  \/ HandlerUpdate
  \/ HandlerConflicts
  \/ HandlerPatch
  \/ HandlerFails

Next ==
  \/ ManagerStep
  \/ HandlerStep
  \/ Shutdown
  \/ \E w \in Workload :
       \/ RegisterMonitor(w)
       \/ DeregisterMonitor(w)
       \/ Deliver(w)
       \/ Consume(w)
       \/ ForeignWrite(w)
       \/ BreachStarts(w)
       \/ BreachEnds(w)
       \/ WindowPasses(w)
  \/ \E m \in Monitor :
       \/ BreachStep(m)
       \/ BreachDone(m)
       \/ PeriodicTick(m)
       \/ PeriodicDone(m)

Spec == Init /\ [][Next]_vars

(***************************************************************************)
(* Go runs every goroutine that can run, and the breach ticker ticks.  A   *)
(* cancelled loop comes back to its select again and again, where Done is  *)
(* chosen in the end: strong fairness.  No fairness of the periodic tick,  *)
(* which is hours away.  Of a workload's monitors one runs at a time       *)
(* (AliveAreRegistered), so that fairness for each of them is fairness for *)
(* the workload.                                                           *)
(***************************************************************************)
MonitorOf(w) == {w} \X (1..MaxMonitors)

Fairness ==
  /\ WF_vars(ManagerStep)
  /\ WF_vars(HandlerStep)
  /\ \A w \in Workload :
       /\ WF_vars(Deliver(w))
       /\ WF_vars(WindowPasses(w))
       /\ WF_vars(\E m \in MonitorOf(w) : BreachStep(m))
       /\ SF_vars(\E m \in MonitorOf(w) : BreachDone(m))
       /\ SF_vars(\E m \in MonitorOf(w) : PeriodicDone(m))

FairSpec == Spec /\ Fairness

--------------------------------------------------------------------------------
\* A monitor that runs: it is registered and its context is not cancelled.
Watched(w) == monitors[w] # 0 /\ <<w, monitors[w]>> \notin cancelled

Alive(m) ==
  breachLoop[m].at \notin {"none", "ended"} \/ periodicLoop[m] \notin {"none", "ended"}

\* The goroutines of a workload are those of its registered monitor: once
\* DeregisterMonitor has returned, none of them writes HasBreached or asks the
\* handler, and a monitor registered later is alone (Stop waits, monitor.go:349).
AliveAreRegistered ==
  \A m \in Monitor : Alive(m) => monitors[m[1]] = m[2]

\* A goroutine that is blocked is waited for: it stands exactly once in the queue of
\* the semaphore or of the channel, and nothing else stands there, so that no path
\* through a query or a patch loses a permit or sends twice (monitor.go:258-293).
BlockedAreQueued ==
  /\ IsInjective(acquirers) /\ IsInjective(senders)
  /\ \A m \in Monitor :
       /\ breachLoop[m].at = "acquire" <=> Contains(acquirers, m)
       /\ breachLoop[m].at = "send" <=> Contains(senders, <<m, "breach">>)
       /\ periodicLoop[m] = "send" <=> Contains(senders, <<m, "periodic">>)

\* A breach that lasts reaches the API server as a request, although the handler
\* drops requests on a conflict, as with the monitor's own patch of HasBreached
\* right before (monitor.go:277-282, trigger_handler.go:77), and although queries
\* that fail count as "no breach" (monitor.go:271).
BreachIsRequested ==
  \A w \in Loaded :
    (breaching[w] = "yes" /\ Watched(w))
      ~> (queued[w] \/ breaching[w] # "yes" \/ ~Watched(w))

\* Once breaches and faults are over, HasBreached of every watched workload says
\* whether it is breaching: the loop compares with a cached condition and patches
\* without retrying (monitor.go:248-293), and still ends up at the truth.
SettlesOnTruth ==
  <>[](\A w \in Workload : Watched(w) => (Stored(w) <=> breaching[w] = "yes"))

\* Shutdown and DeregisterMonitor return: the goroutines they wait for with the
\* lock held (monitor.go:346-350) are never stuck at the semaphore or the channel.
StopReturns == manager.stopping # None ~> manager.call = "none"
================================================================================

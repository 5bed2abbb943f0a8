------------------------- MODULE ConcurrencyControl -------------------------
(***************************************************************************)
(* Concurrency control of a regular-mode main process: the two queues of   *)
(* packages/cli/src/concurrency, the service that routes executions to     *)
(* them by mode, and the capacity reservation every ActiveExecutions.add   *)
(* makes for itself.                                                       *)
(*                                                                         *)
(* A "call" is one call of ActiveExecutions.add, with a reservation object *)
(* of its own.  Two calls may carry the same execution id: two requests    *)
(* that resume the same waiting execution both reserve before either is    *)
(* refused.                                                                *)
(*                                                                         *)
(* A definition whose comment starts with SLIP is not part of the model:   *)
(* it is the mistake a change to the definition after it could make, kept  *)
(* to show that the properties below would notice.                         *)
(***************************************************************************)
EXTENDS Integers, Sequences, FiniteSets

CONSTANTS
  Calls,            \* the calls of ActiveExecutions.add
  IdOf,             \* the execution id each call is made for
  ModeOf,           \* the execution mode of each call
  ProductionLimit,  \* N8N_CONCURRENCY_PRODUCTION_LIMIT
  EvaluationLimit,  \* N8N_CONCURRENCY_EVALUATION_LIMIT
  ExecutionsMode,   \* executions.mode: "regular" or "queue"
  MayRemove,        \* whether users stop executions that are still queued
  MayShutDown       \* whether the process is asked to shut down

UnthrottledModes == {"error", "integrated", "cli", "internal", "manual", "retry"}
ProductionModes == {"webhook", "trigger", "chat"}
Modes == UnthrottledModes \cup ProductionModes \cup {"evaluation"}

QueueTypes == {"production", "evaluation"}

\* What the constructor leaves in `limits`: anything below -1 becomes -1.
Normalised(limit) == IF limit < -1 THEN -1 ELSE limit

Limit == [t \in QueueTypes |->
            Normalised(IF t = "production" THEN ProductionLimit ELSE EvaluationLimit)]

\* Execution ids are unique, so every call for an id carries the mode stored
\* with that execution; a limit of zero is refused by the constructor.
ASSUME ConfigAssumption ==
  /\ IsFiniteSet(Calls)
  /\ ModeOf \in [Calls -> Modes]
  /\ \A c, d \in Calls : IdOf[c] = IdOf[d] => ModeOf[c] = ModeOf[d]
  /\ ProductionLimit \in Int \ {0}
  /\ EvaluationLimit \in Int \ {0}
  /\ ExecutionsMode \in {"regular", "queue"}
  /\ MayRemove \in BOOLEAN
  /\ MayShutDown \in BOOLEAN

VARIABLES
  enabled,   \* ConcurrencyControlService.isEnabled
  capacity,  \* ConcurrencyQueue.capacity, of each queue
  queue,     \* ConcurrencyQueue.queue: the calls whose promise is pending
  call       \* how far the reservation of each call got

ccVars == <<enabled, capacity, queue, call>>

\* idle:     add() was not called;          queued:   awaiting the queue's promise
\* granted:  throttle() resolved;           held:     acquiredReservation is set
\* released: release() gave it back;        orphaned: removed, its promise never settles
CallStates == {"idle", "queued", "granted", "held", "released", "orphaned"}

NoQueue == "none"

\* getQueue: a queue exists only for the types whose limit is positive.
ExistingQueue(t) == IF Limit[t] > 0 THEN t ELSE NoQueue

QueueOfMode(m) ==
  CASE m \in UnthrottledModes -> NoQueue
    [] m \in ProductionModes -> ExistingQueue("production")
    [] OTHER -> ExistingQueue("evaluation")

QueueOf(c) == QueueOfMode(ModeOf[c])

\* SLIP: disable() is not looked at.
LimitedEvenIfDisabled(c) == QueueOf(c) # NoQueue

\* The guard at the head of throttle, release and remove.
Limited(c) == enabled /\ QueueOf(c) # NoQueue

\* The calls that occupy capacity of a queue.
Holders(t) == {c \in Calls : QueueOf(c) = t /\ call[c] \in {"granted", "held"}}

Orphans(t) == {c \in Calls : QueueOf(c) = t /\ call[c] = "orphaned"}

\* has(executionId)
Has(id) == enabled /\ \E t \in QueueTypes : \E i \in DOMAIN queue[t] : IdOf[queue[t][i]] = id

CCInit ==
  /\ enabled = ((\E t \in QueueTypes : Limit[t] # -1) /\ ExecutionsMode # "queue")
  /\ capacity = Limit
  /\ queue = [t \in QueueTypes |-> <<>>]
  /\ call = [c \in Calls |-> "idle"]

-----------------------------------------------------------------------------
(***************************************************************************)
(* ConcurrencyQueue                                                        *)
(***************************************************************************)

\* SLIP: reads the head without shifting it off.
ResolveWithoutShift(t, items, states) ==
  /\ queue' = [queue EXCEPT ![t] = items]
  /\ call' = IF items = <<>> THEN states ELSE [states EXCEPT ![Head(items)] = "granted"]

\* resolveNext, on the queue content `items` and the call states `states`
\* that the operation calling it leaves.
ResolveNext(t, items, states) ==
  IF items = <<>>
  THEN /\ queue' = [queue EXCEPT ![t] = <<>>]
       /\ call' = states
  ELSE /\ queue' = [queue EXCEPT ![t] = Tail(items)]
       /\ call' = [states EXCEPT ![Head(items)] = "granted"]

\* SLIP: looks at the capacity before taking its unit.
EnqueueTestsTooEarly(t, c) ==
  /\ capacity' = [capacity EXCEPT ![t] = @ - 1]
  /\ IF capacity[t] < 0
     THEN /\ queue' = [queue EXCEPT ![t] = Append(@, c)]
          /\ call' = [call EXCEPT ![c] = "queued"]
     ELSE /\ call' = [call EXCEPT ![c] = "granted"]
          /\ UNCHANGED queue

\* enqueue: take a unit of capacity, and wait for it when there was none.
Enqueue(t, c) ==
  /\ capacity' = [capacity EXCEPT ![t] = @ - 1]
  /\ IF capacity[t] - 1 < 0
     THEN /\ queue' = [queue EXCEPT ![t] = Append(@, c)]
          /\ call' = [call EXCEPT ![c] = "queued"]
     ELSE /\ call' = [call EXCEPT ![c] = "granted"]
          /\ UNCHANGED queue

\* SLIP: counts the unit but wakes nobody.
DequeueResolvingNobody(t, states) ==
  /\ capacity' = [capacity EXCEPT ![t] = @ + 1]
  /\ call' = states
  /\ UNCHANGED queue

\* dequeue: give a unit back and resolve the promise at the head.
Dequeue(t, states) ==
  /\ capacity' = [capacity EXCEPT ![t] = @ + 1]
  /\ ResolveNext(t, queue[t], states)

DropAt(items, i) == SubSeq(items, 1, i - 1) \o SubSeq(items, i + 1, Len(items))

\* SLIP: forgets to give the unit of the dropped item back.
RemoveItemKeepingCapacity(t, i) ==
  /\ ResolveNext(t, DropAt(queue[t], i), [call EXCEPT ![queue[t][i]] = "orphaned"])
  /\ UNCHANGED capacity

\* remove: drop the first item with this id, then do what dequeue does.
RemoveItem(t, i) ==
  /\ capacity' = [capacity EXCEPT ![t] = @ + 1]
  /\ ResolveNext(t, DropAt(queue[t], i), [call EXCEPT ![queue[t][i]] = "orphaned"])

-----------------------------------------------------------------------------
(***************************************************************************)
(* ConcurrencyControlService and ConcurrencyCapacityReservation            *)
(***************************************************************************)

\* reserve(), up to the await of throttle().
Throttle(c) ==
  /\ call[c] = "idle"
  /\ \/ /\ Limited(c)
        /\ Enqueue(QueueOf(c), c)
     \/ /\ ~Limited(c)
        /\ call' = [call EXCEPT ![c] = "granted"]
        /\ UNCHANGED <<capacity, queue>>
  /\ UNCHANGED enabled

\* reserve(), after the await.
Acquire(c) ==
  /\ call[c] = "granted"
  /\ call' = [call EXCEPT ![c] = "held"]
  /\ UNCHANGED <<enabled, capacity, queue>>

\* ConcurrencyCapacityReservation.release: a reservation that was not
\* acquired, or was released before, is left alone.
Release(c) ==
  /\ call[c] = "held"
  /\ LET released == [call EXCEPT ![c] = "released"]
     IN \/ /\ Limited(c)
           /\ Dequeue(QueueOf(c), released)
        \/ /\ ~Limited(c)
           /\ call' = released
           /\ UNCHANGED <<capacity, queue>>
  /\ UNCHANGED enabled

\* remove(), as stopInRegularMode calls it: after has() said yes, with the
\* mode stored for the execution.
Remove(id) ==
  /\ MayRemove
  /\ enabled
  /\ \E t \in QueueTypes : \E i \in DOMAIN queue[t] :
       /\ IdOf[queue[t][i]] = id
       /\ \A j \in 1..(i - 1) : IdOf[queue[t][j]] # id
       /\ RemoveItem(t, i)
  /\ UNCHANGED enabled

\* ActiveExecutions.shutdown: disable(), then removeAll(), which returns at
\* once because isEnabled is already false.
Disable ==
  /\ MayShutDown
  /\ enabled
  /\ enabled' = FALSE
  /\ UNCHANGED <<capacity, queue, call>>

CCNext ==
  \/ \E c \in Calls : Throttle(c) \/ Acquire(c) \/ Release(c)
  \/ \E id \in {IdOf[c] : c \in Calls} : Remove(id)
  \/ Disable

CCSpec == CCInit /\ [][CCNext]_ccVars

\* Promise continuations run, and an execution that holds capacity ends.
CCFairness == \A c \in Calls : WF_ccVars(Acquire(c)) /\ WF_ccVars(Release(c))

CCFairSpec == CCSpec /\ CCFairness

-----------------------------------------------------------------------------
(***************************************************************************)
(* Properties                                                              *)
(***************************************************************************)

\* The types of the state.
TypeOK ==
  /\ enabled \in BOOLEAN
  /\ capacity \in [QueueTypes -> Int]
  /\ queue \in [QueueTypes -> Seq(Calls)]
  /\ call \in [Calls -> CallStates]

\* No wake-up is lost and none is sent twice: a call awaits the promise of
\* enqueue exactly when it stands, once, in the queue of its mode.
QueuedOnce ==
  \A t \in QueueTypes :
    /\ \A i, j \in DOMAIN queue[t] : queue[t][i] = queue[t][j] => i = j
    /\ {queue[t][i] : i \in DOMAIN queue[t]} =
         {c \in Calls : QueueOf(c) = t /\ call[c] = "queued"}

\* Every unit of capacity that is out is held by a call or waited for by one:
\* the counter of enqueue, dequeue and remove never drifts from the calls it
\* counts, however grants, releases and removals interleave.
CapacityAccounting ==
  enabled => \A t \in QueueTypes :
    capacity[t] = Limit[t] - Cardinality(Holders(t)) - Len(queue[t])

\* No execution waits while there is room: a queue is only non-empty when at
\* least as many calls as the limit allows hold capacity, so a queued
\* execution always has someone whose release() will move it on.
NoIdleCapacity ==
  enabled => \A t \in QueueTypes :
    queue[t] # <<>> => Cardinality(Holders(t)) >= Limit[t]

\* The limit is exceeded by at most one execution for every queued execution
\* that was removed: remove() resolves the next item although the dropped one
\* held no capacity, so the limit itself ("Max production executions allowed
\* to run concurrently", executions.config.ts:19) does not hold.
OverrunOnlyByRemoval ==
  enabled => \A t \in QueueTypes :
    Cardinality(Holders(t)) <= (IF Limit[t] > 0 THEN Limit[t] ELSE 0) + Cardinality(Orphans(t))

\* After disable() "throttled executions cannot resume during shutdown"
\* (active-executions.ts): no queued call is ever resolved again.
FrozenAfterDisable ==
  [][~enabled => \A c \in Calls : call[c] = "queued" => call'[c] = "queued"]_ccVars

\* Every queued execution is eventually let through or stopped, unless the
\* process shuts down first.
QueuedGetsThrough ==
  \A c \in Calls : call[c] = "queued" ~> (call[c] # "queued" \/ ~enabled)

\* The counters and promises of the two queues implement AdmissionControl,
\* which counts the executions themselves.
Admission == INSTANCE AdmissionControl WITH
  Clients <- Calls, Lanes <- QueueTypes,
  LaneOf <- [c \in Calls |-> QueueOf(c)], Room <- Limit,
  open <- enabled, line <- queue, inside <- [t \in QueueTypes |-> Holders(t)]

AdmissionSpec == Admission!Spec
=============================================================================

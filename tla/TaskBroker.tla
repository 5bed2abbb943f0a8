----------------------------- MODULE TaskBroker -----------------------------
(***************************************************************************)
(* Code tasks: the broker in an n8n process                                *)
(* (task-runners/task-broker/task-broker.service.ts), its local requester  *)
(* (task-managers/task-requester.ts) and the task runners that connect to  *)
(* it (@n8n/task-runner/src/task-runner.ts).                               *)
(*                                                                         *)
(* A runner sends offers, the broker matches each with a request and asks  *)
(* the runner to accept it as a task.  A task is identified here with the  *)
(* offer it was made for: acceptOffer uses each offer once.                *)
(*                                                                         *)
(* The requester lives in the broker's process.  What passes between the   *)
(* two after a runner's message is promise continuations, which run before *)
(* any timer or other message: it is part of the step for that message.    *)
(* Runners are reached over web sockets: a queue in each direction.        *)
(*                                                                         *)
(* Left out: data, RPC and node type requests of running tasks.            *)
(***************************************************************************)
EXTENDS Integers, Sequences, SequencesExt, FiniteSets

CONSTANTS
  Requests,       \* the calls of startTask
  Runners,        \* connections of runners; a process that restarts has a new one
  Launchers,      \* connections of the launcher, which only starts runners
  TypeOf,         \* the task type of each request and connection
  MaxConcurrency, \* of each runner
  MaxOffers,      \* how many offers are ever made
  MayExpire,      \* whether offers may outlive their validity
  Mode            \* N8N_RUNNERS_MODE: "internal" or "external"

Connections == Runners \cup Launchers
Offers == 1..MaxOffers
Types == {TypeOf[x] : x \in Requests \cup Connections}

ASSUME TaskBrokerAssumption ==
  /\ Requests # {} /\ Connections # {}
  /\ Requests \cap Connections = {}
  /\ Runners \cap Launchers = {}
  /\ TypeOf \in [Requests \cup Connections -> Types]
  /\ MaxConcurrency \in Nat \ {0}
  /\ MaxOffers \in Nat
  /\ MayExpire \in BOOLEAN
  /\ Mode \in {"internal", "external"}

VARIABLES
  pendingTaskOffers,
  pendingTaskRequests,
  inProgress,    \* the requests with acceptInProgress
  requestTimers, \* the requests whose timeout is set
  task,          \* what the broker knows of each task
  requestOf,     \* the request acceptOffer was called with
  taskTimers,    \* the tasks whose timeout is set
  requester,     \* where each startTask is
  assigned,      \* the task each startTask was told is ready
  conn,          \* state of each connection
  toBroker, toRunner,
  made,          \* how many offers have been made
  owner,         \* who made each
  slot           \* what the runner makes of the offer and its task

brokerVars == <<pendingTaskOffers, pendingTaskRequests, inProgress, requestTimers, task,
                requestOf, taskTimers>>
requesterVars == <<requester, assigned>>
runnerVars == <<made, owner, slot>>
netVars == <<conn, toBroker, toRunner>>
taskVars == <<brokerVars, requesterVars, runnerVars, netVars>>

\* none: of no request; accepting: acceptOffer awaits the runner;
\* running: in `tasks`; over: neither any more.
TaskStates == {"none", "accepting", "running", "over"}

\* openOffers (open), the TaskState of task-state.ts, finished (over)
SlotStates == {"none", "open", "waiting", "running", "cancelling", "timingOut", "over"}

\* in runningTasks
Busy == {"waiting", "running", "cancelling", "timingOut"}

NoTask == 0

TaskInit ==
  /\ pendingTaskOffers = <<>>
  /\ pendingTaskRequests = <<>>
  /\ inProgress = {}
  /\ requestTimers = {}
  /\ task = [o \in Offers |-> "none"]
  /\ requestOf \in [Offers -> {CHOOSE r \in Requests : TRUE}]
  /\ taskTimers = {}
  /\ requester = [r \in Requests |-> "idle"]
  /\ assigned = [r \in Requests |-> NoTask]
  /\ conn = [w \in Connections |-> "never"]
  /\ toBroker = [w \in Connections |-> <<>>]
  /\ toRunner = [w \in Connections |-> <<>>]
  /\ made = 0
  /\ owner \in [Offers -> {CHOOSE w \in Connections : TRUE}]
  /\ slot = [o \in Offers |-> "none"]

-----------------------------------------------------------------------------
(***************************************************************************)
(* Messages                                                                *)
(***************************************************************************)

\* A queue after msg was sent to it; a closed socket swallows it.
Sent(queues, w, msg) ==
  IF conn[w] = "up" THEN [queues EXCEPT ![w] = Append(@, msg)] ELSE queues

Msg(type, o) == [type |-> type, task |-> o]

\* The next message in a queue is of a type.
IsNext(queues, w, type) == queues[w] # <<>> /\ Head(queues[w]).type = type

\* The startTask that awaits the result of a task returns.
Answer(o) ==
  requester' = [r \in Requests |->
    IF requester[r] = "waiting" /\ assigned[r] = o THEN "done" ELSE requester[r]]

\* pendingTaskRequests without the first entry for a request
WithoutFirst(requests, r) ==
  IF Contains(requests, r) THEN RemoveFirst(requests, r) ELSE requests

-----------------------------------------------------------------------------
(***************************************************************************)
(* TaskBroker.settleTasks                                                  *)
(***************************************************************************)

\* One request of the loop: acceptOffer with the first offer of its type, if
\* there is one, up to where it waits for the runner.
Match(acc, r) ==
  LET fits == {k \in 1..Len(acc.offers) : TypeOf[owner[acc.offers[k]]] = TypeOf[r]} IN
  IF r \in acc.busy \/ fits = {} THEN acc
  ELSE LET k == CHOOSE i \in fits : \A j \in fits : i <= j
           o == acc.offers[k]
       IN [offers    |-> RemoveAt(acc.offers, k),
           busy      |-> acc.busy \cup {r},
           task      |-> [acc.task EXCEPT ![o] = "accepting"],
           requestOf |-> [acc.requestOf EXCEPT ![o] = r],
           queues    |-> Sent(acc.queues, owner[o], Msg("accept", o))]

\* The offers of a list that are in a set
Only(offers, keep) ==
  FoldLeft(LAMBDA list, o : IF o \in keep THEN Append(list, o) ELSE list, <<>>, offers)

\* The sets of offers expireTasks may leave.  An offer of the launcher does
\* not expire, and one that has just come is valid.
Unexpired(offers, justCame) ==
  {kept \in SUBSET ToSet(offers) :
     /\ justCame \subseteq kept
     /\ {o \in ToSet(offers) : owner[o] \in Launchers \/ ~MayExpire} \subseteq kept}

SettleTasks(offers, requests, justCame) ==
  \E kept \in Unexpired(offers, justCame) :
    LET end == FoldLeft(Match,
                 [offers |-> Only(offers, kept), busy |-> inProgress, task |-> task,
                  requestOf |-> requestOf, queues |-> toRunner], requests)
    IN /\ pendingTaskOffers' = end.offers
       /\ pendingTaskRequests' = requests
       /\ inProgress' = end.busy
       /\ task' = end.task
       /\ requestOf' = end.requestOf
       /\ toRunner' = end.queues

-----------------------------------------------------------------------------
(***************************************************************************)
(* The requester                                                           *)
(***************************************************************************)

\* startTask sends its request, which reaches taskRequested at once.
StartTask(r) ==
  /\ requester[r] = "idle"
  /\ requester' = [requester EXCEPT ![r] = "asked"]
  /\ requestTimers' = requestTimers \cup {r}
  /\ SettleTasks(pendingTaskOffers, Append(pendingTaskRequests, r), {})
  /\ UNCHANGED <<taskTimers, assigned, runnerVars, conn, toBroker>>

\* cancelTasks(executionId), for a task whose request was answered.
CancelTasks(r) ==
  LET o == assigned[r] IN
  /\ requester[r] = "waiting"
  /\ requester' = [requester EXCEPT ![r] = "canceled"]
  /\ task' = [task EXCEPT ![o] = "over"]
  /\ toRunner' = IF task[o] = "running" THEN Sent(toRunner, owner[o], Msg("cancel", o)) ELSE toRunner
  /\ UNCHANGED <<pendingTaskOffers, pendingTaskRequests, inProgress, requestTimers, requestOf,
                 taskTimers, assigned, runnerVars, conn, toBroker>>

-----------------------------------------------------------------------------
(***************************************************************************)
(* TaskBroker.onRunnerMessage                                              *)
(***************************************************************************)

Receive(w, type) ==
  /\ IsNext(toBroker, w, type)
  /\ toBroker' = [toBroker EXCEPT ![w] = Tail(@)]

ReceiveOffer(w) ==
  LET o == Head(toBroker[w]).task IN
  /\ Receive(w, "offer")
  /\ SettleTasks(Append(pendingTaskOffers, o), pendingTaskRequests, {o})
  /\ UNCHANGED <<requestTimers, taskTimers, requesterVars, runnerVars, conn>>

\* The rest of acceptOffer once the runner has accepted.
AcceptedTask(w, o) ==
  LET r == requestOf[o] IN
  /\ requestTimers' = requestTimers \ {r}
  /\ pendingTaskRequests' = WithoutFirst(pendingTaskRequests, r)
  \* "Failed to find task request"
  /\ \/ /\ ~Contains(pendingTaskRequests, r)
        /\ task' = [task EXCEPT ![o] = "running"]
        /\ UNCHANGED <<taskTimers, requesterVars, toRunner>>
  \* taskReady, the settings come back and are sent on
     \/ /\ Contains(pendingTaskRequests, r)
        /\ requester[r] = "asked"
        /\ requester' = [requester EXCEPT ![r] = "waiting"]
        /\ assigned' = [assigned EXCEPT ![r] = o]
        /\ task' = [task EXCEPT ![o] = "running"]
        /\ taskTimers' = taskTimers \cup {o}
        /\ toRunner' = Sent(toRunner, w, Msg("settings", o))
  \* taskReady, the requester does not know the request any more: rejectTask
     \/ /\ Contains(pendingTaskRequests, r)
        /\ requester[r] # "asked"
        /\ task' = [task EXCEPT ![o] = "over"]
        /\ toRunner' = Sent(toRunner, w, Msg("cancel", o))
        /\ UNCHANGED <<taskTimers, requesterVars>>

\* SLIP: an answer that comes after the 2 seconds counts.
ReceiveAcceptedLate(w) ==
  LET o == Head(toBroker[w]).task IN
  /\ Receive(w, "accepted")
  /\ AcceptedTask(w, o)
  /\ UNCHANGED <<pendingTaskOffers, inProgress, requestOf, runnerVars, conn>>

\* handleRunnerAccept.  After the 2 seconds the promise is rejected already.
ReceiveAccepted(w) ==
  LET o == Head(toBroker[w]).task IN
  /\ Receive(w, "accepted")
  /\ \/ task[o] = "accepting" /\ AcceptedTask(w, o)
     \/ /\ task[o] # "accepting"
        /\ UNCHANGED <<pendingTaskRequests, requestTimers, task, taskTimers, requesterVars, toRunner>>
  /\ UNCHANGED <<pendingTaskOffers, inProgress, requestOf, runnerVars, conn>>

\* handleRunnerReject
ReceiveRejected(w) ==
  LET o == Head(toBroker[w]).task IN
  /\ Receive(w, "rejected")
  /\ \/ /\ task[o] = "accepting"
        /\ task' = [task EXCEPT ![o] = "over"]
        /\ inProgress' = inProgress \ {requestOf[o]}
     \/ task[o] # "accepting" /\ UNCHANGED <<task, inProgress>>
  /\ UNCHANGED <<pendingTaskOffers, pendingTaskRequests, requestTimers, requestOf, taskTimers,
                 requesterVars, runnerVars, conn, toRunner>>

\* SLIP: the timeout of a deferred request is cleared and not set again.
ReceiveDeferredUntimed(w) ==
  LET o == Head(toBroker[w]).task
      r == requestOf[o] IN
  /\ Receive(w, "deferred")
  /\ task[o] = "accepting"
  /\ task' = [task EXCEPT ![o] = "over"]
  /\ inProgress' = inProgress \ {r}
  /\ requestTimers' = requestTimers \ {r}
  /\ pendingTaskRequests' = Append(pendingTaskRequests, r)
  /\ UNCHANGED <<pendingTaskOffers, requestOf, taskTimers, requesterVars, runnerVars, conn, toRunner>>

\* handleRunnerDeferred.  The request is pushed, whether or not it is in
\* pendingTaskRequests already.
ReceiveDeferred(w) ==
  LET o == Head(toBroker[w]).task
      r == requestOf[o] IN
  /\ Receive(w, "deferred")
  /\ \/ /\ task[o] = "accepting"
        /\ task' = [task EXCEPT ![o] = "over"]
        /\ inProgress' = inProgress \ {r}
        /\ requestTimers' = requestTimers \cup {r}
        /\ pendingTaskRequests' = Append(pendingTaskRequests, r)
     \/ /\ task[o] # "accepting"
        /\ UNCHANGED <<task, inProgress, requestTimers, pendingTaskRequests>>
  /\ UNCHANGED <<pendingTaskOffers, requestOf, taskTimers, requesterVars, runnerVars, conn, toRunner>>

\* taskDoneHandler and taskErrorHandler
EndTask(o) ==
  \/ /\ task[o] = "running"
     /\ task' = [task EXCEPT ![o] = "over"]
     /\ taskTimers' = taskTimers \ {o}
     /\ Answer(o)
  \/ /\ task[o] # "running"
     /\ UNCHANGED <<task, taskTimers, requester>>

ReceiveEnd(w) ==
  LET o == Head(toBroker[w]).task IN
  /\ Receive(w, "end")
  /\ EndTask(o)
  /\ UNCHANGED <<pendingTaskOffers, pendingTaskRequests, inProgress, requestTimers, requestOf,
                 assigned, runnerVars, conn, toRunner>>

-----------------------------------------------------------------------------
(***************************************************************************)
(* The broker's timers and connections                                     *)
(***************************************************************************)

\* The 2 seconds acceptOffer waits for the runner.
AcceptTimeout(o) ==
  /\ task[o] = "accepting"
  /\ task' = [task EXCEPT ![o] = "over"]
  /\ inProgress' = inProgress \ {requestOf[o]}
  /\ UNCHANGED <<pendingTaskOffers, pendingTaskRequests, requestTimers, requestOf, taskTimers,
                 requesterVars, runnerVars, netVars>>

\* handleRequestTimeout, and requestExpired in the requester
RequestTimeout(r) ==
  /\ r \in requestTimers
  /\ requestTimers' = requestTimers \ {r}
  /\ pendingTaskRequests' = WithoutFirst(pendingTaskRequests, r)
  /\ requester' = IF Contains(pendingTaskRequests, r) /\ requester[r] = "asked"
                  THEN [requester EXCEPT ![r] = "expired"] ELSE requester
  /\ UNCHANGED <<pendingTaskOffers, inProgress, task, requestOf, taskTimers, assigned, runnerVars, netVars>>

\* handleTaskTimeout.  In internal mode the runner's process is killed, which
\* closes its connection.
TaskTimeout(o) ==
  /\ o \in taskTimers
  /\ \/ task[o] = "running" /\ EndTask(o)
     \/ task[o] # "running" /\ taskTimers' = taskTimers \ {o} /\ UNCHANGED <<task, requester>>
  /\ toRunner' = IF task[o] = "running" /\ Mode = "external"
                 THEN Sent(toRunner, owner[o], Msg("cancel", o)) ELSE toRunner
  /\ UNCHANGED <<pendingTaskOffers, pendingTaskRequests, inProgress, requestTimers, requestOf,
                 assigned, runnerVars, conn, toBroker>>

\* registerRunner
Connect(w) ==
  /\ conn[w] = "never"
  /\ conn' = [conn EXCEPT ![w] = "up"]
  /\ UNCHANGED <<brokerVars, requesterVars, runnerVars, toBroker, toRunner>>

\* The socket closes: what was on its way is lost, and the process is gone.
Close(w) ==
  /\ conn[w] = "up"
  /\ conn' = [conn EXCEPT ![w] = "closed"]
  /\ toBroker' = [toBroker EXCEPT ![w] = <<>>]
  /\ toRunner' = [toRunner EXCEPT ![w] = <<>>]
  /\ slot' = [o \in Offers |-> IF owner[o] = w /\ slot[o] # "none" THEN "over" ELSE slot[o]]
  /\ UNCHANGED <<brokerVars, requesterVars, made, owner>>

\* SLIP: only the offers of the runner are removed.
DeregisterKeepingTasks(w) ==
  /\ conn[w] = "closed"
  /\ conn' = [conn EXCEPT ![w] = "gone"]
  /\ pendingTaskOffers' = Only(pendingTaskOffers, {o \in Offers : owner[o] # w})
  /\ task' = [o \in Offers |-> IF owner[o] = w /\ task[o] = "running" THEN "over" ELSE task[o]]
  /\ UNCHANGED <<pendingTaskRequests, inProgress, requestTimers, requestOf, taskTimers,
                 requesterVars, runnerVars, toBroker, toRunner>>

\* removeConnection has found the reason of the disconnect: deregisterRunner.
\* Tasks the runner has not accepted yet are left to AcceptTimeout.
Deregister(w) ==
  /\ conn[w] = "closed"
  /\ conn' = [conn EXCEPT ![w] = "gone"]
  /\ pendingTaskOffers' = Only(pendingTaskOffers, {o \in Offers : owner[o] # w})
  /\ task' = [o \in Offers |-> IF owner[o] = w /\ task[o] = "running" THEN "over" ELSE task[o]]
  /\ requester' = [r \in Requests |->
       IF requester[r] = "waiting" /\ owner[assigned[r]] = w /\ task[assigned[r]] = "running"
       THEN "done" ELSE requester[r]]
  /\ UNCHANGED <<pendingTaskRequests, inProgress, requestTimers, requestOf, taskTimers, assigned,
                 runnerVars, toBroker, toRunner>>

-----------------------------------------------------------------------------
(***************************************************************************)
(* TaskRunner                                                              *)
(***************************************************************************)

Own(w, states) == {o \in Offers : owner[o] = w /\ slot[o] \in states}

\* SLIP: running tasks do not count.
OfferRegardless(w, slots, queues) ==
  \E stale \in SUBSET {o \in Offers : owner[o] = w /\ slots[o] = "open"} :
    LET open == {o \in Offers : owner[o] = w /\ slots[o] = "open"} \ stale
        new == {o \in Offers : made < o /\ o <= made + MaxConcurrency - Cardinality(open)}
    IN /\ stale = {} \/ (MayExpire /\ w \notin Launchers)
       /\ made' = made + Cardinality(new)
       /\ owner' = [o \in Offers |-> IF o \in new THEN w ELSE owner[o]]
       /\ slot' = [o \in Offers |->
            IF o \in new THEN "open" ELSE IF o \in stale THEN "over" ELSE slots[o]]
       /\ toBroker' = [queues EXCEPT ![w] = @ \o [i \in 1..Cardinality(new) |-> Msg("offer", made + i)]]

\* sendOffers: forgets stale offers and fills up to the concurrency.  The
\* launcher keeps one offer open.  Runs on the slots and queues that the
\* method that calls it leaves.
Offer(w, slots, queues) ==
  \E stale \in SUBSET {o \in Offers : owner[o] = w /\ slots[o] = "open"} :
    LET taken == {o \in Offers : owner[o] = w /\ slots[o] \in Busy \cup {"open"}} \ stale
        room == (IF w \in Launchers THEN 1 ELSE MaxConcurrency) - Cardinality(taken)
        new == {o \in Offers : made < o /\ o <= made + room}
    IN /\ stale = {} \/ (MayExpire /\ w \notin Launchers)
       /\ made' = made + Cardinality(new)
       /\ owner' = [o \in Offers |-> IF o \in new THEN w ELSE owner[o]]
       /\ slot' = [o \in Offers |->
            IF o \in new THEN "open" ELSE IF o \in stale THEN "over" ELSE slots[o]]
       /\ toBroker' = [queues EXCEPT ![w] = @ \o [i \in 1..Cardinality(new) |-> Msg("offer", made + i)]]

\* Every 250 ms while the connection is up.
SendOffers(w) ==
  /\ conn[w] = "up"
  /\ Offer(w, slot, toBroker)
  /\ UNCHANGED <<brokerVars, requesterVars, conn, toRunner>>

\* finishTask, which makes new offers.
FinishTask(o, queues) == Offer(owner[o], [slot EXCEPT ![o] = "over"], queues)

Take(w, type) ==
  /\ IsNext(toRunner, w, type)
  /\ toRunner' = [toRunner EXCEPT ![w] = Tail(@)]

\* offerAccepted
TakeAccept(w) ==
  LET o == Head(toRunner[w]).task IN
  /\ w \in Runners
  /\ Take(w, "accept")
  /\ \/ /\ Cardinality(Own(w, Busy)) >= MaxConcurrency
        /\ slot' = [slot EXCEPT ![o] = "over"]
        /\ toBroker' = Sent(toBroker, w, Msg("rejected", o))
     \/ /\ Cardinality(Own(w, Busy)) < MaxConcurrency
        /\ slot[o] # "open"
        /\ toBroker' = Sent(toBroker, w, Msg("rejected", o))
        /\ UNCHANGED slot
     \/ /\ Cardinality(Own(w, Busy)) < MaxConcurrency
        /\ slot[o] = "open"
        /\ slot' = [slot EXCEPT ![o] = "waiting"]
        /\ toBroker' = Sent(toBroker, w, Msg("accepted", o))
  /\ UNCHANGED <<brokerVars, requesterVars, made, owner, conn>>

\* The launcher defers the task until it has started a runner.
LauncherDefers(w) ==
  LET o == Head(toRunner[w]).task IN
  /\ w \in Launchers
  /\ Take(w, "accept")
  /\ slot' = [slot EXCEPT ![o] = "over"]
  /\ toBroker' = Sent(toBroker, w, Msg("deferred", o))
  /\ UNCHANGED <<brokerVars, requesterVars, made, owner, conn>>

\* receivedSettings
TakeSettings(w) ==
  LET o == Head(toRunner[w]).task IN
  /\ Take(w, "settings")
  /\ slot' = [slot EXCEPT ![o] = IF @ = "waiting" THEN "running" ELSE @]
  /\ UNCHANGED <<brokerVars, requesterVars, made, owner, conn, toBroker>>

\* taskCancelled
TakeCancel(w) ==
  LET o == Head(toRunner[w]).task IN
  /\ Take(w, "cancel")
  /\ \/ slot[o] = "waiting" /\ FinishTask(o, toBroker)
     \/ /\ slot[o] # "waiting"
        /\ slot' = [slot EXCEPT ![o] = IF @ = "running" THEN "cancelling" ELSE @]
        /\ UNCHANGED <<made, owner, toBroker>>
  /\ UNCHANGED <<brokerVars, requesterVars, conn>>

\* taskExecutionSucceeded, taskExecutionFailed
Executed(o) ==
  /\ slot[o] \in {"running", "cancelling", "timingOut"}
  /\ FinishTask(o, IF slot[o] = "cancelling" THEN toBroker ELSE Sent(toBroker, owner[o], Msg("end", o)))
  /\ UNCHANGED <<brokerVars, requesterVars, conn, toRunner>>

\* SLIP: a task that waits for its settings is aborted like one that runs.
TaskTimedOutAborting(o) ==
  /\ slot[o] \in {"waiting", "running"}
  /\ slot' = [slot EXCEPT ![o] = "timingOut"]
  /\ UNCHANGED <<brokerVars, requesterVars, made, owner, netVars>>

\* SLIP: a task that waits for its settings is left alone.
TaskTimedOutRunning(o) ==
  /\ slot[o] = "running"
  /\ slot' = [slot EXCEPT ![o] = "timingOut"]
  /\ UNCHANGED <<brokerVars, requesterVars, made, owner, netVars>>

\* taskTimedOut
TaskTimedOut(o) ==
  /\ \/ slot[o] = "waiting" /\ FinishTask(o, Sent(toBroker, owner[o], Msg("end", o)))
     \/ /\ slot[o] = "running"
        /\ slot' = [slot EXCEPT ![o] = "timingOut"]
        /\ UNCHANGED <<made, owner, toBroker>>
  /\ UNCHANGED <<brokerVars, requesterVars, conn, toRunner>>

-----------------------------------------------------------------------------

BrokerReceives(w) ==
  ReceiveOffer(w) \/ ReceiveAccepted(w) \/ ReceiveRejected(w) \/ ReceiveDeferred(w) \/ ReceiveEnd(w)

RunnerTakes(w) == TakeAccept(w) \/ LauncherDefers(w) \/ TakeSettings(w) \/ TakeCancel(w)

TaskNext ==
  \/ \E r \in Requests : StartTask(r) \/ CancelTasks(r) \/ RequestTimeout(r)
  \/ \E o \in Offers : AcceptTimeout(o) \/ TaskTimeout(o) \/ Executed(o) \/ TaskTimedOut(o)
  \/ \E w \in Connections : Connect(w) \/ Close(w) \/ Deregister(w) \/ SendOffers(w)
                              \/ BrokerReceives(w) \/ RunnerTakes(w)

TaskSpec == TaskInit /\ [][TaskNext]_taskVars

\* Messages arrive and timers fire.  Nothing makes a runner connect, offer,
\* or finish a task before its timeout.
TaskFairness ==
  /\ \A r \in Requests : WF_taskVars(RequestTimeout(r))
  /\ \A o \in Offers :
       /\ WF_taskVars(AcceptTimeout(o))
       /\ WF_taskVars(TaskTimeout(o))
       /\ WF_taskVars(TaskTimedOut(o))
  /\ \A w \in Connections :
       /\ WF_taskVars(BrokerReceives(w))
       /\ WF_taskVars(RunnerTakes(w))
       /\ WF_taskVars(Deregister(w))

TaskFairSpec == TaskSpec /\ TaskFairness

-----------------------------------------------------------------------------
(***************************************************************************)
(* Properties                                                              *)
(***************************************************************************)

Messages == [type : {"offer", "accept", "accepted", "rejected", "deferred", "settings",
                     "cancel", "end"}, task : Offers]

\* The types of the state.
TaskTypeOK ==
  /\ pendingTaskOffers \in Seq(Offers)
  /\ pendingTaskRequests \in Seq(Requests)
  /\ inProgress \subseteq Requests
  /\ requestTimers \subseteq Requests
  /\ task \in [Offers -> TaskStates]
  /\ requestOf \in [Offers -> Requests]
  /\ taskTimers \subseteq Offers
  /\ requester \in [Requests -> {"idle", "asked", "waiting", "done", "expired", "canceled"}]
  /\ assigned \in [Requests -> Offers \cup {NoTask}]
  /\ conn \in [Connections -> {"never", "up", "closed", "gone"}]
  /\ toBroker \in [Connections -> Seq(Messages)]
  /\ toRunner \in [Connections -> Seq(Messages)]
  /\ made \in 0..MaxOffers
  /\ owner \in [Offers -> Connections]
  /\ slot \in [Offers -> SlotStates]

\* "This function relies on never yielding" (settleTasks), and acceptOffer
\* yields for up to 2 seconds: however late runners answer, no two runners,
\* and no two slots of one, work for the same request while it is awaited.
OneTaskPerRequest ==
  \A o, p \in Offers :
    /\ requestOf[o] = requestOf[p]
    /\ task[o] \in {"accepting", "running"} /\ task[p] \in {"accepting", "running"}
    /\ requester[requestOf[o]] \in {"asked", "waiting"}
    => o = p

\* A startTask that awaits a result gets one whatever becomes of the runner:
\* the broker has its task, with a timeout set.
AwaitedTaskIsTimed ==
  \A r \in Requests : requester[r] = "waiting" =>
    /\ task[assigned[r]] = "running"
    /\ assigned[r] \in taskTimers

\* "These states should never happen, as they are handled already in the
\* other lifecycle methods and the task should be removed from the running
\* tasks" (receivedSettings).
SettingsAreExpected ==
  \A w \in Connections : IsNext(toRunner, w, "settings") =>
    slot[Head(toRunner[w]).task] \in {"waiting", "over"}

\* A runner never promises more than it can do: its open offers and its
\* tasks fit its concurrency, so an offer that is still open is not refused
\* for want of slots.
OffersFitConcurrency ==
  \A w \in Runners : Cardinality(Own(w, Busy \cup {"open"})) <= MaxConcurrency

\* Every startTask returns, with a result, an error or a timeout.
StartTaskReturns ==
  \A r \in Requests : requester[r] \in {"asked", "waiting"} ~> requester[r] \notin {"asked", "waiting"}

\* A runner's slot is not lost to a task that never gets its settings, be it
\* that the broker stopped waiting for the runner to accept it.
SlotComesBack ==
  \A o \in Offers : slot[o] = "waiting" ~> slot[o] # "waiting"
=============================================================================

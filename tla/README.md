# A TLA+ model of the n8n execution core

n8n runs workflows. This directory specifies the part of the server that decides
which execution runs, when, on whose capacity and in which process: how executions
are throttled, started, suspended, resumed, stopped and cut off, how code tasks are
handed to runners, which main of a multi-main deployment is in charge, how jobs
are shared between workers, in which order the nodes of one workflow run, and which of
them run again when a user runs a part of it. The modules are translated from the TypeScript under `src/packages`; a `cli/...` path
below stands for `src/packages/cli/src/...`.

A definition whose comment starts with `SLIP` is not part of a model. It is the
mistake a change to the definition after it could make, and shows that a property
would notice.

## 1. The system

### Components that are modelled

**Concurrency control** (`cli/concurrency/`). State: per execution type (production,
evaluation) a capacity counter and a FIFO of queued executions, and the flag
`isEnabled`. Operations: `throttle`, `release`, `remove`, `disable`, and the
reservation object that pairs the first two. Called by `ActiveExecutions.add` and
by its promise callbacks; a queued `add` continues in a promise continuation after
somebody else's `release`. Correct when: the counter never drifts, nobody queued is
forgotten or woken twice, the order is first come first served, nothing is resolved
after `disable`.

**Active executions, workflow runner, stopping, lifecycle hooks**
(`cli/active-executions.ts`, `cli/workflow-runner.ts`, `cli/executions/execution.service.ts`,
`cli/execution-lifecycle/`, `core/.../workflow-execute.ts` for its outcome and
cancellation). State: the registry, which maps an execution id to a record with its
status, the promise of its result and the running workflow; the row of each
execution in the database (status and execution data); timers. Operations: `run`,
`add`, `attachWorkflowExecution`, `finalizeExecution`, `stopExecution`, `stop`,
`shutdown`, and the hooks that save. They interact by callbacks on promises that
look the record up by id, and through the row, whose conditional update
(`requireStatus: 'waiting'`) is the only lock between two resumes. Correct when: the
nodes of an execution never run twice at once, no row stays at `running` without
anybody to change it, capacity is given back once, what runs can be listed and
cancelled.

**Crash recovery and startup** (`cli/eventbus/message-event-bus/`,
`cli/executions/execution-recovery.service.ts`, `cli/commands/start.ts`). State: the
event log on disk, the rows, the pass over unfinished executions. Operations: a
crash, `initialize` in its two recovery modes, `recoverFromLogs`,
`runEnqueuedExecutions`. The pass runs while wait timers and web requests are already
served. Correct when: what had finished or waited is left as it was, what was cut off
does not stay at `running`, what was enqueued is run.

**Task broker, requester, runner** (`cli/task-runners/`, `@n8n/task-runner/`). State:
pending offers and requests, tasks and their timers on the broker; one promise per
`startTask` on the requester; offers and tasks on the runner; queues of messages.
Operations: offers, requests, matching, acceptance with a timeout of two seconds,
settings, results, cancellation, disconnects. Correct when: one task per request,
every `startTask` returns, runners neither over-commit nor leak slots.

**Leader election** (`cli/scaling/multi-main-setup.ee.ts`). State: a key in Redis with
a time to live, the role each main believes to have. Operations: election at boot,
a check at an interval, takeover and stepdown with their events, shutdown. Correct
when: at most one leader, and a leader again after any failure.

**Wait tracker** (`cli/wait-tracker.ts`). State: a polling interval and a timer for
each execution whose wait ends soon. It is started and stopped by the events of the
election, at boot and at shutdown, and resumes executions through
`WorkflowRunner.run`. Correct when: each waiting execution is resumed, whichever
main is in charge then.

**Queue mode** (`cli/scaling/scaling.service.ts`, `job-processor.ts`, with
`enqueueExecution` and `stopInScalingMode`). State: the row of an execution, its job in
a Bull queue, the main that watches the job, the worker that runs it, and on each main
a chain of timers for the recovery of executions without a job. Messages to workers
travel as progress of a job and may never arrive. It meets leader election in the
events that start and stop the recovery. Correct when: an execution is taken by one
worker, once, whatever stalls or crashes; a success is not overwritten by a failure
report; nothing stays in progress; recovery runs on the leader, once.

**Workflow engine** (`core/.../workflow-execute.ts`). State: the node stack, the entries
of nodes that wait for several inputs, the runs of each node. Operations: the loop,
`addNodeToBeExecuted`, the search for waiting nodes when the stack is empty, errors,
waits, resumes, retries, cancellation. Correct when: whatever a node sends is used
once or waits in one place, and nodes do not wait for each other for ever.

**Partial execution** (`runPartialWorkflow2` and `core/.../partial-execution-utils/`). The
user runs a workflow up to one node, with the data of an earlier run. No state of its own:
a chain of algorithms on the graph of the workflow and the data of the run, each working on
what the one before it made. Operations: find a trigger, cut out the part that leads to the
destination, without disabled nodes; find the nodes to start from; move those that are
inside a loop to its beginning; delete the data of what runs again; recreate the stack and
the waiting entries of the engine. Correct when: no data survives that depends on what runs
again, everything without data is run, and each item of the earlier run is used once.

**Workflow activation** (`cli/active-workflow-manager.ts`, `core/.../active-workflows.ts`,
`cli/workflows/workflow.service.ts`). State: the active version in the row of a workflow;
in each main the triggers that listen, the entry that refers to them and the queue of
activations to try again; commands on their way between mains. Operations: a pass over all
active workflows at the start and at takeover, `add` and `remove`, with several mains by
publishing a command, retries, `emitError` of a trigger, stepdown. Correct when: the
triggers of the active version listen on the leader, once, and nowhere else.

### Components that are not modelled

| Component | State and operations | What would make it correct | Why not here |
|---|---|---|---|
| Publish/subscribe | none of its own; messages between instances may be lost | commands are delivered to those they name | jobs' messages are in QueueMode, the commands that add and remove workflows in WorkflowActivation; others are left out |
| Pruning, workflow history compaction | timers of the leader | one deletion pass at a time | SQL decides the rest |
| Insights | buffer of counted executions, flush and compaction | no count lost or doubled | a candidate for a small module |
| Push, collaboration | connections, who edits what, with a time to live | user interface only | a candidate for a small module |
| Task runner processes | child process, health checks, restart detection | restarts do not loop | operating system I/O |
| Webhooks | routes, test webhooks with a timeout | a request reaches one execution | HTTP I/O; its calls of `run` are in ExecutionLifecycle |
| Shutdown service, crash journal | ordered callbacks; a marker file | every callback is awaited | sequential |
| Cache, configuration | keys and values | - | no protocol between callers |
| Users, roles, sign-on, licences, credentials, secrets, source control, REST API, migrations | rows | - | requests against the database, one at a time |
| Workflow package, expressions | data structures | - | no state across steps |
| Nodes, AI nodes, editor, tools, tests | - | - | integrations and user interface |

`PROJECT.json` lists all of them with their sources, and, under `hazards`, every
place in the code that is hard to test with the property that would catch it.

### What is hard about it

- Every `await` is a place where anything else may run: two resumes, a stop, a
  timeout, the end of an earlier run of the same execution, a shutdown.
- Records are looked up again by id in promise callbacks, when another record may
  stand there.
- The database, the event log and the memory of the process change at different
  times, and a crash keeps two of the three.
- Messages of runners arrive after the broker stopped waiting for them.
- A main acts on an old answer about who is leader, and events are emitted before
  anybody listens.

## 2. Modules

```
AdmissionControl      <--(refinement)--  ConcurrencyControl
                                            ^ EXTENDS
                                         ExecutionLifecycle      TaskBroker
                                            ^ EXTENDS
                                         ProcessRestart          LeaderElection
                                                                    ^ EXTENDS
                                                                 WaitTracking

JobBoard              <--(refinement)--  QueueMode               WorkflowEngine

PartialExecution                         WorkflowActivation
```

The `MC...` modules give the constants small values, the `...Proofs` modules hold the
theorems.

**ConcurrencyControl.** `capacity` and `queue` are the fields of the two
`ConcurrencyQueue`s, `enabled` is `isEnabled`; `call` says how far a call of
`add()` got with its reservation: queued, granted (the promise is resolved, the
continuation has not run), held, released, or orphaned (its queue item was removed,
so it waits for ever). `Throttle`, `Acquire`, `Release`, `Remove`, `Disable` are the
methods of the same names; `Enqueue`, `Dequeue`, `ResolveNext`, `RemoveItem` are
`concurrency-queue.ts`, including the decrement before the test and the `resolveNext`
after a removal. Two calls may carry one execution id.

**AdmissionControl** is what it promises, with neither counters nor promises: lanes
with room, a line in front of each, and doors that close. `AdmissionSpec` states the
refinement: `line` is the queue, `inside` the calls that were granted or hold
capacity.

**ExecutionLifecycle.** `row` is the execution entity (status, and as `step` how many
waits the saved data is past); `stage` the await each call of `run()` is at; `entry`,
`record`, `promise`, `attached` are the registry; `stopping` is a user's stop
request. The actions are the stretches of code between two awaits: `Create` to
`Register` are `add()`, `CheckFails` to `Return` are `run()` and `runMainProcess()`,
with `StartFails` and `Bury` for a workflow that has issues and does not start (its
promise is settled before the hook stores the error),
`Pause` to `Save` the end of `WorkflowExecute` with its hooks, `Settle` the
`.finally` of the record, `AskToStop` to `StoreStopped` the stop of an execution,
`TimeOut` and `ShutDown` the rest. `Reserve`, `Proceed`, `Settle`, ... contain the
actions of `ConcurrencyControl` they call, so one state holds both components.

**ProcessRestart** adds the event log, a crash at any state, the recovery pass in
both modes, step by step (read, write `crashed`, run the hooks), and the start of
executions left enqueued. A graceful restart leaves the same rows and log as a crash
at that point, so it needs no action of its own.

**TaskBroker** holds broker, requester and runners, with a message queue per
direction of each web socket. A task is identified with the offer it was made for.
Between `acceptOffer`'s await and the runner's answer everything else may happen.
The requester lives in the broker's process: what passes between them is part of the
step for the message that caused it.

**LeaderElection.** `key` is the Redis key, `role` what each main believes, `check`
the answer it awaits or has yet to handle, `boot` how far its start or shutdown is.
Sending a command, its execution by Redis and the handling of the answer are steps
of their own where they can matter: `SetKey` then `Win` or `Lose`, `ReadKey` then
`Renew`, `Yield` or `Compete`.

**WaitTracking** puts a wait tracker on each main: `Win`, `Yield` and `Compete` emit
their events, which are lost before `registerEventHandlers` has run (`Heard`, `Unheard`), and
the tracker starts and stops in the same step as a handler that is called
synchronously does. `tracking` is the interval `mainTimer` refers to, `strays` the mains
with an interval that an earlier `startTracking` has set and nothing refers to any more:
`stopTracking` clears the first kind only, and both poll (`Polls`). `uninformed` holds
the mains whose handlers were not told of their last change of role. `timer` distinguishes
no entry, a set timer and an entry whose timer was cleared, as `waitingExecutions` does.

**QueueMode.** `row`, `call` and `record` are the execution on the main that enqueues
it, `job` what Bull knows, `work` how far each worker's `processJob` is, `saving` the
cancel hooks that have yet to save, `stop`, `aborts` and `cancel` a user's stop on its
way through `stopInScalingMode`, the message to the worker and `stopJob`. Each await of
these functions separates two actions. A run stays in `runningJobs` (`Registered`) after
its outcome is stored, until the hooks that follow have run (`Deregister`), and an abort
that arrives before that cancels it. A pass of recovery reads `BatchSize` executions,
whichever: the code takes those that started last. `chain`, `found` and `latest` are the queue
recovery: the timers and passes of a main, the ids each pass has read, and the one
timer `queueRecoveryContext.timeout` refers to. That leadership belongs to one main at a
time is taken from LeaderElection. Bull itself is external and modelled by what the
calls in `scaling.service.ts` rely on.

**JobBoard** is what queue mode promises: an execution is posted once, withdrawn or
taken by one worker, and its nodes start at most once. `TakenOnce` states the
refinement: the offer is the job's state, the taker the worker that has ever handled it.

**WorkflowEngine.** Data is abstracted to deliveries: what one run of a node sent over
one edge. `stack`, `waiting`, `keyed` and `runs` are `nodeExecutionStack`,
`waitingExecution` with the order of its keys, and `runData`; `pending` is `nodesToAdd`.
`RunNode` to `Cancel` are the loop, `Fail` to `Succeed` what a node's run comes to after
all its tries, `AddToStack`, `AddLast` and `AddToWaiting` the branches of
`addNodeToBeExecuted`, `GoOn` and `TakeWaiting` the search for a waiting node, `Resume`
and `Retry` the starts from saved data. An index is chosen as the code does, by
counting entries (`WaitingIndex`).

**PartialExecution.** `request` is what `runPartialWorkflow2` is called with; `trigger`,
`graph`, `runData`, `startNodes`, `stack` and `waiting` are its local variables. Its
numbered steps are the actions, from `FindTrigger` to `RecreateStack`; the functions they
call are operators with the names of the code, over graphs that list nodes and connections
in the order of insertion, since what a search finds depends on it. A loop of the code is a
fold; a recursive function of the code is a function of how deep it may still go, where
`Depth` is more than any search needs, for none enters a node twice (the proofs show that).
Where the order of a search cannot matter (`Downstream`, `Upstream`) the result is stated as
a closure. Of a run only the outputs with items are kept. Step `refused` is the error shown to the user, `failed` an assertion of the code.
The properties use nothing of these algorithms but reachability.

**WorkflowActivation.** `row` is `activeVersionId`, `user` a request on its way through
`workflow.service.ts`; `entry` and `queued` are `activeWorkflows` and
`queuedActivations`; `listening` is what was started and not closed, whether or not an
entry still refers to it. `add` and `remove` hold the calls in progress by caller: the
pass, a request or command, a retry; a request or command, a stepdown, an error. Each
await of these functions separates two actions; the role is looked at once (`Go`).
`astray` and `skipped` are history: the mains where an activation was crossed by another
call, and the leaders whose pass was skipped. That one main leads at a time is taken from
LeaderElection.

## 3. Constants that stand for the environment

| Constant | Meaning | Values checked |
|---|---|---|
| `MayRemove` | users stop executions | both |
| `MayShutDown` | the process is shut down | both |
| `MayTimeOut` | workflows have a timeout | both |
| `ResumeOverlaps` | a resume may reach the database while the run that put the execution to wait still has to return | both; see section 6 |
| `MaxWaits` | how often one execution waits | 1: one wait, one resume, and a second resume that must fail |
| `RecoveryModes` | `N8N_EVENTBUS_RECOVERY_MODE` | both |
| `ServesWhileBooting` | timers and requests arrive before recovery ends | FALSE: what happens otherwise is in section 6 |
| `MaxOffers`, `MaxConcurrency` | offers made in a behaviour, slots of a runner | 3 and 2: one offer more than slots |
| `MayExpire` | offers outlive their validity | TRUE, which allows all that FALSE does |
| `HostIds` | whether a restarted main keeps its host id, as a container does | both in one run |
| `ChecksWhileBooting` | a check falls due before the event handlers are registered | TRUE, which allows all that FALSE does |
| `Concurrency` | jobs a worker handles at a time | 1 |
| `BatchSize` | executions a pass of queue recovery reads | 1, with one execution; see below for two |
| `Chains` | names for chains of recovery timers on a main | 2: one that leaks and one more |
| `MaxUpsets` | in LeaderElection: crashes, shutdowns, lost keys; in QueueMode: stops, crashes, stepdowns, lost locks, failed calls; in WorkflowEngine: failures, waits, cancellations; in WorkflowActivation: users' requests, failures, crashes, stepdowns | 2; 2; 3 and 2; 2 |
| `Flows` | the workflows, each with its nodes, edges, filter and destination | five, and one for `engine_overwrite` |
| `MaxRuns` | after so many runs a node sends nothing, which ends loops | 3 |
| `Families` | the partial runs a user may ask for, each family a set of values per field of the request | seven families, below |

## 4. Runs

| Run | Result | What it shows |
|---|---|---|
| `cc` | holds | Accounting, wake-ups, first come first served, the freeze at shutdown, progress, and the refinement of AdmissionControl. Six calls (four production, two of them of one execution; one evaluation; one manual), limit one: a queue of three forms, with a removal at its head, middle and end. |
| `life_race` | holds | One execution, a call that starts it and two that resume it, with overlapping runs, stops, timeout and shutdown: its nodes never run twice at once, its row never stays at `running`, every use of the concurrency control is a legal one. |
| `life_calm` | holds | Two executions and a resume under a limit of one, without stops, timeouts and overlaps: what runs is listed and cancellable, within the limit, gives its capacity back and reaches an outcome. |
| `restart_recovery` | holds | One execution with stops, timeouts, a wait and two resumes, cut off in every state, then recovered in either mode. |
| `task` | holds | Two requests, a launcher that defers, a runner with two slots whose offers expire and that may disconnect at any moment. |
| `task_live` | holds | The same with one request: every `startTask` returns and no slot is lost. |
| `leader` | holds | Two mains that boot, any two of a crash, a shutdown and a lost key, restarts with the same or a new host id, and one waiting execution: one leader, a leader in the end, the interval a tracker refers to is set where the leader is, and waits are resumed as long as no key is lost. |
| `queue` | holds | One execution, two workers, two mains, and any two of a stop, a crash of a worker or a main, a stepdown, a lost lock, a failed call, with messages that may get lost: the refinement of JobBoard, a success that stands, recovery where the leader is, and an end for every execution. |
| `engine` | holds | Five workflows with joins, with any outputs and three failures, waits or cancellations: what is sent is in one place, and nobody is left waiting who could go on. |
| `engine_overwrite` | violated | Section 6. |
| `partial` | holds | Some 120,000 partial runs, all steps of each: no stale data survives, what is missing is run, earlier items are used once, no assertion fails but in two known cases. |
| `activation` | holds | One workflow, two mains (or one without leader election), and any two of a user's request, a failed activation, a failing trigger, a crash, a stepdown: it listens on the leader only, in the active version, and a leader that stays does listen in the end. |

Why these bounds are enough. In `cc` two calls would not queue and four are needed
for a removal between two others; a limit above one adds states but no new order,
and the theorems cover every limit. In `life_race` a third resume would be refused
by the same conditional update as the second, and the theorems cover any number. A
second crash in `restart_recovery` would repeat the pass from rows the first one
left. In `task` the interesting cases are two requests for one offer, two offers for
one request, and an offer that is late: two requests and three offers have them all.
In `leader` two upsets give every order of three changes of leadership, also the two lost keys
that make a stray interval poll on a main that was told to step down; the theorems cover any
number of upsets and of mains.

In `queue` executions share nothing but the slots of the workers and the batches of recovery,
so one is enough for what happens to an execution. TLC finds `ProgressEnds` to hold
of two as well, which share a worker and a batch of one, with one main and one upset, on a
configuration that is not kept. For one execution two upsets give every order of a failure
and the reaction to it, and the theorems cover any number of executions, workers, mains and upsets.
The five workflows of `engine` are the shapes in which nodes wait: a condition whose
other branch ends, a destination with a filter, a join behind a join, two sources for
each input, and a loop that feeds a join on every round.

The families of `partial`: every graph of a trigger, two nodes and the destination, with any
nodes run, one changed, one pinned, or both disabled; every graph of three nodes between
trigger and destination, so that loops lie within loops; joins with two inputs behind a
condition; a loop node with what it loops over, at any point of its loop; nodes with
sub-nodes; an agent that may be on a branch without a trigger and shares its sub-node with
the destination; several triggers, or none. Two nodes between trigger and destination are enough
for a loop that is entered in the middle, for a path around a changed node and for disabled
neighbours; the third one is for loops that share nodes.

In `activation` workflows share nothing but the pass; two upsets are a failure and what
disturbs its retry, a request and what disturbs it, or two takeovers. It starts with all mains
in their first pass; a crash brings back the moments before it.

Deadlock is checked in `leader`. The others have behaviours that end
when all calls, requests or executions are done.

## 5. Fairness

All fairness is weak and put on what the runtime does of itself.
`CCFairness`: promise continuations run and executions that hold capacity end.
`LifecycleFairness`: continuations run, the database answers, nodes end; nothing
makes a user act or a timeout fire.
`TaskFairness`: messages arrive and timers fire; a runner need not offer, finish or
answer, so every `startTask` returns by a timer if by nothing else.
`TrackingFairness`: a main that is down is started again by its supervisor, a main
that runs goes on, intervals and timers fire, and a key nobody renews expires. A
stall is an action of its own without fairness: nothing makes a leader lose its key.
`QueueFairness`: handlers go on, nodes end, an idle worker takes a waiting job, Bull
looks for stalled jobs, timers fire, mains boot and one of them leads. Nothing makes a
user stop an execution or a message arrive: an aborted job ends because the watcher
fails it. WorkflowEngine has no liveness property; PartialExecution is sequential, ends by
its steps and needs no fairness. `Progress` of WorkflowActivation: what is awaited answers,
commands arrive, retries fire, a main that ended starts again; nothing makes a main leader.

## 6. Where the code disagrees with what it says

- **`engine_overwrite`.** A new entry of `waitingExecution` gets the number of entries as
  its index (`workflow-execute.ts:466`), and complete entries are deleted. When entry 0
  of two is completed, the next new entry replaces entry 1 with its data. The comment at
  line 472 says "create a new entry". It takes three nodes that send to one input of a
  join and one, in between, that sends to the other. Two sources for an input are enough
  for a join in a loop that has three inputs and can do with one: of two entries the
  search for a waiting node takes the first, the other one gets its second input and
  goes on waiting for the third, and the next new entry replaces it. `FewSent`
  excludes both.

Known from the models, without a run of their own. The first eight were found by TLC
as violations of properties that are no longer among the runs, whose number is kept
small:

- `startTracking` sets a new interval without clearing the one `mainTimer` refers to
  (`wait-tracker.ts:50`), and `stopTracking` clears the last one only (line 174). A main that
  leads when its tracker starts, loses its key before its handlers are registered, wins again
  once they are, and steps down, still polls and sets timers as a follower, although its handler
  was told of the stepdown. It takes two lost keys. `multi-main-setup.ee.ts:14` says of
  `leader-stepdown`: "Emitted when this instance loses leadership. In response, its various
  services will stop triggers, pollers, pruning, wait-tracking, ...". So `TracksAsLeader` is
  about the interval `mainTimer` refers to, and says that there is no other before a leader has
  lost its key; `strays` names the mains it happened to.
- A run on a worker stays in `runningJobs` while the hooks that follow the write of its
  outcome are awaited (`job-processor.ts:251`). An abort-job that arrives then finds it
  there, and the cancel handler saves canceled over a success that is stored
  (`workflow-execute.ts:1454`). `SuccessStands` has an abort on its way to a registered run
  among its exceptions (`Undisputed`).
- `runEnqueuedExecutions` passes executions with status `new` to `run()`, and `add()`
  updates an existing execution only if it is `waiting` (`active-executions.ts:103`): each
  one is refused and stays `new`. `start.ts:358` says they are started.
- `stopTracking` clears the timers of `waitingExecutions` and keeps the entries
  (`wait-tracker.ts:175`), and `getWaitingExecutions` skips executions that have one. A
  leader that loses its key once and takes it again never resumes what it had timed
  (`wait-tracker.ts:73`: "Add timers for each waiting execution that they get started at
  the correct time"). `WaitIsResumedInPeace` excludes lost keys.
- The recovery pass reads a waiting execution, a timer or a web request resumes it
  (`start.ts:228` comes before the recovery), and the pass stores `waiting` over it
  (`execution-recovery.service.ts:109`): a second resume passes the test of
  `active-executions.ts:110`, and the nodes run twice at once.
- `putExecutionToWait` sets the status of the record to waiting while the workflow still
  runs. A stop in that moment deletes the record, as for an execution that really
  waits ("If execution is waiting, we can just remove it", `active-executions.ts:204`),
  and its promise and its capacity are never settled.
- A request times out while the runner is asked to accept it. The broker removes the
  request although it is marked in progress (`task-broker.service.ts:106`); when the
  runner accepts, the task stays without a request and without a timeout.
- Queue recovery marks as crashed what was in progress in the database before it read
  the jobs (`scaling.service.ts:513`), so an execution that succeeds in between ends as
  crashed. `SuccessStands` has this among its exceptions.
- A stepdown while a pass of queue recovery awaits the database clears a timeout that
  has fired already, and the pass sets the next one on a follower
  (`scaling.service.ts:463`); a main that takes over between the registration of its
  handlers and `setupQueue` starts two chains of timers and can stop one.
  `multi-main-setup.ee.ts:16` lists recovery among what only the leader does.
  `RecoveryFollowsLeadership` exempts those mains by name (`leaked`).

- Stopping a queued execution wakes the next one although no capacity came back, so
  more executions run than the limit. `OverrunOnlyByRemoval` states, and the theorem
  of that name proves, that nothing else exceeds the limit, and by how much.
- With `ResumeOverlaps` TRUE and a `ProductionLimit` of 2 in `life_calm`,
  `RunningIsListed` fails: a resume that replaced the record before the earlier run
  returned has it finalized by that run. A stop or a timeout breaks it as well, and with
  it `WorkflowsWithinLimit`: both take the record away, and give the capacity back,
  before the nodes have ended.
- The extensive recovery amends nothing when the log holds the start of a workflow
  and of none of its nodes: that row stays at `running` (the exception in
  `CutOffIsCrashed`). The simple mode marks waiting executions as crashed, and
  finished ones whose end was not logged.
- A container that restarts within the time to live of its own key becomes leader
  without the takeover event, and so does one whose first check falls due between
  the start of its wait tracker and `registerEventHandlers`: it leads, and neither
  tracks waits nor starts triggers. `TracksAsLeader` and
  `WaitIsResumedInPeace` exempt those mains by name (`uninformed`).

Met in the activation of workflows, where `SilentElsewhere` and `ActiveIsListening` exempt
the main it happens to (`astray`, `skipped`), and make no other exception; TLC finds each when its exemption is dropped.
The comment of `shouldAddTriggersAndPollers` says "only the leader is allowed to manage
triggers and pollers in memory, to ensure they are not duplicated":

- A main that takes over while its first pass is under way skips the pass for its new role
  (`active-workflow-manager.ts:446`), and what that first pass read as a follower is not
  started: it leads without triggers until somebody activates them.
- The role is looked at before the first await of an activation (597-598). A stepdown
  meanwhile removes what is registered, and the trigger that is just being started stays on
  the follower.
- `ActiveWorkflows.add` does not look whether the workflow is active (line 103). A retry that
  a follower publishes, or a command that arrives after the pass of a takeover, starts the
  trigger a second time; the new entry replaces the old one, whose triggers nobody closes.
- `ActiveWorkflows.remove` deletes the entry after its awaits (line 213), also one that an
  `add` has set meanwhile.
- An activation on request that fails makes the workflow inactive in the database (`activeVersionId`
  null), also when another version, or another main, is active by then.
- A retry that fails reads `queuedActivations[workflowId]` (line 802), which `remove` may
  have deleted; and of a workflow with two triggers the first goes on listening, without an
  entry, when the second one fails. Both are outside of the model.

Read in the engine while modelling it, and outside of what its properties cover:

- The search for a waiting node stands at the end of the loop's body, and every
  `continue` skips it: a node outside of the filter (1598-1606), a null result
  (1797-1802), the destination (1989-2000). When the last node on the stack is one of
  these, nodes that wait are not run, although the comment at 2117 says they are as
  soon as nothing else is left. A join below a condition, run as the destination while
  the condition's other branch is stacked and filtered out, is never run.
  `NobodyLeftWaiting` is about workflows without filter, destination and null results.
- `Object.keys(...).sort()` compares the indexes of entries as strings, so from eleven
  entries on the first is not the earliest. `Earliest` is right for fewer.
- A soft failure counts as a try without shortening the loop: five attempts are possible
  where `maxTries` is three. Tries are one outcome in the model.
- An execution cancelled while a node runs is saved without that node's input, so a
  retry loses it. The retry of a cancelled execution is left out of the model.
- Joins that are each other's ancestors and both wait are never run; `Unhindered`
  excludes them.

Met in partial execution. The first two were found by TLC: `AssertionsHold` exempts the
first by name, and no property claims what the second breaks:

- Two disabled nodes that are connected in a circle, or one wired to itself: `removeNode`
  turns one of them into a self-connection of the other, and the bridges of that one
  mention the node it has just removed, so a later search fails an assertion. The doc of
  `removeNode` says it removes "all connections that use that node"
  (`DisabledLoop` in `AssertionsHold`). A disabled parent that stands in for a trigger
  fails one too.
- `getStronglyConnectedComponents` pops nodes from the stack only while their low link is
  that of the root. With the connections 0-1, 1-2, 2-4, 2-1, 4-2 the node 4 keeps the low link
  of 2, and the component of 1, 2 and 4 is lost ("Returns all strongly connected components",
  `directed-graph.ts:313`). A start node in such a loop is not moved to its beginning. No
  data is lost by that: `WhatIsMissingIsRun` holds for the start nodes it leaves.
- Pinned data is lost where a join lacks another input: an incomplete group
  (`recreate-node-execution-stack.ts:176`) looks at run data only. `ItemsAreUsedOnce` speaks
  of the items of runs.
- A complete group pushes items one after the other, whatever input they are for: when the
  first input of a join is not connected, or a source has no items on the output, they land
  on another input than the one they are wired to.
- Sources of waiting entries name the index of the entry as the run they came from
  (`recreate-node-execution-stack.ts:203`).
- The branches of a loop that the trigger cannot reach stay in the subgraph, which should
  hold "all nodes that can lead from the trigger".
- `cleanRunData` goes up over all connections for sub-nodes, so it deletes the data of the
  sub-nodes of nodes upstream as well, and `findSubgraph` brings back their users outside
  of the part it cut out: an agent on a branch that the trigger cannot reach comes back
  with its sub-nodes and without its connections of type main, and keeps its data although
  what it was computed from runs again. The run that follows does not come to it, and
  `NothingStaleSurvives` is about the nodes that lead to the destination in the graph
  that is left (`feeding`). A changed node that is disabled is no longer in the graph when
  `getNodesByNames` looks, so what is downstream of it keeps its data.

## 7. Proofs

Each theorem holds for every value of the constants that satisfies the `ASSUME` of its
module. These say how the constants are typed, that names for "nobody" are no names of
anybody, that sets of calls and mains and the edges of a workflow are finite, that
there is a request and a connection. A hypothesis inside of a theorem is part of the table.

| Theorems | Hypothesis | When it is dropped |
|---|---|---|
| `RunningIsListedHolds` | `Undisturbed`: no stops, timeouts, shutdown, overlaps | TLC violates the property with each of them |
| `WorkflowsWithinLimitHolds` | no stops, timeouts, overlaps | TLC violates it with stops and with timeouts; with overlaps it found no violation, and the proof needs it |
| `WaitingSurvivesHolds` | `~ServesWhileBooting` | violated: a resume races with the recovery pass |
| `EachInOnePlaceHolds` | `FewSent` | violated: `engine_overwrite` |

**ConcurrencyControlProofs**, for every finite set of calls, every assignment of ids
and modes and every pair of limits: `TypesHold`, `QueuedOnceHolds`, `AccountingHolds`,
`NoIdleCapacityHolds`, `OverrunOnlyByRemovalHolds`, `FrozenAfterDisableHolds`, and
`AdmissionHolds`, the refinement of AdmissionControl, step by step. The inductive invariant
`CCInv` adds to the accounting that a call is queued exactly when it stands once in the
queue of its mode, and two bounds that tie the length of a queue to the sign of its
capacity, since that sign is all `enqueue` looks at.

**ExecutionLifecycleProofs**, for every set of calls and every setting of the flags:
`LifecycleTypesHold`; `ReservationProtocolHolds` (each step of the life of an execution is
a step of the concurrency control or leaves it alone, hence `LifecycleAccountingHolds`);
`SingleRunnerHolds`, `RunningRowIsOwnedHolds`; `RunningIsListedHolds` and
`WorkflowsWithinLimitHolds`. `RunInv` speaks of claims: a call has one when it may run
nodes, or leave the execution waiting, without winning the conditional update; an
execution has at most one claim, and a waiting row none. `ListInv` adds the registry:
that the record of a call under way is neither replaced nor removed rests on its promise
being the only one of its execution that may still settle (`LiveIsAlone`). Such a call
holds its capacity, and as nothing queued was removed, `OverrunOnlyByRemoval` gives the
limit.

The second part of the module is about ProcessRestart, for every number of executions and
calls and both recovery modes: `RestartTypesHold`, `FinishedStaysFinishedHolds`, `CutOffIsCrashedHolds`,
`WaitingSurvivesHolds`. The argument is about what a crash leaves. An execution whose row
says neither nothing nor waiting is laid down (`LaidDown`): its calls are over or have not
begun, and the process that comes next can read it, be refused or cancel it, but no step
takes it up again. So the filter of the recovery pass decides alone what becomes of it.
An execution that waits is left alone as long as nothing is served, and the pass puts back
the row it has read.

**TaskBrokerProofs**, for any number of requests, connections and offers:
`TaskTypesHold`, `OneTaskPerRequestHolds`, `AwaitedTaskIsTimedHolds`,
`SettingsAreExpectedHolds`, `OffersFitConcurrencyHolds`. `BrokerInv` relates the tables of
the broker to the messages on their way: offers that are pending have no task
(`PendingAreNew`), and those that have yet to arrive are unknown to the broker
(`OffersAreNew`); one task is active for a request, which is marked as in progress
(`OneActive`); a `startTask` that waits does so for a task of its own (`AwaitedAlone`); an
acceptance and the settings that answer it are on their way once, and not both
(`SettingsInOrder`). Matching and expiry are folds over the lists of the
broker. Their lemmas go by induction over sets of natural numbers, from the
well-foundedness of `<`.

**LeaderElectionProofs**, for any set of mains and any number of crashes, shutdowns
and lost keys: `OneLeaderHolds`, `TrackingIsElection` (a simulation step by step),
`OneLeaderTracks`, `TracksAsLeaderHolds`, `TrackingTypesHold`. `ElectionInv` says that
whoever is leader, or has an answer that will make it leader, holds the key;
`TrackingInv` that no leader is ever in an election, where it could lose its role
without an event. While no leader has lost its key, a leader's answers all tell it that
the key is its own, so it has not stepped down and been told to start tracking a second
time: `PeaceOK` says so, and with it that nothing is left over from an earlier interval.

**QueueModeProofs**, for any number of executions, mains, workers, chains and upsets:
`QueueTypesHold`; `TakenOnceHolds`, the refinement of JobBoard, step by step;
`SuccessStandsHolds`; `RecoveryFollowsLeadershipHolds`. `OnceInv` says that a worker has an
execution only after its job was taken, that no second one does, and that a row says
success only when the worker's run has stored it; that run can still be cancelled while it is
registered, and `SuccessStands` says nothing as long as an abort is on its way to it. `ChainsOK` follows the chains through boot,
takeover and stepdown, also before the queue is set up, where the property is silent.

**WorkflowEngineProofs**, for every set of workflows and any number of failures, waits
and cancellations: `EngineTypesHold`; `NothingDoubledHolds`, the half of
`EachInOnePlace` that is true of all workflows; `EachInOnePlaceHolds`, the whole of it;
`NobodyLeftWaitingHolds`. `Only` names the one place where a delivery can be. The
invariant says that it has one, and none when no run that succeeded has sent it
(`OnePlace`): without the second part a node's new deliveries could be somewhere already.
That part survives a retry or a resume, which take a run away, because the run they take
did not succeed (`LastRun`). `Addressed` says that entries that wait hold what was sent to
their node. One lemma per action says where a delivery moves.

That nothing is lost depends on the indexes of the entries. An entry whose index is not
0 was made when its input had data before (`Second`), and what waits or is about to be
delivered has been sent (`Sending`). So under `FewSent`, when a delivery makes a new entry,
those that wait cannot be at the index the code counts out: whatever is there would be
the third delivery for its input, or be completed by the new one (`IndexIsFree`).
`StackFor` says that an entry of the stack holds what was sent to its node: a run that
waits or fails goes back there with its data.

`NobodyLeftWaiting` is about the moment when the stack is empty and the search for a node
that may go on finds none. Then each node that waits has an ancestor that waits. The edges
of a workflow are finite, so following ancestors comes back to a node, and two
joins are each other's ancestors, which `Unhindered` excludes.

**WorkflowActivationProofs**, for any set of mains and any number of upsets:
`ActivationTypesHold`, `SilentElsewhereHolds`. The invariant has a part for each main. On
one that is not astray the entry refers to all listeners, whoever closes them closes all
of them, a trigger is only started while the main leads, and while a change of the version
is about to be stored no listener relies on being in the version that is still active
(`KeptAt`). Wherever an activation and something that crosses it meet, the main is astray
(`CrossedAt`). Without several mains nothing happens but on the leader (`AloneAt`).

**PartialExecutionProofs**, for every set of requests with any workflow, run data, pinned
data, disabled and changed nodes: `PartialIsTyped`, `PartialItemsAreUsedOnce`,
`PartialWhatIsMissingIsRun`, `PartialAssertionsHold`, `PartialNothingStaleSurvives`. The
assumption on requests is that connections lead to nodes of the workflow, that the
destination is enabled, that a sub-node has no connection of type main and no pinned data,
and that a node in the run data has run at least once.

Most of the module is about the algorithms, each for every graph. Folds have an invariant or
reach what they do not lose again (`FoldIn`, `FoldUpTo`, `FoldReaches`); closures are the
least closed set (`ReachedByIs`). A search that goes upstream or downstream is shown to be
deep enough by counting the nodes it has not entered (`Left`), and to find what it should
although it drops branches that enter a node twice: a way can always be cut short so that it
leaves its first node for good (`FirstStep`). With this `findStartNodes` finds every node at
which data stops (`FindStartNodesIs`), `depthFirstSearch` all that can be reached
(`DepthFirstIs`), and `findSubgraph` every connection between the root and the destination
(`FlowCovers`). The components of `getStronglyConnectedComponents` are mutually reachable
(`ComponentsAre`: a low link names a node that can be reached, and what stands above a node on
the stack came after it), so `handleCycles` moves a start node to one that still leads to it
(`HandleCyclesIs`). `removeNode` replaces each way through a node (`RemoveKeepsWays`) and,
without loops of disabled nodes, leaves no connection with a disabled end: whatever is left is
a step along a way through disabled nodes, which can be no circle (`FilterLeavesNoEnds`).

Over the steps, `MissingCovered` says that start nodes come before everything that has no
data; `StackMade` what the stack is made of, where the groups of `getSourceDataGroups` share
the connections of a node (`SplitIs`); `GraphIsPart` and `StartsOnWay` that the graph is the
part found for the trigger and that start nodes come after it, so that no search leaves the
graph; `WellFound` that a run which came to the stack has its trigger in the graph;
`DataCleaned` what has no data any more. For `NothingStaleSurvives` a way of the drawn
workflow, from a start node to a node with data, is followed through `filterDisabledNodes`
into what is enabled, and from there, connection by connection, into the part: each one
comes from the trigger and leads on to the destination, so `findSubgraph` kept it
(`WayInPart`), and `cleanRunData` went along it.

Only model-checked: all liveness (`QueuedGetsThrough`, `CapacityComesBack`,
`AdmittedConcludes`, `StartTaskReturns`, `SlotComesBack`, `LeaderEmerges`,
`WaitIsResumedInPeace`, `ProgressEnds`, `ActiveIsListening`), which is out of the prover's
reach as is ENABLED. All invariants, action properties and refinements that the
passing runs check are proved. The type invariants `TypeOK`, `LifecycleTypeOK`, `RestartTypeOK`, `TaskTypeOK`,
`TrackingTypeOK`, `QueueTypeOK` and `ActivationTypeOK` are proved and in no run.

### Not checked

- The wait of `ActiveExecutions.shutdown` for an empty registry. Records of executions
  that begin to wait after its first step never leave, so it ends by the forced exit.
- A second resume from stale execution data. The row carries a status and no version:
  with two waits (`MaxWaits` 2) a call that read before the first resume may pass the
  test at the second wait.
- `removeAll` after `disable` in `shutdown`: it always returns at its guard, so queued
  executions keep their status `new` for the next start.
- A deferred request whose timeout had removed it is pushed back, and one that was
  not is pushed a second time; the surplus entry ends with its own timeout.
- Checks of one main that overlap, when Redis takes longer than the check interval.
- The delay of `SlidingWindowSignal.getSignal`, whose `setTimeout` has none: time is
  part of no module.

## 8. Plan

In this order. The number of runs is kept at about a dozen, one per distinct
question: as a component is added, runs that only exhibit a known disagreement give
way and their finding moves to section 6.

1. WorkflowActivation with two trigger nodes, polling nodes and the rows of webhooks.
2. Waits and resumes in QueueMode, the responses of webhooks through a worker, the stop
   of a worker that lets its jobs end.
3. The stack that PartialExecution recreates as a start of WorkflowEngine; partial runs of
   tools.
4. Smaller ones: insights flush, collaboration, restart detection of runners, commands
   between mains.
5. Proofs: what follows for the data of a whole workflow from `EachInOnePlaceHolds` and
   `NobodyLeftWaitingHolds`.

------------------------------- MODULE QueueMode -------------------------------
(***************************************************************************)
(* Queue mode: packages/cli/src/scaling/scaling.service.ts and             *)
(* job-processor.ts, with enqueueExecution of workflow-runner.ts and       *)
(* stopInScalingMode of executions/execution.service.ts.                   *)
(*                                                                         *)
(* A main records an execution in the database, adds a job for it to a     *)
(* Bull queue and watches the job; a worker takes the job and runs the     *)
(* execution; both write the row.  A stop is a request to some main; it    *)
(* reaches a worker as a message.  The leader's queue recovery marks       *)
(* executions without a job as crashed.                                    *)
(*                                                                         *)
(* Bull and Redis are external: a job is added, taken by one worker,       *)
(* completed, failed or removed in one step each, a job whose worker lost  *)
(* its lock is failed as stalled, and a progress message may get lost.     *)
(* At most one main is leader, which is OneLeader of LeaderElection.       *)
(* Each execution is enqueued once; those that wait and are resumed, and   *)
(* the responses of webhooks, are left out.  At first all mains are        *)
(* followers that have started; a main boots when it crashed.              *)
(***************************************************************************)
EXTENDS Naturals, FiniteSets

CONSTANTS
  Executions,
  Mains,
  Workers,
  Nobody,       \* no worker, no main, no chain
  HomeOf,       \* the main that enqueues each execution
  Concurrency,  \* how many jobs a worker handles at a time
  BatchSize,    \* how many executions a pass of queue recovery reads
  Chains,       \* names for the chains of timers of a main's queue recovery
  MaxUpsets     \* how many stops, crashes, stepdowns, lost locks and failed
                \* calls there may be

ASSUME QueueAssumption ==
  /\ HomeOf \in [Executions -> Mains]
  /\ Nobody \notin Workers \cup Mains \cup Chains
  /\ Concurrency \in Nat \ {0}
  /\ BatchSize \in Nat \ {0}
  /\ MaxUpsets \in Nat

VARIABLES
  row,      \* the status of each execution in the database
  call,     \* how far the home main is with each execution
  record,   \* its record in activeExecutions there
  job,      \* the job in the queue
  work,     \* how far each worker's processJob is with each execution
  saving,   \* the runs that were cancelled and whose hook has yet to save
  aborts,   \* the executions with an abort-job message under way
  stop,     \* how far a user's request to stop each execution is
  cancel,   \* how far stopJob, run by the cancelled watcher, is
  leader,   \* the main that is leader
  boot,     \* how far each main has started
  chain,    \* how far each chain of queue recovery is
  found,    \* the ids each pass has read
  latest,   \* the chain whose timer `queueRecoveryContext.timeout` refers to
  leaked,   \* the mains whose chains a stepdown does not stop
  upsets    \* how many of those there were

callVars == <<call, record>>
stopVars == <<aborts, stop, cancel>>
workVars == <<work, saving>>
recoveryVars == <<leader, boot, chain, found, latest, leaked>>
queueVars == <<row, callVars, job, workVars, stopVars, recoveryVars, upsets>>

InProgress == {"new", "running"}

Statuses == InProgress \cup {"none", "success", "error", "canceled", "crashed"}

\* run() and enqueueExecution: created (the row and the record), enqueued
\* (the job is added, the hook runs), watching (job.finished is awaited),
\* failing and abandoning (processError, from the watcher or the catch
\* block), burying (its hook has yet to save), reading (the watcher reads the row).
CallStages == {"idle", "created", "enqueued", "watching", "failing", "abandoning",
               "burying", "reading", "over", "lost"}

JobStates == {"none", "waiting", "active", "completed", "errored", "stalled",
              "cancelled", "removed"}

\* processJob: loading (reads the row), marking (setRunning), preparing,
\* running (its nodes), saving (the hook of the run), stored (the hook has
\* stored the outcome and goes on), aborted (its loop has yet to notice),
\* leaving (the job is yet to complete).
Handling == {"loading", "marking", "preparing", "running", "saving", "stored", "aborted",
             "leaving"}

WorkStages == Handling \cup {"none", "done", "dead"}

Ended == {"completed", "errored", "stalled", "cancelled", "removed"}

QueueInit ==
  /\ row = [e \in Executions |-> "none"]
  /\ call = [e \in Executions |-> "idle"]
  /\ record = [e \in Executions |-> "none"]
  /\ job = [e \in Executions |-> "none"]
  /\ work = [w \in Workers |-> [e \in Executions |-> "none"]]
  /\ saving = {}
  /\ aborts = {}
  /\ stop = [e \in Executions |-> "no"]
  /\ cancel = [e \in Executions |-> "no"]
  /\ leader = Nobody
  /\ boot = [m \in Mains |-> "up"]
  /\ chain = [m \in Mains |-> [k \in Chains |-> "off"]]
  /\ found = [m \in Mains |-> [k \in Chains |-> {}]]
  /\ latest = [m \in Mains |-> Nobody]
  /\ leaked = {}
  /\ upsets = 0

Write(e, status) == row' = [row EXCEPT ![e] = status]
Advance(e, from, to) == call[e] = from /\ call' = [call EXCEPT ![e] = to]
Turn(e, from, to) == job[e] = from /\ job' = [job EXCEPT ![e] = to]
Progress(w, e, from, to) == work[w][e] = from /\ work' = [work EXCEPT ![w][e] = to]
Upset == upsets < MaxUpsets /\ upsets' = upsets + 1

-----------------------------------------------------------------------------
(***************************************************************************)
(* WorkflowRunner.run and enqueueExecution on the home main                *)
(***************************************************************************)

\* ActiveExecutions.add: the row is created with status "new".
Create(e) ==
  /\ boot[HomeOf[e]] = "up"
  /\ Advance(e, "idle", "created")
  /\ Write(e, "new")
  /\ record' = [record EXCEPT ![e] = "bare"]
  /\ UNCHANGED <<job, workVars, stopVars, recoveryVars, upsets>>

\* The credentials check throws; a failed run is saved.
CheckFails(e) ==
  /\ Advance(e, "created", "over")
  /\ Write(e, "error")
  /\ record' = [record EXCEPT ![e] = "none"]
  /\ UNCHANGED <<job, workVars, stopVars, recoveryVars, upsets>>

AddJob(e) ==
  /\ Advance(e, "created", "enqueued")
  /\ Turn(e, "none", "waiting")
  /\ UNCHANGED <<row, record, workVars, stopVars, recoveryVars, upsets>>

\* addJob, or the workflowExecuteBefore hook after it, throws.
EnqueueFails(e) ==
  /\ Upset
  /\ Advance(e, "created", "abandoning") \/ Advance(e, "enqueued", "abandoning")
  /\ UNCHANGED <<row, record, job, workVars, stopVars, recoveryVars>>

\* The watcher starts; attachWorkflowExecution throws when the record is gone.
Watch(e) ==
  /\ Advance(e, "enqueued", "watching")
  /\ record' = [record EXCEPT ![e] = IF @ = "bare" THEN "attached" ELSE @]
  /\ UNCHANGED <<row, job, workVars, stopVars, recoveryVars, upsets>>

\* job.finished settles.  The error of a cancelled job is not processed.
HearEnd(e) ==
  /\ \/ job[e] \in {"completed", "cancelled"} /\ Advance(e, "watching", "reading")
     \/ job[e] \in {"errored", "stalled"} /\ Advance(e, "watching", "failing")
  /\ UNCHANGED <<row, record, job, workVars, stopVars, recoveryVars, upsets>>

\* SLIP: processError does not look whether the execution was successful.
ProcessErrorUnchecked(e) ==
  /\ Advance(e, "failing", "burying") \/ Advance(e, "abandoning", "burying")
  /\ record' = [record EXCEPT ![e] = "none"]
  /\ UNCHANGED <<row, job, workVars, stopVars, recoveryVars, upsets>>

\* processError reads the row and finalizes the record unless the execution
\* was successful.
ProcessError(e) ==
  /\ \/ /\ row[e] = "success"
        /\ Advance(e, "failing", "reading") \/ Advance(e, "abandoning", "over")
        /\ UNCHANGED record
     \/ /\ row[e] # "success"
        /\ Advance(e, "failing", "burying") \/ Advance(e, "abandoning", "burying")
        /\ record' = [record EXCEPT ![e] = "none"]
  /\ UNCHANGED <<row, job, workVars, stopVars, recoveryVars, upsets>>

\* Its hook saves the failed run.
Bury(e) ==
  /\ Advance(e, "burying", "over")
  /\ Write(e, "error")
  /\ UNCHANGED <<record, job, workVars, stopVars, recoveryVars, upsets>>

\* The watcher has read the row; finalizeExecution.
Finalize(e) ==
  /\ Advance(e, "reading", "over")
  /\ record' = [record EXCEPT ![e] = "none"]
  /\ UNCHANGED <<row, job, workVars, stopVars, recoveryVars, upsets>>

-----------------------------------------------------------------------------
(***************************************************************************)
(* The worker: ScalingService.setupWorker and JobProcessor.processJob      *)
(***************************************************************************)

Busy(w) == Cardinality({e \in Executions : work[w][e] \in Handling})

\* Bull hands a waiting job to a worker.
PickUp(w, e) ==
  /\ Busy(w) < Concurrency
  /\ Turn(e, "waiting", "active")
  /\ work' = [work EXCEPT ![w][e] = "loading"]
  /\ UNCHANGED <<row, callVars, saving, stopVars, recoveryVars, upsets>>

\* processJob reads the execution, and refrains from one that crashed.
Load(w, e) ==
  /\ Progress(w, e, "loading", IF row[e] = "crashed" THEN "leaving" ELSE "marking")
  /\ UNCHANGED <<row, callVars, job, saving, stopVars, recoveryVars, upsets>>

\* setRunning, whatever the row says by now.
MarkRunning(w, e) ==
  /\ Progress(w, e, "marking", "preparing")
  /\ Write(e, "running")
  /\ UNCHANGED <<callVars, job, saving, stopVars, recoveryVars, upsets>>

\* runManually finds issues in the workflow: a failed run is saved.
HasIssues(w, e) ==
  /\ Progress(w, e, "preparing", "leaving")
  /\ Write(e, "error")
  /\ UNCHANGED <<callVars, job, saving, stopVars, recoveryVars, upsets>>

\* The workflow starts, and is registered in runningJobs.
StartRun(w, e) ==
  /\ Progress(w, e, "preparing", "running")
  /\ UNCHANGED <<row, callVars, job, saving, stopVars, recoveryVars, upsets>>

\* Its nodes end, and the workflowExecuteAfter hook of the run starts.
EndRun(w, e) ==
  /\ Progress(w, e, "running", "saving")
  /\ UNCHANGED <<row, callVars, job, saving, stopVars, recoveryVars, upsets>>

\* hookFunctionsSaveWorker stores the outcome.
SaveOutcome(w, e) ==
  /\ Progress(w, e, "saving", "stored")
  /\ \E outcome \in {"success", "error"} : Write(e, outcome)
  /\ UNCHANGED <<callVars, job, saving, stopVars, recoveryVars, upsets>>

\* The promise of the run resolves, and the job is taken out of runningJobs.
Deregister(w, e) ==
  /\ Progress(w, e, "stored", "leaving")
  /\ UNCHANGED <<row, callVars, job, saving, stopVars, recoveryVars, upsets>>

\* A cancelled run ends without its hook, which the cancel handler has run.
NoticeAbort(w, e) ==
  /\ Progress(w, e, "aborted", "leaving")
  /\ UNCHANGED <<row, callVars, job, saving, stopVars, recoveryVars, upsets>>

SaveCanceled(w, e) ==
  /\ <<w, e>> \in saving
  /\ saving' = saving \ {<<w, e>>}
  /\ Write(e, "canceled")
  /\ UNCHANGED <<callVars, job, work, stopVars, recoveryVars, upsets>>

\* processJob returns.  A job that has been failed meanwhile stays failed.
CompleteJob(w, e) ==
  /\ Progress(w, e, "leaving", "done")
  /\ job' = [job EXCEPT ![e] = IF @ = "active" THEN "completed" ELSE @]
  /\ UNCHANGED <<row, callVars, saving, stopVars, recoveryVars, upsets>>

\* processJob throws: a row or workflow not found, a call that fails.
FailJob(w, e) ==
  /\ Upset
  /\ \E stage \in {"loading", "marking", "preparing"} : Progress(w, e, stage, "done")
  /\ job' = [job EXCEPT ![e] = IF @ = "active" THEN "errored" ELSE @]
  /\ UNCHANGED <<row, callVars, saving, stopVars, recoveryVars>>

Work(w, e) == Load(w, e) \/ MarkRunning(w, e) \/ HasIssues(w, e) \/ StartRun(w, e)
                \/ EndRun(w, e) \/ SaveOutcome(w, e) \/ Deregister(w, e) \/ NoticeAbort(w, e)
                \/ CompleteJob(w, e)

\* A worker exits, and starts again without the jobs it handled.
CrashWorker(w) ==
  /\ Upset
  /\ work' = [work EXCEPT ![w] =
       [e \in Executions |-> IF @[e] \in Handling THEN "dead" ELSE @[e]]]
  /\ saving' = {p \in saving : p[1] # w}
  /\ UNCHANGED <<row, callVars, job, stopVars, recoveryVars>>

Held(e) == \E w \in Workers : work[w][e] \in Handling

\* SLIP: with the default maxStalledCount a stalled job waits to be taken again.
StallAgain(e) ==
  /\ ~Held(e)
  /\ Turn(e, "active", "waiting")
  /\ UNCHANGED <<row, callVars, workVars, stopVars, recoveryVars, upsets>>

\* The lock of a job whose worker is gone expires; maxStalledCount is 0.
Stall(e) ==
  /\ ~Held(e)
  /\ Turn(e, "active", "stalled")
  /\ UNCHANGED <<row, callVars, workVars, stopVars, recoveryVars, upsets>>

\* A worker that is too busy to renew its lock loses it, and goes on.
LoseLock(e) ==
  /\ Upset
  /\ Held(e)
  /\ Turn(e, "active", "stalled")
  /\ UNCHANGED <<row, callVars, workVars, stopVars, recoveryVars>>

-----------------------------------------------------------------------------
(***************************************************************************)
(* Stopping: ExecutionService.stop, ScalingService.stopJob                 *)
(***************************************************************************)

\* The execution is read and found stoppable.
AskToStop(e) ==
  /\ Upset
  /\ stop[e] = "no"
  /\ row[e] \in InProgress
  /\ stop' = [stop EXCEPT ![e] = "asked"]
  /\ UNCHANGED <<row, callVars, job, workVars, aborts, cancel, recoveryVars>>

\* stopInScalingMode on the home main: the record is removed, and with a
\* watcher attached its cancel handler runs stopJob.
StopAtHome(e) ==
  /\ boot[HomeOf[e]] = "up"
  /\ stop[e] = "asked"
  /\ stop' = [stop EXCEPT ![e] = "storing"]
  /\ cancel' = [cancel EXCEPT ![e] = IF record[e] = "attached" THEN "checking" ELSE @]
  /\ record' = [record EXCEPT ![e] = "none"]
  /\ UNCHANGED <<row, call, job, workVars, aborts, recoveryVars, upsets>>

\* On any other main there is no record of it.
StopElsewhere(e) ==
  /\ \E m \in Mains \ {HomeOf[e]} : boot[m] = "up"
  /\ stop[e] = "asked"
  /\ stop' = [stop EXCEPT ![e] = "storing"]
  /\ UNCHANGED <<row, callVars, job, workVars, aborts, cancel, recoveryVars, upsets>>

\* stopDuringRun, whatever the row says by now.
StoreStopped(e) ==
  /\ stop[e] = "storing"
  /\ stop' = [stop EXCEPT ![e] = "stored"]
  /\ Write(e, "canceled")
  /\ UNCHANGED <<callVars, job, workVars, aborts, cancel, recoveryVars, upsets>>

MoveCancel(e, from, to) == cancel[e] = from /\ cancel' = [cancel EXCEPT ![e] = to]

\* job.isActive, and job.progress for a job that a worker has taken.
CheckActive(e) ==
  /\ \/ /\ job[e] = "active"
        /\ MoveCancel(e, "checking", "failing")
        /\ aborts' = aborts \cup {e}
     \/ /\ job[e] # "active"
        /\ MoveCancel(e, "checking", "removing")
        /\ UNCHANGED aborts
  /\ UNCHANGED <<row, callVars, job, workVars, stop, recoveryVars, upsets>>

\* job.discard and job.moveToFailed, which throws for a job that has ended.
MoveToFailed(e) ==
  /\ MoveCancel(e, "failing", "done")
  /\ job' = [job EXCEPT ![e] = IF @ = "active" THEN "cancelled" ELSE @]
  /\ UNCHANGED <<row, callVars, workVars, aborts, stop, recoveryVars, upsets>>

\* job.remove, which throws for a job that a worker has locked.
RemoveJob(e) ==
  /\ MoveCancel(e, "removing", "done")
  /\ job' = [job EXCEPT ![e] = IF @ = "waiting" THEN "removed" ELSE @]
  /\ UNCHANGED <<row, callVars, workVars, aborts, stop, recoveryVars, upsets>>

\* The workers with the execution in runningJobs.
Registered(e) == {w \in Workers : work[w][e] \in {"running", "saving", "stored"}}

\* The workers hear of the message.  Only a run in runningJobs is cancelled:
\* its nodes stop, or its outcome is being saved or is stored already, and a
\* hook of the cancel handler saves another one.
HearAbort(e) ==
  /\ e \in aborts
  /\ aborts' = aborts \ {e}
  /\ saving' = saving \cup (Registered(e) \X {e})
  /\ work' = [w \in Workers |->
       IF work[w][e] = "running" THEN [work[w] EXCEPT ![e] = "aborted"] ELSE work[w]]
  /\ UNCHANGED <<row, callVars, job, stop, cancel, recoveryVars, upsets>>

Cancel(e) == CheckActive(e) \/ MoveToFailed(e) \/ RemoveJob(e)

-----------------------------------------------------------------------------
(***************************************************************************)
(* Queue recovery on the leader                                            *)
(***************************************************************************)

Idle(m) == {k \in Chains : chain[m][k] = "off"}

SetTimer(m, k) ==
  /\ chain' = [chain EXCEPT ![m][k] = "timer"]
  /\ latest' = [latest EXCEPT ![m] = k]

\* The leader-takeover event: scheduleQueueRecovery starts a chain of timers.
\* A main that has not registered its handlers yet misses the event.
TakeOver(m) ==
  /\ leader = Nobody
  /\ leader' = m
  /\ \/ /\ boot[m] # "deaf"
        /\ Idle(m) # {}
        /\ SetTimer(m, CHOOSE k \in Idle(m) : TRUE)
     \/ /\ boot[m] = "deaf"
        /\ UNCHANGED <<chain, latest>>
  /\ UNCHANGED <<row, callVars, job, workVars, stopVars, boot, found, leaked, upsets>>

\* The handlers of the leader's events are registered.
RegisterHandlers(m) ==
  /\ boot[m] = "deaf"
  /\ boot' = [boot EXCEPT ![m] = "hearing"]
  /\ UNCHANGED <<row, callVars, job, workVars, stopVars, leader, chain, found, latest,
                 leaked, upsets>>

\* setupQueue: a leader starts a chain, whether or not the event has started one.
SetupQueue(m) ==
  /\ boot[m] = "hearing"
  /\ boot' = [boot EXCEPT ![m] = "up"]
  /\ \/ /\ leader = m
        /\ Idle(m) # {}
        /\ SetTimer(m, CHOOSE k \in Idle(m) : TRUE)
        /\ leaked' = IF Idle(m) = Chains THEN leaked ELSE leaked \cup {m}
     \/ /\ leader # m
        /\ UNCHANGED <<chain, latest, leaked>>
  /\ UNCHANGED <<row, callVars, job, workVars, stopVars, leader, found, upsets>>

\* SLIP: the timer is left alone.
StepDownKeepingTimer(m) ==
  /\ Upset
  /\ leader = m
  /\ leader' = Nobody
  /\ UNCHANGED <<row, callVars, job, workVars, stopVars, boot, chain, found, latest, leaked>>

\* The leader-stepdown event: stopQueueRecovery clears the timeout it refers
\* to, if any, to no effect when its pass is under way.
StepDown(m) ==
  LET k == latest[m] IN
  /\ Upset
  /\ leader = m
  /\ leader' = Nobody
  /\ \/ /\ k = Nobody
        /\ UNCHANGED <<chain, leaked>>
     \/ /\ k # Nobody
        /\ chain[m][k] = "timer"
        /\ chain' = [chain EXCEPT ![m][k] = "off"]
        /\ UNCHANGED leaked
     \/ /\ k # Nobody
        /\ chain[m][k] # "timer"
        /\ leaked' = leaked \cup {m}
        /\ UNCHANGED chain
  /\ UNCHANGED <<row, callVars, job, workVars, stopVars, boot, found, latest>>

\* getInProgressExecutionIds: of more than a batch, those that started last,
\* which may be any.
Batches(ids) ==
  {b \in SUBSET ids : IF Cardinality(ids) <= BatchSize THEN b = ids
                                                     ELSE Cardinality(b) = BatchSize}

\* The timer fires.
ReadIds(m, k) ==
  /\ chain[m][k] = "timer"
  /\ \E ids \in Batches({e \in Executions : row[e] \in InProgress}) :
       \/ /\ ids = {}
          /\ SetTimer(m, k)
          /\ UNCHANGED found
       \/ /\ ids # {}
          /\ chain' = [chain EXCEPT ![m][k] = "jobs"]
          /\ found' = [found EXCEPT ![m][k] = ids]
          /\ UNCHANGED latest
  /\ UNCHANGED <<row, callVars, job, workVars, stopVars, leader, boot, leaked, upsets>>

\* findJobsByStatus; without dangling ids the next timer is set.
ReadJobs(m, k) ==
  LET dangling == {e \in found[m][k] : job[e] \notin {"active", "waiting"}} IN
  /\ chain[m][k] = "jobs"
  /\ found' = [found EXCEPT ![m][k] = dangling]
  /\ \/ /\ dangling = {}
        /\ SetTimer(m, k)
     \/ /\ dangling # {}
        /\ chain' = [chain EXCEPT ![m][k] = "crashing"]
        /\ UNCHANGED latest
  /\ UNCHANGED <<row, callVars, job, workVars, stopVars, leader, boot, leaked, upsets>>

\* SLIP: only executions a worker had started are recovered.
MarkRunningAsCrashed(m, k) ==
  /\ chain[m][k] = "crashing"
  /\ row' = [e \in Executions |->
       IF e \in found[m][k] /\ row[e] # "new" THEN "crashed" ELSE row[e]]
  /\ found' = [found EXCEPT ![m][k] = {}]
  /\ SetTimer(m, k)
  /\ UNCHANGED <<callVars, job, workVars, stopVars, leader, boot, leaked, upsets>>

\* markAsCrashed, whatever the rows say by now.
MarkAsCrashed(m, k) ==
  /\ chain[m][k] = "crashing"
  /\ row' = [e \in Executions |-> IF e \in found[m][k] THEN "crashed" ELSE row[e]]
  /\ found' = [found EXCEPT ![m][k] = {}]
  /\ SetTimer(m, k)
  /\ UNCHANGED <<callVars, job, workVars, stopVars, leader, boot, leaked, upsets>>

Recover(m, k) == ReadIds(m, k) \/ ReadJobs(m, k) \/ MarkAsCrashed(m, k)

\* A main exits, and starts again with nothing.
CrashMain(m) ==
  LET home == {e \in Executions : HomeOf[e] = m} IN
  /\ Upset
  /\ call' = [e \in Executions |->
       IF e \in home /\ call[e] \notin {"idle", "over"} THEN "lost" ELSE call[e]]
  /\ record' = [e \in Executions |-> IF e \in home THEN "none" ELSE record[e]]
  /\ cancel' = [e \in Executions |->
       IF e \in home /\ cancel[e] # "no" THEN "done" ELSE cancel[e]]
  /\ leader' = IF leader = m THEN Nobody ELSE leader
  /\ boot' = [boot EXCEPT ![m] = "deaf"]
  /\ chain' = [chain EXCEPT ![m] = [k \in Chains |-> "off"]]
  /\ found' = [found EXCEPT ![m] = [k \in Chains |-> {}]]
  /\ latest' = [latest EXCEPT ![m] = Nobody]
  /\ leaked' = leaked \ {m}
  /\ UNCHANGED <<row, job, workVars, aborts, stop>>

-----------------------------------------------------------------------------

Enqueue(e) == CheckFails(e) \/ AddJob(e) \/ Watch(e) \/ HearEnd(e) \/ ProcessError(e)
                \/ Bury(e) \/ Finalize(e)

Stop(e) == AskToStop(e) \/ StopAtHome(e) \/ StopElsewhere(e) \/ StoreStopped(e)

Boot(m) == RegisterHandlers(m) \/ SetupQueue(m)

Lead(m) == TakeOver(m) \/ StepDown(m) \/ Boot(m) \/ CrashMain(m)

QueueNext ==
  \/ \E e \in Executions :
       Create(e) \/ Enqueue(e) \/ EnqueueFails(e) \/ Stop(e) \/ Cancel(e) \/ HearAbort(e)
         \/ Stall(e) \/ LoseLock(e)
  \/ \E w \in Workers, e \in Executions :
       PickUp(w, e) \/ Work(w, e) \/ FailJob(w, e) \/ SaveCanceled(w, e)
  \/ \E w \in Workers : CrashWorker(w)
  \/ \E m \in Mains : Lead(m)
  \/ \E m \in Mains, k \in Chains : Recover(m, k)

QueueSpec == QueueInit /\ [][QueueNext]_queueVars

\* Handlers go on, nodes end, an idle worker takes a waiting job, Bull looks
\* for stalled jobs, timers fire, and mains boot and one becomes leader.  Nothing makes
\* users stop executions or messages arrive.
QueueFairness ==
  /\ \A e \in Executions :
       /\ WF_queueVars(Enqueue(e))
       /\ WF_queueVars(Cancel(e))
       /\ WF_queueVars(Stall(e))
       /\ WF_queueVars(\E w \in Workers : PickUp(w, e))
       /\ \A w \in Workers :
            WF_queueVars(Work(w, e)) /\ WF_queueVars(SaveCanceled(w, e))
  /\ WF_queueVars(\E m \in Mains : TakeOver(m))
  /\ \A m \in Mains : WF_queueVars(Boot(m))
  /\ \A m \in Mains, k \in Chains : WF_queueVars(Recover(m, k))

QueueFairSpec == QueueSpec /\ QueueFairness

-----------------------------------------------------------------------------
(***************************************************************************)
(* Properties                                                              *)
(***************************************************************************)

\* The types of the state.
QueueTypeOK ==
  /\ row \in [Executions -> Statuses]
  /\ call \in [Executions -> CallStages]
  /\ record \in [Executions -> {"none", "bare", "attached"}]
  /\ job \in [Executions -> JobStates]
  /\ work \in [Workers -> [Executions -> WorkStages]]
  /\ saving \subseteq Workers \X Executions
  /\ aborts \subseteq Executions
  /\ stop \in [Executions -> {"no", "asked", "storing", "stored"}]
  /\ cancel \in [Executions -> {"no", "checking", "removing", "failing", "done"}]
  /\ leader \in Mains \cup {Nobody}
  /\ boot \in [Mains -> {"deaf", "hearing", "up"}]
  /\ chain \in [Mains -> [Chains -> {"off", "timer", "jobs", "crashing"}]]
  /\ found \in [Mains -> [Chains -> SUBSET Executions]]
  /\ latest \in [Mains -> Chains \cup {Nobody}]
  /\ leaked \subseteq Mains
  /\ upsets \in 0..MaxUpsets

Taker(e) ==
  IF \E w \in Workers : work[w][e] # "none"
  THEN CHOOSE w \in Workers : work[w][e] # "none" ELSE Nobody

OfferOf(e) ==
  CASE job[e] = "none" -> "absent"
    [] job[e] = "waiting" -> "offered"
    [] job[e] = "removed" -> "withdrawn"
    [] OTHER -> "taken"

\* Nodes run until the worker notices an abort.  A run that never started
\* counts as over when its worker is done.
RunOf(e) ==
  LET stages == {work[w][e] : w \in Workers} IN
  IF stages \cap {"running", "aborted"} # {} THEN "going"
  ELSE IF stages \cap {"saving", "stored", "leaving", "done", "dead"} # {} THEN "over"
  ELSE "no"

Board == INSTANCE JobBoard WITH offer <- [e \in Executions |-> OfferOf(e)],
                                taker <- [e \in Executions |-> Taker(e)],
                                run <- [e \in Executions |-> RunOf(e)]

\* "maxStalledCount: 0" (setupQueue): whatever crashes, stalls or is stopped,
\* an execution is taken by one worker at most, once, its nodes start at most
\* once, and never after its job was removed.
TakenOnce == Board!BoardSpec

\* Nobody is about to write the row of an execution without looking again, and
\* no abort is on its way to a worker that still has it in runningJobs.
Undisputed(e) ==
  /\ call[e] # "burying"
  /\ stop[e] \notin {"asked", "storing"}
  /\ \A m \in Mains, k \in Chains : e \notin found[m][k]
  /\ \A w \in Workers : <<w, e>> \notin saving
  /\ Registered(e) # {} => cancel[e] # "checking" /\ e \notin aborts

\* "False positive, execution was successful" (processError): a success stays
\* one, although the queue has reported a failure of the job or of the request
\* that enqueued it, unless a main, a stop or a pass of recovery that looked at
\* the execution before overwrites it, or the abort of such a stop reaches the
\* worker before the run has left runningJobs.
SuccessStands ==
  [][\A e \in Executions :
       row[e] = "success" /\ Undisputed(e) => row'[e] = "success" /\ Undisputed(e)']_queueVars

\* "Mark in-progress executions as crashed if stored in DB as new or running
\* but absent from the queue" (recoverFromQueue): no execution stays in
\* progress for good, whatever crashed: a worker ends it, the main that
\* watches it does, or recovery.
ProgressEnds ==
  \A e \in Executions : row[e] \in InProgress ~> row[e] \notin InProgress

\* A leader whose queue is set up has one chain of timers for queue recovery,
\* and a main that steps down stops it.  Two cases escape: a pass under way at
\* a stepdown goes on setting timers on a follower, and a main that takes over
\* between registering its handlers and setting up its queue starts two chains.
RecoveryFollowsLeadership ==
  \A m \in Mains \ leaked :
    boot[m] = "up" =>
      Cardinality({k \in Chains : chain[m][k] # "off"}) = IF leader = m THEN 1 ELSE 0
=============================================================================

------------------------- MODULE ExecutionLifecycle -------------------------
(***************************************************************************)
(* The life of executions in a regular-mode main process: the registry of  *)
(* packages/cli/src/active-executions.ts, the run() of workflow-runner.ts, *)
(* stopping through executions/execution.service.ts, and the status and    *)
(* the saved progress of each execution in the database.                   *)
(*                                                                         *)
(* A call is one call of WorkflowRunner.run.  It starts a new execution,   *)
(* resumes one that waits (the timer of the wait tracker or the webhook of *)
(* a Wait node), or runs one a previous process left enqueued.  Its stage  *)
(* changes at each await: between two stages anything else may happen.     *)
(*                                                                         *)
(* Left out: the response promise of webhooks and the saving of progress   *)
(* after each node.  Executions are saved whatever their outcome, which is *)
(* the default of the save settings.                                       *)
(***************************************************************************)
EXTENDS ConcurrencyControl

CONSTANTS
  KindOf,          \* what each call is for
  NoCall,
  MaxWaits,        \* how often an execution may be put to wait
  MayTimeOut,      \* whether workflows have an execution timeout
  ResumeOverlaps   \* whether a resume may reach the database while the run
                   \* that put the execution to wait still has to return

Ids == {IdOf[c] : c \in Calls}

\* An id is new once: createNewExecution makes it.
ASSUME LifecycleAssumption ==
  /\ KindOf \in [Calls -> {"new", "resume", "restart"}]
  /\ \A c, d \in Calls :
       KindOf[c] = "new" /\ KindOf[d] = "new" /\ IdOf[c] = IdOf[d] => c = d
  /\ NoCall \notin Calls
  /\ MaxWaits \in Nat
  /\ MayTimeOut \in BOOLEAN
  /\ ResumeOverlaps \in BOOLEAN

VARIABLES
  row,       \* ExecutionEntity of each execution: its status and how many
             \* waits the saved execution data is past
  stage,     \* where each call of run() and its WorkflowExecute are
  step,      \* the progress of the execution data a call runs with
  outcome,   \* the status the workflowExecuteAfter hook of a call saves
  timers,    \* the calls whose execution timeout is set
  unwatched, \* the calls whose WorkflowExecute runs although run() threw
  abort,     \* whether the WorkflowExecute of a call was cancelled
  entry,     \* activeExecutions: the call whose record stands for an id
  record,    \* `status` in the record of each call
  promise,   \* `postExecutePromise` in the record of each call
  attached,  \* `workflowExecution` in the record of each call
  stopping   \* how far the user's request to stop an execution got

runVars == <<row, stage, step, outcome, timers, unwatched, abort>>
registryVars == <<entry, record, promise, attached>>
lifecycleVars == <<ccVars, runVars, registryVars, stopping>>

Statuses == {"none", "new", "running", "waiting", "success", "error", "canceled", "crashed"}

\* add():            idle, reserving, throttling, storing, stored, refused
\* run():            checking, failing, starting, burying (in processError)
\* WorkflowExecute:  executing, pausing (a node called putExecutionToWait),
\*                   saving (in the workflowExecuteAfter hook), ended
Stages == {"idle", "reserving", "throttling", "storing", "stored", "refused",
           "checking", "failing", "starting", "burying",
           "executing", "pausing", "saving", "ended", "over"}

\* The stages in which nodes run.
Executing == {"executing", "pausing"}

\* The stages between the write of "running" and the write of the outcome.
Underway == {"stored", "checking", "starting", "burying", "saving"} \cup Executing

LifecycleInit ==
  /\ CCInit
  /\ row = [id \in Ids |-> [status |-> "none", step |-> 0]]
  /\ stage = [c \in Calls |-> "idle"]
  /\ step = [c \in Calls |-> 0]
  /\ outcome = [c \in Calls |-> "none"]
  /\ timers = {}
  /\ unwatched = {}
  /\ abort = [c \in Calls |-> "no"]
  /\ entry = [id \in Ids |-> NoCall]
  /\ record = [c \in Calls |-> "none"]
  /\ promise = [c \in Calls |-> "none"]
  /\ attached = [c \in Calls |-> NoCall]
  /\ stopping = [id \in Ids |-> "no"]

Move(c, from, to) ==
  /\ stage[c] = from
  /\ stage' = [stage EXCEPT ![c] = to]

SetStatus(id, status) == row' = [row EXCEPT ![id].status = status]

-----------------------------------------------------------------------------
(***************************************************************************)
(* ActiveExecutions.add                                                    *)
(***************************************************************************)

\* createNewExecution, with status "new".
Create(c) ==
  /\ KindOf[c] = "new"
  /\ Move(c, "idle", "reserving")
  /\ SetStatus(IdOf[c], "new")
  /\ UNCHANGED <<ccVars, registryVars, stopping, step, outcome, timers, unwatched, abort>>

\* What precedes run() when an execution is resumed: the execution is read,
\* and left alone when it has finished.
ReadToResume(c) ==
  /\ KindOf[c] = "resume"
  /\ row[IdOf[c]].status \notin {"none", "success"}
  /\ Move(c, "idle", "reserving")
  /\ step' = [step EXCEPT ![c] = row[IdOf[c]].step]
  /\ UNCHANGED <<ccVars, registryVars, stopping, row, outcome, timers, unwatched, abort>>

\* reserve(), up to the promise of throttle().
Reserve(c) ==
  /\ Throttle(c)
  /\ Move(c, "reserving", "throttling")
  /\ UNCHANGED <<registryVars, stopping, row, step, outcome, timers, unwatched, abort>>

\* reserve() returns and the write to the database is issued.
Proceed(c) ==
  /\ Acquire(c)
  /\ Move(c, "throttling", "storing")
  /\ UNCHANGED <<registryVars, stopping, row, step, outcome, timers, unwatched, abort>>

\* An earlier run of this execution still has to return: its record's
\* promise is pending, or settled with `.finally` to come.
EarlierRunReturns(c) ==
  \E d \in Calls \ {c} : IdOf[d] = IdOf[c] /\ promise[d] \in {"pending", "settled"}

\* SLIP: updateExistingExecution without its requireStatus.
StoreUnconditionally(c) ==
  /\ ResumeOverlaps \/ ~EarlierRunReturns(c)
  /\ Move(c, "storing", "stored")
  /\ row' = [row EXCEPT ![IdOf[c]] = [status |-> "running", step |-> step[c]]]
  /\ UNCHANGED <<ccVars, registryVars, stopping, step, outcome, timers, unwatched, abort>>

\* setRunning for a new execution.  For an existing one the conditional
\* update of updateExistingExecution, which also stores the execution data
\* this call has read.
Store(c) ==
  LET id == IdOf[c] IN
  /\ stage[c] = "storing"
  /\ \/ /\ KindOf[c] = "new"
        /\ Move(c, "storing", "stored")
        /\ SetStatus(id, "running")
     \/ /\ KindOf[c] # "new"
        /\ row[id].status = "waiting"
        /\ ResumeOverlaps \/ ~EarlierRunReturns(c)
        /\ Move(c, "storing", "stored")
        /\ row' = [row EXCEPT ![id] = [status |-> "running", step |-> step[c]]]
     \/ /\ KindOf[c] # "new"
        /\ row[id].status # "waiting"
        /\ Move(c, "storing", "refused")
        /\ UNCHANGED row
  /\ UNCHANGED <<ccVars, registryVars, stopping, step, outcome, timers, unwatched, abort>>

\* SLIP: throws without giving the reservation back.
RefuseHoldingCapacity(c) ==
  /\ Move(c, "refused", "over")
  /\ UNCHANGED <<ccVars, registryVars, stopping, row, step, outcome, timers, unwatched, abort>>

\* SLIP: gives a second unit back.
RefuseReleasingTwice(c) ==
  /\ Limited(c)
  /\ capacity' = [capacity EXCEPT ![QueueOf(c)] = @ + 2]
  /\ ResolveNext(QueueOf(c), queue[QueueOf(c)], [call EXCEPT ![c] = "released"])
  /\ Move(c, "refused", "over")
  /\ UNCHANGED <<enabled, registryVars, stopping, row, step, outcome, timers, unwatched, abort>>

\* ExecutionAlreadyResumingError: the catch block gives the reservation back.
Refuse(c) ==
  /\ Release(c)
  /\ Move(c, "refused", "over")
  /\ UNCHANGED <<registryVars, stopping, row, step, outcome, timers, unwatched, abort>>

\* SLIP: a record that is there already is kept.
RegisterUnlessThere(c) ==
  /\ Move(c, "stored", "checking")
  /\ entry' = IF entry[IdOf[c]] = NoCall THEN [entry EXCEPT ![IdOf[c]] = c] ELSE entry
  /\ record' = [record EXCEPT ![c] = "running"]
  /\ promise' = [promise EXCEPT ![c] = "pending"]
  /\ UNCHANGED <<ccVars, stopping, row, step, outcome, timers, unwatched, abort, attached>>

\* The rest of add(): a new record takes the place of any earlier one.
Register(c) ==
  /\ Move(c, "stored", "checking")
  /\ entry' = [entry EXCEPT ![IdOf[c]] = c]
  /\ record' = [record EXCEPT ![c] = "running"]
  /\ promise' = [promise EXCEPT ![c] = "pending"]
  /\ UNCHANGED <<ccVars, stopping, row, step, outcome, timers, unwatched, abort, attached>>

-----------------------------------------------------------------------------
(***************************************************************************)
(* Operations on the registry, by execution id                             *)
(***************************************************************************)

SettleOnce(c) == IF promise[c] = "pending" THEN "settled" ELSE promise[c]

\* finalizeExecution: settles the promise of whatever record stands there now.
Finalize(id) ==
  /\ promise' = IF entry[id] = NoCall THEN promise
                ELSE [promise EXCEPT ![entry[id]] = SettleOnce(entry[id])]
  /\ UNCHANGED <<entry, record, attached>>

\* PCancelable.cancel, and the handler WorkflowExecute registered for it.
CancelAttached(r) ==
  LET w == attached[r] IN
  IF w # NoCall /\ abort[w] = "no" /\ stage[w] \in Executing \cup {"saving"}
  THEN abort' = [abort EXCEPT ![w] = "saving"]
  ELSE UNCHANGED abort

\* stopExecution
StopEntry(id) ==
  LET r == entry[id] IN
  \/ /\ r = NoCall
     /\ UNCHANGED <<registryVars, abort>>
  \/ /\ r # NoCall
     /\ record[r] = "waiting"
     /\ entry' = [entry EXCEPT ![id] = NoCall]
     /\ UNCHANGED <<record, promise, attached, abort>>
  \/ /\ r # NoCall
     /\ record[r] # "waiting"
     /\ CancelAttached(r)
     /\ promise' = [promise EXCEPT ![r] = SettleOnce(r)]
     /\ UNCHANGED <<entry, record, attached>>

\* The `.finally` of the record's promise: give the reservation back, and
\* remove what stands under the id unless this record waits.
Settle(c) ==
  /\ promise[c] = "settled"
  /\ promise' = [promise EXCEPT ![c] = "done"]
  /\ Release(c)
  /\ entry' = [entry EXCEPT ![IdOf[c]] = IF record[c] = "waiting" THEN @ ELSE NoCall]
  /\ attached' = [attached EXCEPT ![c] = NoCall]
  /\ UNCHANGED <<runVars, stopping, record>>

-----------------------------------------------------------------------------
(***************************************************************************)
(* WorkflowRunner.run                                                      *)
(***************************************************************************)

\* The credentials check throws: a failed run is saved.
CheckFails(c) ==
  /\ Move(c, "checking", "failing")
  /\ SetStatus(IdOf[c], "error")
  /\ UNCHANGED <<ccVars, registryVars, stopping, step, outcome, timers, unwatched, abort>>

\* finalizeExecution after the hooks of the failed run.
AbandonFailed(c) ==
  /\ Move(c, "failing", "over")
  /\ Finalize(IdOf[c])
  /\ UNCHANGED <<ccVars, stopping, row, step, outcome, timers, unwatched, abort>>

\* The check passes; runMainProcess writes "running", whatever is there.
MarkRunning(c) ==
  /\ Move(c, "checking", "starting")
  /\ SetStatus(IdOf[c], "running")
  /\ UNCHANGED <<ccVars, registryVars, stopping, step, outcome, timers, unwatched, abort>>

\* The workflow has issues (WorkflowHasIssuesError): it does not start, and
\* processError finalizes the record.  run() rejects.
StartFails(c) ==
  /\ Move(c, "starting", "burying")
  /\ Finalize(IdOf[c])
  /\ UNCHANGED <<ccVars, stopping, row, step, outcome, timers, unwatched, abort>>

\* The hook processError awaits saves the failed run.
Bury(c) ==
  /\ Move(c, "burying", "over")
  /\ SetStatus(IdOf[c], "error")
  /\ UNCHANGED <<ccVars, registryVars, stopping, step, outcome, timers, unwatched, abort>>

\* processRunExecutionData starts, then attachWorkflowExecution puts it in
\* the record that stands under the id.  Without a record it throws; the
\* workflow has started all the same and nothing awaits its result.
StartWorkflow(c) ==
  /\ Move(c, "starting", "executing")
  /\ LET r == entry[IdOf[c]] IN
     \/ /\ r # NoCall
        /\ attached' = [attached EXCEPT ![r] = c]
        /\ timers' = IF MayTimeOut THEN timers \cup {c} ELSE timers
        /\ UNCHANGED unwatched
     \/ /\ r = NoCall
        /\ unwatched' = unwatched \cup {c}
        /\ UNCHANGED <<attached, timers>>
  /\ UNCHANGED <<ccVars, stopping, row, step, outcome, abort, entry, record, promise>>

\* The `.then` of runMainProcess.  When the record is gone getStatus throws
\* and processError swallows the ExecutionNotFoundError.
Return(c) ==
  /\ c \notin unwatched
  /\ Move(c, "ended", "over")
  /\ Finalize(IdOf[c])
  /\ timers' = timers \ {c}
  /\ UNCHANGED <<ccVars, stopping, row, step, outcome, unwatched, abort>>

-----------------------------------------------------------------------------
(***************************************************************************)
(* WorkflowExecute                                                         *)
(***************************************************************************)

\* SLIP: going to wait already gives the capacity back.
PauseSettling(c) ==
  LET r == entry[IdOf[c]] IN
  /\ step[c] < MaxWaits
  /\ abort[c] = "no"
  /\ r # NoCall
  /\ Move(c, "executing", "pausing")
  /\ record' = [record EXCEPT ![r] = "waiting"]
  /\ promise' = [promise EXCEPT ![r] = SettleOnce(r)]
  /\ UNCHANGED <<ccVars, stopping, row, step, outcome, timers, unwatched, abort, entry, attached>>

\* A node calls putExecutionToWait, which sets the status of the record that
\* stands under the id, and throws when there is none.
Pause(c) ==
  LET r == entry[IdOf[c]] IN
  /\ step[c] < MaxWaits
  /\ r # NoCall
  /\ Move(c, "executing", "pausing")
  /\ record' = [record EXCEPT ![r] = "waiting"]
  /\ UNCHANGED <<ccVars, stopping, row, step, outcome, timers, unwatched, abort, entry, promise, attached>>

\* The statuses a run can end with.  The loop itself ends with "canceled"
\* when the deadline of the workflow has passed.
Outcomes(c) ==
  IF stage[c] = "pausing" THEN {"waiting"}
  ELSE {"success", "error"} \cup (IF MayTimeOut THEN {"canceled"} ELSE {})

\* SLIP: the hook that saves runs before the one that determines the final
\* status.
FinishUndetermined(c) ==
  /\ stage[c] \in Executing
  /\ abort[c] = "no"
  /\ stage' = [stage EXCEPT ![c] = "saving"]
  /\ outcome' = [outcome EXCEPT ![c] = "running"]
  /\ UNCHANGED <<ccVars, registryVars, stopping, row, step, timers, unwatched, abort>>

\* The loop ends and the workflowExecuteAfter hook starts.
Finish(c) ==
  /\ stage[c] \in Executing
  /\ abort[c] = "no"
  /\ stage' = [stage EXCEPT ![c] = "saving"]
  /\ \E o \in Outcomes(c) : outcome' = [outcome EXCEPT ![c] = o]
  /\ UNCHANGED <<ccVars, registryVars, stopping, row, step, timers, unwatched, abort>>

\* The loop notices the abort and ends without the hook.
FinishAborted(c) ==
  /\ stage[c] \in Executing
  /\ abort[c] # "no"
  /\ stage' = [stage EXCEPT ![c] = "ended"]
  /\ UNCHANGED <<ccVars, registryVars, stopping, row, step, outcome, timers, unwatched, abort>>

\* hookFunctionsSave stores the outcome and the execution data.
Save(c) ==
  /\ Move(c, "saving", "ended")
  /\ row' = [row EXCEPT ![IdOf[c]] =
              [status |-> outcome[c],
               step |-> IF outcome[c] = "waiting" THEN step[c] + 1 ELSE step[c]]]
  /\ UNCHANGED <<ccVars, registryVars, stopping, step, outcome, timers, unwatched, abort>>

\* SLIP: the cancel handler does not run the hook.
ForgetCanceled(c) ==
  /\ abort[c] = "saving"
  /\ abort' = [abort EXCEPT ![c] = "saved"]
  /\ UNCHANGED <<ccVars, registryVars, stopping, row, stage, step, outcome, timers, unwatched>>

\* The hook the cancel handler started stores "canceled".
SaveCanceled(c) ==
  /\ abort[c] = "saving"
  /\ abort' = [abort EXCEPT ![c] = "saved"]
  /\ SetStatus(IdOf[c], "canceled")
  /\ UNCHANGED <<ccVars, registryVars, stopping, stage, step, outcome, timers, unwatched>>

-----------------------------------------------------------------------------
(***************************************************************************)
(* Stopping: ExecutionService.stop, the workflow timeout, shutdown         *)
(***************************************************************************)

\* The execution is read and found stoppable.
AskToStop(id) ==
  /\ MayRemove
  /\ stopping[id] = "no"
  /\ row[id].status \in {"new", "waiting", "running"}
  /\ stopping' = [stopping EXCEPT ![id] = "asked"]
  /\ UNCHANGED <<ccVars, runVars, registryVars>>

\* stopInRegularMode, up to the write of the row.
StopInRegularMode(id) ==
  /\ stopping[id] = "asked"
  /\ stopping' = [stopping EXCEPT ![id] = "storing"]
  /\ \/ /\ Has(id)
        /\ Remove(id)
        /\ UNCHANGED <<registryVars, abort>>
     \/ /\ ~Has(id)
        /\ StopEntry(id)
        /\ UNCHANGED ccVars
  /\ UNCHANGED <<row, stage, step, outcome, timers, unwatched>>

\* stopBeforeRun and stopDuringRun.
StoreStopped(id) ==
  /\ stopping[id] = "storing"
  /\ stopping' = [stopping EXCEPT ![id] = "stopped"]
  /\ SetStatus(id, "canceled")
  /\ UNCHANGED <<ccVars, registryVars, stage, step, outcome, timers, unwatched, abort>>

\* The timer of runMainProcess, set after the workflow was attached and
\* cleared by its `.then`.
TimeOut(c) ==
  /\ c \in timers
  /\ timers' = timers \ {c}
  /\ StopEntry(IdOf[c])
  /\ UNCHANGED <<ccVars, stopping, row, stage, step, outcome, unwatched>>

\* ActiveExecutions.shutdown, up to its wait for the registry to empty.  The
\* status of a record is never "new".
ShutDown ==
  /\ Disable
  /\ entry' = [id \in Ids |->
       IF entry[id] # NoCall /\ record[entry[id]] = "waiting" THEN NoCall ELSE entry[id]]
  /\ UNCHANGED <<runVars, record, promise, attached, stopping>>

-----------------------------------------------------------------------------

Add(c) == Create(c) \/ ReadToResume(c) \/ Reserve(c) \/ Proceed(c) \/ Store(c)
            \/ Refuse(c) \/ Register(c)

Run(c) == CheckFails(c) \/ AbandonFailed(c) \/ MarkRunning(c) \/ StartFails(c) \/ Bury(c)
            \/ StartWorkflow(c) \/ Return(c)

Execute(c) == Pause(c) \/ Finish(c) \/ FinishAborted(c) \/ Save(c)

Stop(id) == AskToStop(id) \/ StopInRegularMode(id) \/ StoreStopped(id)

LifecycleNext ==
  \/ \E c \in Calls : Add(c) \/ Run(c) \/ Execute(c) \/ SaveCanceled(c) \/ Settle(c) \/ TimeOut(c)
  \/ \E id \in Ids : Stop(id)
  \/ ShutDown

LifecycleSpec == LifecycleInit /\ [][LifecycleNext]_lifecycleVars

\* Promise continuations run, the database answers and nodes end.  Nothing
\* makes users start, resume or stop executions or the timeout fire.
LifecycleFairness ==
  /\ \A c \in Calls :
       /\ WF_lifecycleVars(Reserve(c) \/ Proceed(c) \/ Store(c) \/ Refuse(c) \/ Register(c))
       /\ WF_lifecycleVars(Run(c))
       /\ WF_lifecycleVars(Execute(c))
       /\ WF_lifecycleVars(SaveCanceled(c))
       /\ WF_lifecycleVars(Settle(c))
  /\ \A id \in Ids : WF_lifecycleVars(StopInRegularMode(id) \/ StoreStopped(id))

LifecycleFairSpec == LifecycleSpec /\ LifecycleFairness

-----------------------------------------------------------------------------
(***************************************************************************)
(* Properties                                                              *)
(***************************************************************************)

\* The types of the state.
LifecycleTypeOK ==
  /\ TypeOK
  /\ row \in [Ids -> [status : Statuses, step : 0..MaxWaits]]
  /\ stage \in [Calls -> Stages]
  /\ step \in [Calls -> 0..MaxWaits]
  /\ outcome \in [Calls -> {"none", "success", "error", "waiting", "canceled"}]
  /\ timers \subseteq Calls
  /\ unwatched \subseteq Calls
  /\ abort \in [Calls -> {"no", "saving", "saved"}]
  /\ entry \in [Ids -> Calls \cup {NoCall}]
  /\ record \in [Calls -> {"none", "running", "waiting"}]
  /\ promise \in [Calls -> {"none", "pending", "settled", "done"}]
  /\ attached \in [Calls -> Calls \cup {NoCall}]
  /\ stopping \in [Ids -> {"no", "asked", "storing", "stopped"}]

\* "Another process is already resuming this execution" (add): however many
\* calls resume an execution, and whatever stops it meanwhile, no two run its
\* nodes at the same time.
SingleRunner ==
  \A c, d \in Calls :
    IdOf[c] = IdOf[d] /\ stage[c] \in Executing /\ stage[d] \in Executing => c = d

\* The database never says "running" of an execution nobody will finish: a
\* call is between its write of "running" and that of its outcome, or the
\* hook of its cancellation is about to store "canceled".
RunningRowIsOwned ==
  \A id \in Ids : row[id].status = "running" =>
    \E c \in Calls : IdOf[c] = id /\ (stage[c] \in Underway \/ abort[c] = "saving")

\* "Returns all the currently active executions" (getActiveExecutions): a
\* workflow that runs nodes is the one its id's record can cancel.
RunningIsListed ==
  \A c \in Calls : stage[c] \in Executing /\ abort[c] = "no" =>
    /\ entry[IdOf[c]] = c
    /\ attached[c] = c
    /\ promise[c] = "pending"

\* What the concurrency limit is for: at most that many workflows of
\* production executions run nodes at the same time.
WorkflowsWithinLimit ==
  enabled => \A t \in QueueTypes : Limit[t] > 0 =>
    Cardinality({c \in Calls : QueueOf(c) = t /\ stage[c] \in Executing}) <= Limit[t]

\* Every step of the life of an execution is a step of the concurrency
\* control or leaves it alone: each reservation is released by whoever
\* acquired it, once, so the theorems about ConcurrencyControl hold here.
ReservationProtocol == CCSpec

\* "Automatically remove execution once the postExecutePromise settles": the
\* capacity an execution holds is given back in the end.
CapacityComesBack ==
  \A c \in Calls : call[c] = "held" ~> call[c] = "released"

\* Every execution that was let through gets a final status or waits.
AdmittedConcludes ==
  \A id \in Ids : row[id].status = "running" ~> row[id].status # "running"
=============================================================================

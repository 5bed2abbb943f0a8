--------------------------- MODULE ProcessRestart ---------------------------
(***************************************************************************)
(* Crash and restart of a regular-mode main process: what the memory of    *)
(* ExecutionLifecycle loses, and what the next process makes of the rows   *)
(* and the event log it finds.                                             *)
(*                                                                         *)
(* Startup order (commands/start.ts, abstract-server.ts, server.ts): the   *)
(* wait tracker and the webhook routes are live first, then the event bus  *)
(* runs its recovery pass, then the relay that feeds the event log starts, *)
(* then the executions left in status "new" are run.  A graceful restart   *)
(* after a shutdown leaves the same rows and log as a crash at that point. *)
(***************************************************************************)
EXTENDS ExecutionLifecycle

CONSTANTS
  RecoveryModes,     \* what N8N_EVENTBUS_RECOVERY_MODE may be: "extensive", "simple"
  ServesWhileBooting \* whether timers and requests come in before recovery ends

\* "none" stands for no execution.
ASSUME RestartAssumption ==
  /\ RecoveryModes \subseteq {"extensive", "simple"}
  /\ ServesWhileBooting \in BOOLEAN
  /\ "none" \notin Ids

VARIABLES
  phase,      \* of the process: serving, booting, recovering, recovered, again
  mode,       \* the recovery mode of the process that starts after the crash
  logged,     \* what the event log holds of an unfinished execution
  unfinished, \* the executions the recovery pass still has to look at
  recovering, \* the execution it is amending, as it read it
  enqueued,   \* the executions runEnqueuedExecutions has listed
  atCrash     \* history: the rows when the process died

restartVars == <<lifecycleVars, phase, mode, logged, unfinished, recovering, enqueued, atCrash>>

NoRecovery == [id |-> "none", waits |-> FALSE, step |-> 0, written |-> FALSE]

RestartInit ==
  /\ LifecycleInit
  /\ phase = "serving"
  /\ mode = "none"
  /\ logged = [id \in Ids |-> "nothing"]
  /\ unfinished = {}
  /\ recovering = NoRecovery
  /\ enqueued = {}
  /\ atCrash = row

-----------------------------------------------------------------------------
(***************************************************************************)
(* The event log: n8n.workflow.* and n8n.node.* events                     *)
(***************************************************************************)

\* LogStreamingEventRelay listens from the end of the recovery pass on.
Logging == phase \in {"serving", "again"}

\* A workflow starts, a node of it starts, and the hook at its end logs
\* success or failure, unless the execution waits.  A resumed execution does
\* not log that its workflow started.
LogAfter(c) ==
  CASE stage[c] = "starting" /\ stage'[c] = "executing" /\ KindOf[c] = "new" -> "started"
    [] stage[c] = "checking" /\ stage'[c] = "failing" -> "nothing"
    [] stage[c] = "starting" /\ stage'[c] = "burying" -> "nothing"
    [] stage[c] = "executing" /\ stage'[c] = "saving" /\ outcome'[c] # "waiting" -> "nothing"
    [] abort[c] = "no" /\ abort'[c] = "saving" -> "nothing"
    [] OTHER -> logged[IdOf[c]]

\* No node can end, or put the execution to wait, before it has started.
RanANode(c) ==
  stage[c] = "executing" /\ stage'[c] \in {"pausing", "saving"} => logged[IdOf[c]] = "nodes"

\* A step of ExecutionLifecycle, with what it logs.
LifecycleStep ==
  /\ phase \in {"serving", "again"} \/ ServesWhileBooting
  /\ LifecycleNext
  /\ \/ /\ Logging
        /\ \A c \in Calls : RanANode(c)
        /\ \E c \in Calls :
             /\ \A d \in Calls \ {c} : LogAfter(d) = logged[IdOf[d]]
             /\ logged' = [logged EXCEPT ![IdOf[c]] = LogAfter(c)]
     \/ /\ ~Logging
        /\ UNCHANGED logged
  /\ UNCHANGED <<phase, mode, unfinished, recovering, enqueued, atCrash>>

\* The first node of a workflow starts.
StartNode(c) ==
  /\ Logging
  /\ stage[c] = "executing"
  /\ logged[IdOf[c]] # "nodes"
  /\ logged' = [logged EXCEPT ![IdOf[c]] = "nodes"]
  /\ UNCHANGED <<lifecycleVars, phase, mode, unfinished, recovering, enqueued, atCrash>>

-----------------------------------------------------------------------------
(***************************************************************************)
(* Crash                                                                   *)
(***************************************************************************)

\* Everything but the rows and the log is lost.  Calls and requests that had
\* begun are over; those that had not may be made in the next process.
Crash ==
  /\ phase = "serving"
  /\ phase' = "booting"
  /\ mode' \in RecoveryModes
  /\ atCrash' = row
  /\ enabled' = ((\E t \in QueueTypes : Limit[t] # -1) /\ ExecutionsMode # "queue")
  /\ capacity' = Limit
  /\ queue' = [t \in QueueTypes |-> <<>>]
  /\ call' = [c \in Calls |-> IF call[c] = "idle" THEN "idle" ELSE "released"]
  /\ stage' = [c \in Calls |-> IF stage[c] = "idle" THEN "idle" ELSE "over"]
  /\ step' = [c \in Calls |-> 0]
  /\ outcome' = [c \in Calls |-> "none"]
  /\ timers' = {}
  /\ unwatched' = {}
  /\ abort' = [c \in Calls |-> "no"]
  /\ entry' = [id \in Ids |-> NoCall]
  /\ record' = [c \in Calls |-> "none"]
  /\ promise' = [c \in Calls |-> "none"]
  /\ attached' = [c \in Calls |-> NoCall]
  /\ stopping' = [id \in Ids |-> IF stopping[id] = "no" THEN "no" ELSE "stopped"]
  /\ UNCHANGED <<row, logged, unfinished, recovering, enqueued>>

-----------------------------------------------------------------------------
(***************************************************************************)
(* MessageEventBus.initialize and ExecutionRecoveryService                 *)
(***************************************************************************)

\* SLIP: only the log is asked for unfinished executions.
ListUnfinishedFromLog ==
  /\ phase = "booting"
  /\ phase' = "recovering"
  /\ unfinished' = {id \in Ids : logged[id] # "nothing"}
  /\ UNCHANGED <<lifecycleVars, mode, logged, recovering, enqueued, atCrash>>

\* Executions the log has a start but no end of, and all rows that say
\* "running".
ListUnfinished ==
  /\ phase = "booting"
  /\ phase' = "recovering"
  /\ unfinished' = {id \in Ids : logged[id] # "nothing" \/ row[id].status = "running"}
  /\ UNCHANGED <<lifecycleVars, mode, logged, recovering, enqueued, atCrash>>

\* crashRecoveryMode "simple".
MarkAllAsCrashed ==
  /\ phase = "recovering"
  /\ mode = "simple"
  /\ unfinished # {}
  /\ row' = [id \in Ids |->
       IF id \in unfinished THEN [row[id] EXCEPT !.status = "crashed"] ELSE row[id]]
  /\ unfinished' = {}
  /\ UNCHANGED <<ccVars, stage, step, outcome, timers, unwatched, abort, registryVars,
                 stopping, phase, mode, logged, recovering, enqueued, atCrash>>

\* What recoverFromLogs has read of the execution it amends.
AsRead(id) ==
  [id |-> id, waits |-> row[id].status = "waiting", step |-> row[id].step, written |-> FALSE]

Ended(id) == row[id].status \in {"success", "error", "canceled"}

\* SLIP: does not look whether the execution has finished.
AmendAnything(id) ==
  /\ phase = "recovering"
  /\ mode = "extensive"
  /\ recovering = NoRecovery
  /\ id \in unfinished
  /\ unfinished' = unfinished \ {id}
  /\ recovering' = AsRead(id)
  /\ UNCHANGED <<lifecycleVars, phase, mode, logged, enqueued, atCrash>>

\* recoverFromLogs, up to its first write.  Without a log the row is marked
\* as crashed and read; with one, the execution is amended from the events of
\* its nodes, if there are any and it has not finished.
Amend(id) ==
  /\ phase = "recovering"
  /\ mode = "extensive"
  /\ recovering = NoRecovery
  /\ id \in unfinished
  /\ unfinished' = unfinished \ {id}
  /\ \/ /\ logged[id] = "nothing"
        /\ recovering' = AsRead(id)
        /\ SetStatus(id, "crashed")
     \/ /\ logged[id] = "nodes"
        /\ ~Ended(id)
        /\ recovering' = AsRead(id)
        /\ UNCHANGED row
     \/ /\ logged[id] = "nodes" => Ended(id)
        /\ logged[id] # "nothing"
        /\ UNCHANGED <<row, recovering>>
  /\ UNCHANGED <<ccVars, stage, step, outcome, timers, unwatched, abort, registryVars,
                 stopping, phase, mode, logged, enqueued, atCrash>>

\* The amended execution is written back, as it was read, with status
\* "crashed".
WriteCrashed ==
  /\ recovering # NoRecovery
  /\ ~recovering.written
  /\ recovering' = [recovering EXCEPT !.written = TRUE]
  /\ row' = [row EXCEPT ![recovering.id] = [status |-> "crashed", step |-> recovering.step]]
  /\ UNCHANGED <<ccVars, stage, step, outcome, timers, unwatched, abort, registryVars,
                 stopping, phase, mode, logged, unfinished, enqueued, atCrash>>

\* SLIP: the run handed to the hooks has no waitTill.
RunHooksWithoutWaitTill ==
  /\ recovering # NoRecovery
  /\ recovering.written
  /\ row' = [row EXCEPT ![recovering.id] = [status |-> "crashed", step |-> recovering.step]]
  /\ recovering' = NoRecovery
  /\ UNCHANGED <<ccVars, stage, step, outcome, timers, unwatched, abort, registryVars,
                 stopping, phase, mode, logged, unfinished, enqueued, atCrash>>

\* runHooks: the workflowExecuteAfter hooks save the execution once more.
\* The waitTill of an execution that waited makes its final status "waiting".
RunHooks ==
  /\ recovering # NoRecovery
  /\ recovering.written
  /\ row' = [row EXCEPT ![recovering.id] =
              [status |-> IF recovering.waits THEN "waiting" ELSE "crashed",
               step |-> recovering.step]]
  /\ recovering' = NoRecovery
  /\ UNCHANGED <<ccVars, stage, step, outcome, timers, unwatched, abort, registryVars,
                 stopping, phase, mode, logged, unfinished, enqueued, atCrash>>

EndRecovery ==
  /\ phase = "recovering"
  /\ unfinished = {}
  /\ recovering = NoRecovery
  /\ phase' = "recovered"
  /\ UNCHANGED <<lifecycleVars, mode, logged, unfinished, recovering, enqueued, atCrash>>

-----------------------------------------------------------------------------
(***************************************************************************)
(* Start.runEnqueuedExecutions                                             *)
(***************************************************************************)

\* findAllEnqueuedExecutions
ListEnqueued ==
  /\ phase = "recovered"
  /\ phase' = "again"
  /\ enqueued' = {id \in Ids : row[id].status = "new"}
  /\ UNCHANGED <<lifecycleVars, mode, logged, unfinished, recovering, atCrash>>

\* workflowRunner.run(data, undefined, false, execution.id), not awaited.
RunEnqueued(c) ==
  /\ phase = "again"
  /\ KindOf[c] = "restart"
  /\ IdOf[c] \in enqueued
  /\ Move(c, "idle", "reserving")
  /\ UNCHANGED <<ccVars, registryVars, stopping, row, step, outcome, timers, unwatched, abort,
                 phase, mode, logged, unfinished, recovering, enqueued, atCrash>>

-----------------------------------------------------------------------------

Recover ==
  \/ ListUnfinished
  \/ MarkAllAsCrashed
  \/ \E id \in Ids : Amend(id)
  \/ WriteCrashed
  \/ RunHooks
  \/ EndRecovery
  \/ ListEnqueued

RestartNext ==
  \/ LifecycleStep
  \/ \E c \in Calls : StartNode(c) \/ RunEnqueued(c)
  \/ Crash
  \/ Recover

RestartSpec == RestartInit /\ [][RestartNext]_restartVars

-----------------------------------------------------------------------------
(***************************************************************************)
(* Properties                                                              *)
(***************************************************************************)

\* The types of the state this module adds.
RestartTypeOK ==
  /\ phase \in {"serving", "booting", "recovering", "recovered", "again"}
  /\ mode \in {"none"} \cup RecoveryModes
  /\ phase # "serving" => mode # "none"
  /\ logged \in [Ids -> {"nothing", "started", "nodes"}]
  /\ unfinished \subseteq Ids
  /\ enqueued \subseteq Ids
  /\ recovering = NoRecovery \/ recovering.id \in Ids
  /\ row \in [Ids -> [status : Statuses, step : 0..MaxWaits]]

\* "Hence we need to filter out finished executions here" (amend): a status
\* an execution ended with before the crash survives the extensive recovery,
\* also when its end had not been logged.
FinishedStaysFinished ==
  \A id \in Ids :
    mode = "extensive" /\ atCrash[id].status \in {"success", "error", "canceled"}
      => row[id] = atCrash[id]

\* An execution that waited when the process died waits again, with the same
\* data, when the extensive recovery has ended, although the log has no end
\* of it and the pass has written "crashed" over it.
WaitingSurvives ==
  \A id \in Ids :
    phase = "recovered" /\ mode = "extensive" /\ atCrash[id].status = "waiting"
      => row[id] = atCrash[id]

\* "Whether to recover execution details after a crash or only mark status
\* executions as crashed" (EventBusConfig): no execution that the process died
\* with says it is running once the recovery has ended, in either mode.  The
\* extensive one amends nothing when the log holds the start of a workflow and
\* of none of its nodes.
CutOffIsCrashed ==
  \A id \in Ids :
    /\ phase = "recovered" /\ atCrash[id].status = "running"
    /\ mode = "extensive" => logged[id] # "started"
    => row[id].status # "running"
=============================================================================

------------------------- MODULE WorkflowActivation -------------------------
(***************************************************************************)
(* Activation of a workflow: cli/src/active-workflow-manager.ts with       *)
(* core/.../active-workflows.ts, the requests of users in                  *)
(* workflows/workflow.service.ts, and the commands mains send each other.  *)
(*                                                                         *)
(* Workflows share nothing but the pass over all of them, so there is one  *)
(* here, with one trigger node; what starting it leaves running is called  *)
(* a listener.  That at most one main is leader at a time is shown in      *)
(* LeaderElection.                                                         *)
(*                                                                         *)
(* Left out: rows of webhooks, which all mains share; polling nodes;       *)
(* errors of authorization, which are not retried; close functions that    *)
(* throw.  Of calls of one kind that overlap on a main, the second waits.  *)
(***************************************************************************)
EXTENDS Integers, Sequences, FiniteSets, SequencesExt, FiniteSetsExt

CONSTANTS
  Mains,
  MaxUpsets \* users' requests, failures, crashes and stepdowns

NoLeader == "nobody"

ASSUME ActivationAssumption ==
  Mains # {} /\ IsFiniteSet(Mains) /\ NoLeader \notin Mains /\ MaxUpsets \in Nat

VARIABLES
  multi,     \* isMultiMain
  leader,    \* the main that is, or NoLeader
  up,        \* the mains that called activeWorkflowManager.init
  row,       \* activeVersionId of the workflow, 0 when it is inactive
  user,      \* what a user's request is at, and the version it is for
  inbox,     \* commands on their way to each main
  add,       \* the calls of add() in each main, by caller
  remove,    \* the calls that make it inactive in memory, by caller
  entry,     \* activeWorkflows[workflowId]: the listeners in it
  listening, \* the listeners of each main
  queued,    \* queuedActivations[workflowId]
  upsets,    \* how many there were
  skipped,   \* the leaders whose pass at takeover was skipped
  astray     \* the mains where an activation was crossed by something

mainVars == <<multi, leader, up>>
userVars == <<row, user>>
memory   == <<entry, listening, queued>>
history  == <<upsets, skipped>>
vars == <<mainVars, userVars, inbox, add, remove, memory, history, astray>>

Adding   == {"pass", "request", "retry"}
Removing == {"request", "stepdown", "error"}

\* A main starts listeners at its first pass, a takeover, and by each request
\* or retry.
MaxListeners == MaxUpsets + 2

NoAdd      == [at |-> "idle", version |-> 0]
NoRemoval  == [at |-> "idle", closing |-> {}]
Waiting    == [at |-> "wait", closing |-> {}]
NoQueue    == [version |-> 0, timer |-> FALSE]

ActivationInit ==
  /\ multi \in BOOLEAN
  /\ leader \in IF multi THEN Mains \cup {NoLeader} ELSE Mains
  /\ up = IF multi THEN Mains ELSE {leader}
  /\ row \in {0, 1}
  /\ user = [at |-> "idle", goal |-> 0]
  /\ inbox = [m \in Mains |-> <<>>]
  /\ add = [m \in Mains |-> [k \in Adding |->
              IF k = "pass" /\ m \in up THEN [NoAdd EXCEPT !.at = "read"] ELSE NoAdd]]
  /\ remove = [m \in Mains |-> [k \in Removing |-> NoRemoval]]
  /\ entry = [m \in Mains |-> {}]
  /\ listening = [m \in Mains |-> {}]
  /\ queued = [m \in Mains |-> NoQueue]
  /\ upsets = 0
  /\ skipped = {}
  /\ astray = {}

----------------------------------------------------------------------------
(***************************************************************************)
(* What the properties do not speak of                                     *)
(***************************************************************************)
InFlight(m, k) == add[m][k].at \in {"webhooks", "trigger"}

\* An activation that has read the row is under way, and so is another one, a
\* removal, or a user's change of the row; or the row is no longer what it has
\* seen.
Crossed(m) ==
  \E k \in Adding :
    /\ InFlight(m, k)
    /\ \/ \E j \in Adding \ {k} : InFlight(m, j)
       \/ \E j \in Removing : remove[m][j] # NoRemoval
       \/ user.at = "store"
       \/ row # add[m][k].version

\* Such a main, and one that the caller names, is not spoken of any more until
\* it is started again.
Mark(M) == astray' = (astray \cup M) \cup {m \in Mains : Crossed(m)'}

Upset == upsets < MaxUpsets /\ upsets' = upsets + 1

\* Without several mains the leader is the only one.
Runs(m) == multi \/ leader = m

----------------------------------------------------------------------------
(***************************************************************************)
(* Activation                                                              *)
(***************************************************************************)
SetAdd(m, k, to) == add' = [add EXCEPT ![m][k] = to]

\* addActiveWorkflows: while a pass is in progress another one is skipped.
BeginPass(m) ==
  IF add[m]["pass"].at = "idle" THEN SetAdd(m, "pass", [NoAdd EXCEPT !.at = "read"])
  ELSE UNCHANGED add

StartUp(m) ==
  /\ Runs(m)
  /\ m \notin up
  /\ up' = up \cup {m}
  /\ BeginPass(m)
  /\ UNCHANGED <<multi, leader, userVars, inbox, remove, memory, history>>
  /\ Mark({})

\* The end of a user's request that adds the workflow itself.
UserAdded(k) ==
  user' = IF k = "request" /\ ~multi THEN [user EXCEPT !.at = "idle"] ELSE user

\* SLIP: the role is not looked at.
GoRegardless(m, k, version) ==
  SetAdd(m, k, [at |-> "trigger", version |-> version])

\* The role is looked at once, when the workflow has been read.
Go(m, k, version) ==
  SetAdd(m, k, [at |-> IF leader = m THEN "trigger" ELSE "webhooks", version |-> version])

\* A pass skips what is not active (any more), a request for it fails.
Read(m, k) ==
  /\ add[m][k].at = "read"
  /\ \/ row # 0 /\ Go(m, k, row) /\ UNCHANGED user
     \/ row = 0 /\ SetAdd(m, k, NoAdd) /\ UserAdded(k)
  /\ UNCHANGED <<mainVars, row, inbox, remove, memory, history>>
  /\ Mark({})

\* removeQueuedWorkflowActivation at the end of add()
Activated(m, k) ==
  /\ SetAdd(m, k, NoAdd)
  /\ queued' = [queued EXCEPT ![m] = NoQueue]
  /\ UserAdded(k)
  /\ UNCHANGED <<mainVars, row, inbox, remove, history>>

AddWebhooks(m, k) ==
  /\ add[m][k].at = "webhooks"
  /\ Activated(m, k)
  /\ UNCHANGED <<entry, listening>>
  /\ Mark({})

\* The trigger is started, and the new entry replaces one that is there, whose
\* listener nobody closes then.
Register(m, k) ==
  /\ add[m][k].at = "trigger"
  /\ LET free == {i \in 1 .. MaxListeners : \A l \in listening[m] : l.id # i}
         new  == [id |-> Min(free), version |-> add[m][k].version]
     IN  /\ listening' = [listening EXCEPT ![m] = @ \cup {new}]
         /\ entry' = [entry EXCEPT ![m] = {new}]
  /\ Activated(m, k)
  /\ Mark(IF entry[m] = {} THEN {} ELSE {m})

\* Webhooks or the trigger fail.  A pass queues the activation, a retry its
\* next one, and a request makes the workflow inactive, whoever listens.
\* SLIP: a pass forgets what failed.
FailAddUnqueued(m, k) ==
  /\ add[m][k].at \in {"webhooks", "trigger"}
  /\ Upset
  /\ SetAdd(m, k, NoAdd)
  /\ row' = IF k = "request" THEN 0 ELSE row
  /\ UserAdded(k)
  /\ UNCHANGED <<mainVars, inbox, remove, memory, skipped>>
  /\ Mark(IF k = "request" THEN {n \in Mains : listening[n] # {}} ELSE {})

FailAdd(m, k) ==
  /\ add[m][k].at \in {"webhooks", "trigger"}
  /\ Upset
  /\ SetAdd(m, k, NoAdd)
  /\ queued' = [queued EXCEPT ![m] =
                 CASE k = "pass" -> [version |-> add[m][k].version, timer |-> TRUE]
                   [] k = "retry" /\ @ # NoQueue -> [@ EXCEPT !.timer = TRUE]
                   [] OTHER -> @]
  /\ row' = IF k = "request" THEN 0 ELSE row
  /\ UserAdded(k)
  /\ UNCHANGED <<mainVars, inbox, remove, entry, listening, skipped>>
  /\ Mark(IF k = "request" THEN {n \in Mains : listening[n] # {}} ELSE {})

\* retryFunction, with the workflow as it was when it was queued.  With several
\* mains its add() does no more than publish a command.
Retry(m) ==
  /\ queued[m].timer
  /\ queued' = [queued EXCEPT ![m].timer = FALSE]
  /\ IF multi
     THEN /\ inbox' = [n \in Mains |-> Append(inbox[n], "add")]
          /\ UNCHANGED add
     ELSE /\ add[m]["retry"] = NoAdd
          /\ Go(m, "retry", queued[m].version)
          /\ UNCHANGED inbox
  /\ UNCHANGED <<mainVars, userVars, remove, entry, listening, history>>
  /\ Mark({})

----------------------------------------------------------------------------
(***************************************************************************)
(* Deactivation                                                            *)
(***************************************************************************)
\* activeWorkflows.remove up to the first close
Closing(m) ==
  IF entry[m] = {} THEN NoRemoval ELSE [at |-> "closing", closing |-> entry[m]]

\* After clearWebhooks, or removeActivationError in the handler of a command.
BeginRemoval(m) ==
  /\ remove[m]["request"].at = "wait"
  /\ remove' = [remove EXCEPT ![m]["request"] = Closing(m)]
  /\ IF multi THEN UNCHANGED <<queued, user>>
     ELSE /\ queued' = [queued EXCEPT ![m] = NoQueue]
          /\ user' = IF entry[m] = {} THEN [user EXCEPT !.at = "store"] ELSE user
  /\ UNCHANGED <<mainVars, row, inbox, add, entry, listening, history>>
  /\ Mark({})

\* The listeners are closed, and the entry that is there by then is deleted.
Close(m, k) ==
  /\ remove[m][k].at = "closing"
  /\ remove' = [remove EXCEPT ![m][k] = NoRemoval]
  /\ listening' = [listening EXCEPT ![m] = @ \ remove[m][k].closing]
  /\ entry' = [entry EXCEPT ![m] = {}]
  /\ user' = IF k = "request" /\ ~multi THEN [user EXCEPT !.at = "store"] ELSE user
  /\ UNCHANGED <<mainVars, row, inbox, add, queued, history>>
  /\ Mark({})

\* emitError: the workflow is removed from memory and its activation queued.
EmitError(m) ==
  /\ remove[m]["error"] = NoRemoval
  /\ Upset
  /\ \E l \in listening[m] :
       queued' = [queued EXCEPT ![m] = [version |-> l.version, timer |-> TRUE]]
  /\ remove' = [remove EXCEPT ![m]["error"] = Closing(m)]
  /\ UNCHANGED <<mainVars, userVars, inbox, add, entry, listening, skipped>>
  /\ Mark({})

----------------------------------------------------------------------------
(***************************************************************************)
(* Users                                                                   *)
(***************************************************************************)
\* activateWorkflow, of a workflow that is inactive or active in another
\* version, and deactivateWorkflow (goal 0)
Ask ==
  /\ user.at = "idle"
  /\ Upset
  /\ \E goal \in {0, row + 1} \ {row} :
       user' = [at |-> IF row = 0 THEN "store" ELSE "remove", goal |-> goal]
  /\ UNCHANGED <<mainVars, row, inbox, add, remove, memory, skipped>>
  /\ Mark({})

\* remove()
AskToRemove ==
  /\ user.at = "remove"
  /\ IF multi
     THEN /\ inbox' = [n \in Mains |-> Append(inbox[n], "remove")]
          /\ user' = [user EXCEPT !.at = "store"]
          /\ UNCHANGED remove
     ELSE /\ remove' = [remove EXCEPT ![leader]["request"] = Waiting]
          /\ user' = [user EXCEPT !.at = "removing"]
          /\ UNCHANGED inbox
  /\ UNCHANGED <<mainVars, row, add, memory, history>>
  /\ Mark({})

Store ==
  /\ user.at = "store"
  /\ row' = user.goal
  /\ user' = [user EXCEPT !.at = IF user.goal = 0 THEN "idle" ELSE "add"]
  /\ UNCHANGED <<mainVars, inbox, add, remove, memory, history>>
  /\ Mark({})

\* add(), which with several mains looks at the row again and publishes.
AskToAdd ==
  /\ user.at = "add"
  /\ IF multi
     THEN /\ inbox' = IF row = 0 THEN inbox ELSE [n \in Mains |-> Append(inbox[n], "add")]
          /\ user' = [user EXCEPT !.at = "idle"]
          /\ UNCHANGED add
     ELSE /\ SetAdd(leader, "request", [NoAdd EXCEPT !.at = "read"])
          /\ user' = [user EXCEPT !.at = "adding"]
          /\ UNCHANGED inbox
  /\ UNCHANGED <<mainVars, row, remove, memory, history>>
  /\ Mark({})

\* A command comes in; only the leader handles it.
Deliver(m) ==
  /\ inbox[m] # <<>>
  /\ inbox' = [inbox EXCEPT ![m] = Tail(@)]
  /\ \/ /\ leader # m
        /\ UNCHANGED <<add, remove>>
     \/ /\ leader = m /\ Head(inbox[m]) = "add"
        /\ add[m]["request"] = NoAdd
        /\ SetAdd(m, "request", [NoAdd EXCEPT !.at = "read"])
        /\ UNCHANGED remove
     \/ /\ leader = m /\ Head(inbox[m]) = "remove"
        /\ remove[m]["request"] = NoRemoval
        /\ remove' = [remove EXCEPT ![m]["request"] = Waiting]
        /\ UNCHANGED add
  /\ UNCHANGED <<mainVars, userVars, memory, history>>
  /\ Mark({})

----------------------------------------------------------------------------
(***************************************************************************)
(* Leadership and crashes                                                  *)
(***************************************************************************)
TakeOver(m) ==
  /\ multi /\ leader = NoLeader
  /\ leader' = m
  /\ BeginPass(m)
  /\ skipped' = IF add[m]["pass"].at = "idle" THEN skipped \ {m} ELSE skipped \cup {m}
  /\ UNCHANGED <<multi, up, userVars, inbox, remove, memory, upsets>>
  /\ Mark({})

\* removeAllTriggerAndPollerBasedWorkflows.  The queue of activations stays.
StepDown(m) ==
  /\ multi /\ leader = m
  /\ remove[m]["stepdown"] = NoRemoval
  /\ Upset
  /\ leader' = NoLeader
  /\ remove' = [remove EXCEPT ![m]["stepdown"] = Closing(m)]
  /\ UNCHANGED <<multi, up, userVars, inbox, add, memory, skipped>>
  /\ Mark(IF \E k \in Adding : add[m][k].at = "trigger" THEN {m} ELSE {})

\* The process ends and is started again.  With one main it takes the user's
\* request along.
Crash(m) ==
  /\ Runs(m) /\ m \in up
  /\ Upset
  /\ leader' = IF multi /\ leader = m THEN NoLeader ELSE leader
  /\ up' = up \ {m}
  /\ user' = IF multi THEN user ELSE [user EXCEPT !.at = "idle"]
  /\ inbox' = [inbox EXCEPT ![m] = <<>>]
  /\ add' = [add EXCEPT ![m] = [k \in Adding |-> NoAdd]]
  /\ remove' = [remove EXCEPT ![m] = [k \in Removing |-> NoRemoval]]
  /\ entry' = [entry EXCEPT ![m] = {}]
  /\ listening' = [listening EXCEPT ![m] = {}]
  /\ queued' = [queued EXCEPT ![m] = NoQueue]
  /\ skipped' = skipped \ {m}
  /\ UNCHANGED <<multi, row>>
  /\ astray' = (astray \ {m}) \cup {n \in Mains : Crossed(n)'}

----------------------------------------------------------------------------
Activate(m) ==
  \E k \in Adding : Read(m, k) \/ AddWebhooks(m, k) \/ Register(m, k)

Deactivate(m) == BeginRemoval(m) \/ \E k \in Removing : Close(m, k)

Next ==
  \/ Ask \/ AskToRemove \/ Store \/ AskToAdd
  \/ \E m \in Mains :
       \/ StartUp(m) \/ Activate(m) \/ Retry(m) \/ Deactivate(m) \/ Deliver(m)
       \/ TakeOver(m) \/ StepDown(m) \/ Crash(m) \/ EmitError(m)
       \/ \E k \in Adding : FailAdd(m, k)

\* What is awaited answers, commands arrive, timers fire, a process that ended
\* is started again, and a request of a user goes on once it began.  None of
\* these goes on for ever without an upset, so that it is enough to ask that
\* one of them is taken as long as there is one.
Progress ==
  \/ AskToRemove \/ Store \/ AskToAdd
  \/ \E m \in Mains :
       StartUp(m) \/ Activate(m) \/ Retry(m) \/ Deactivate(m) \/ Deliver(m)

ActivationSpec == ActivationInit /\ [][Next]_vars /\ WF_vars(Progress)

----------------------------------------------------------------------------
(***************************************************************************)
(* Properties                                                              *)
(***************************************************************************)
\* Triggers listen where the leader is, in the version that is active (the
\* comment of shouldAddTriggersAndPollers): a main that is not leader has a
\* listener only while it is closing it, and one that is leader has none of
\* another version unless it is closing it or the command to do so is on its
\* way.  The mains that are astray are excepted.
SilentElsewhere ==
  \A m \in Mains \ astray : \A l \in listening[m] :
    \/ \E k \in Removing : remove[m][k] # NoRemoval
    \/ /\ leader = m
       /\ l.version = row \/ Contains(inbox[m], "remove")

\* A workflow that stays active is listened for by a leader that stays leader
\* (addActiveWorkflows, the queue of activations and the commands together),
\* whatever failed, crashed or went unheard before.  Excepted are a leader whose
\* pass at takeover was skipped and one that is astray.
ActiveIsListening ==
  \A m \in Mains :
    <>[](leader = m /\ row # 0 /\ m \notin skipped \cup astray)
      => <>[](\E l \in listening[m] : l.version = row)
=============================================================================

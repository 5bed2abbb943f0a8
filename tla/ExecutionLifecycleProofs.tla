----------------------- MODULE ExecutionLifecycleProofs -----------------------
(***************************************************************************)
(* Proofs about ExecutionLifecycle, for every set of calls and every       *)
(* setting of its flags: the registry uses the concurrency control as that *)
(* component's specification allows, no execution runs twice at once, and  *)
(* a row that says "running" has a call that will change it.  Without      *)
(* stops, timeouts and overlaps, what runs is in the registry and within   *)
(* the limit.  The second part is about ProcessRestart.                    *)
(***************************************************************************)
EXTENDS ProcessRestart, ConcurrencyControlProofs

-----------------------------------------------------------------------------
(***************************************************************************)
(* The concurrency control inside the life of executions                   *)
(***************************************************************************)

\* Every step is a step of the concurrency control or leaves it alone.
LEMMA StepsReserve ==
  LifecycleNext => CCNext \/ UNCHANGED ccVars
<1> SUFFICES ASSUME LifecycleNext PROVE CCNext \/ UNCHANGED ccVars
  OBVIOUS
<1>1. ASSUME NEW c \in Calls, Add(c) PROVE CCNext \/ UNCHANGED ccVars
  BY <1>1 DEF Add, Create, ReadToResume, Reserve, Proceed, Store, Refuse, Register, CCNext
<1>2. ASSUME NEW c \in Calls, Run(c) PROVE UNCHANGED ccVars
  BY <1>2 DEF Run, CheckFails, AbandonFailed, MarkRunning, StartFails, Bury, StartWorkflow, Return
<1>3. ASSUME NEW c \in Calls, Execute(c) PROVE UNCHANGED ccVars
  BY <1>3 DEF Execute, Pause, Finish, FinishAborted, Save
<1>4. ASSUME NEW c \in Calls, SaveCanceled(c) PROVE UNCHANGED ccVars
  BY <1>4 DEF SaveCanceled
<1>5. ASSUME NEW c \in Calls, Settle(c) PROVE CCNext
  BY <1>5 DEF Settle, CCNext
<1>6. ASSUME NEW c \in Calls, TimeOut(c) PROVE UNCHANGED ccVars
  BY <1>6 DEF TimeOut
<1>7. ASSUME NEW id \in Ids, Stop(id) PROVE CCNext \/ UNCHANGED ccVars
  BY <1>7 DEF Stop, AskToStop, StopInRegularMode, StoreStopped, CCNext, Ids
<1>8. ASSUME ShutDown PROVE CCNext
  BY <1>8 DEF ShutDown, CCNext
<1> QED
  BY <1>1, <1>2, <1>3, <1>4, <1>5, <1>6, <1>7, <1>8 DEF LifecycleNext

\* The life of executions implements the specification of the concurrency
\* control: no reservation is released twice, or by anyone but its holder.
THEOREM ReservationProtocolHolds == LifecycleSpec => ReservationProtocol
<1>1. LifecycleInit => CCInit
  BY DEF LifecycleInit
<1>2. [LifecycleNext]_lifecycleVars => [CCNext]_ccVars
  BY StepsReserve DEF lifecycleVars
<1> QED
  BY <1>1, <1>2, PTL DEF LifecycleSpec, ReservationProtocol, CCSpec

\* So the accounts of the concurrency control are right while executions are
\* resumed, refused, stopped, cancelled and shut down.
THEOREM LifecycleAccountingHolds == LifecycleSpec => []CapacityAccounting
  BY ReservationProtocolHolds, AccountingHolds, PTL DEF ReservationProtocol

-----------------------------------------------------------------------------
(***************************************************************************)
(* One runner per execution                                                *)
(***************************************************************************)

\* The types of the state that decides who runs an execution.
RunTypes ==
  /\ row \in [Ids -> [status : Statuses, step : Nat]]
  /\ stage \in [Calls -> Stages]
  /\ step \in [Calls -> Nat]
  /\ outcome \in [Calls -> Statuses \ {"new", "running"}]
  /\ abort \in [Calls -> {"no", "saving", "saved"}]

\* A call has a claim on its execution when it may run its nodes, or leave
\* it waiting for the next call, without winning the conditional update.
Claim(c) ==
  \/ stage[c] \in {"stored", "checking", "starting"} \cup Executing
  \/ stage[c] = "saving" /\ outcome[c] = "waiting"
  \/ KindOf[c] = "new" /\ stage[c] \in {"idle", "reserving", "throttling", "storing"}

OneClaim ==
  \A c, d \in Calls : IdOf[c] = IdOf[d] /\ Claim(c) /\ Claim(d) => c = d

\* The conditional update hands out the claim a waiting row stands for.
WaitingIsUnclaimed ==
  \A c \in Calls : Claim(c) => row[IdOf[c]].status # "waiting"

\* A workflow is only cancelled once it runs, and after its row was set to
\* "canceled" nobody sets it to "running" while that workflow runs nodes.
CanceledStays ==
  \A c \in Calls :
    /\ abort[c] # "no" => stage[c] \in Executing \cup {"saving", "ended", "over"}
    /\ abort[c] = "saved" /\ stage[c] \in Executing => row[IdOf[c]].status # "running"

\* The inductive invariant.  SingleRunner alone is not inductive: it must be
\* known that a new execution has one call to start it, and that a row only
\* waits when the call that ran it has given up its claim.
RunInv ==
  /\ RunTypes
  /\ OneClaim
  /\ WaitingIsUnclaimed
  /\ CanceledStays
  /\ RunningRowIsOwned

\* StopEntry touches a workflow only by starting its cancellation.
LEMMA StopEntryAborts ==
  ASSUME NEW id \in Ids, RunTypes, StopEntry(id)
  PROVE  /\ abort' \in [Calls -> {"no", "saving", "saved"}]
         /\ \A c \in Calls :
              \/ abort'[c] = abort[c]
              \/ /\ abort[c] = "no"
                 /\ abort'[c] = "saving"
                 /\ stage[c] \in Executing \cup {"saving"}
BY DEF StopEntry, CancelAttached, RunTypes, registryVars

LEMMA StartRunInv == LifecycleInit => RunInv
<1> SUFFICES ASSUME LifecycleInit PROVE RunInv
  OBVIOUS
<1>1. \A c \in Calls : IdOf[c] \in Ids
  BY DEF Ids
<1>2. RunTypes
  BY DEF LifecycleInit, RunTypes, Statuses, Stages
<1>3. OneClaim
  BY LifecycleAssumption DEF LifecycleInit, OneClaim, Claim, Executing
<1>4. WaitingIsUnclaimed /\ CanceledStays /\ RunningRowIsOwned
  BY <1>1 DEF LifecycleInit, WaitingIsUnclaimed, CanceledStays, RunningRowIsOwned
<1> QED
  BY <1>2, <1>3, <1>4 DEF RunInv

\* The steps of one call keep the invariant.
LEMMA CallKeepsRunInv ==
  ASSUME NEW c \in Calls, RunInv,
         Add(c) \/ Run(c) \/ Execute(c) \/ SaveCanceled(c)
  PROVE  RunInv'
<1> USE DEF RunInv
<1>1. IdOf[c] \in Ids /\ \A d \in Calls : IdOf[d] \in Ids
  BY DEF Ids
<1>2. CASE Create(c)
  <2> USE DEF Create, Move, SetStatus, RunTypes, Executing, runVars
  <2>1. RunTypes'
    BY <1>1, <1>2 DEF Statuses, Stages
  <2>2. OneClaim'
    BY <1>1, <1>2 DEF OneClaim, WaitingIsUnclaimed, Claim
  <2>3. WaitingIsUnclaimed'
    BY <1>1, <1>2 DEF OneClaim, WaitingIsUnclaimed, Claim
  <2>4. CanceledStays'
    BY <1>1, <1>2 DEF OneClaim, CanceledStays, Claim
  <2>5. RunningRowIsOwned'
    BY <1>1, <1>2 DEF CanceledStays, RunningRowIsOwned, Underway
  <2> QED
    BY <2>1, <2>2, <2>3, <2>4, <2>5
<1>3. CASE ReadToResume(c)
  <2> USE DEF ReadToResume, Move, RunTypes, Executing, runVars
  <2>1. RunTypes'
    BY <1>1, <1>3 DEF Statuses, Stages
  <2>2. OneClaim'
    BY <1>1, <1>3 DEF OneClaim, WaitingIsUnclaimed, Claim
  <2>3. WaitingIsUnclaimed'
    BY <1>1, <1>3 DEF OneClaim, WaitingIsUnclaimed, Claim
  <2>4. CanceledStays'
    BY <1>1, <1>3 DEF OneClaim, CanceledStays, Claim
  <2>5. RunningRowIsOwned'
    BY <1>1, <1>3 DEF CanceledStays, RunningRowIsOwned, Underway
  <2> QED
    BY <2>1, <2>2, <2>3, <2>4, <2>5
<1>4. CASE Reserve(c)
  <2> USE DEF Reserve, Move, RunTypes, Executing, runVars
  <2>1. RunTypes'
    BY <1>1, <1>4 DEF Statuses, Stages
  <2>2. OneClaim'
    BY <1>1, <1>4 DEF OneClaim, WaitingIsUnclaimed, Claim
  <2>3. WaitingIsUnclaimed'
    BY <1>1, <1>4 DEF OneClaim, WaitingIsUnclaimed, Claim
  <2>4. CanceledStays'
    BY <1>1, <1>4 DEF OneClaim, CanceledStays, Claim
  <2>5. RunningRowIsOwned'
    BY <1>1, <1>4 DEF CanceledStays, RunningRowIsOwned, Underway
  <2> QED
    BY <2>1, <2>2, <2>3, <2>4, <2>5
<1>5. CASE Proceed(c)
  <2> USE DEF Proceed, Move, RunTypes, Executing, runVars
  <2>1. RunTypes'
    BY <1>1, <1>5 DEF Statuses, Stages
  <2>2. OneClaim'
    BY <1>1, <1>5 DEF OneClaim, WaitingIsUnclaimed, Claim
  <2>3. WaitingIsUnclaimed'
    BY <1>1, <1>5 DEF OneClaim, WaitingIsUnclaimed, Claim
  <2>4. CanceledStays'
    BY <1>1, <1>5 DEF OneClaim, CanceledStays, Claim
  <2>5. RunningRowIsOwned'
    BY <1>1, <1>5 DEF CanceledStays, RunningRowIsOwned, Underway
  <2> QED
    BY <2>1, <2>2, <2>3, <2>4, <2>5
<1>6. CASE Store(c)
  <2> USE DEF Store, Move, SetStatus, RunTypes, Executing, runVars
  <2>1. RunTypes'
    BY <1>1, <1>6 DEF Statuses, Stages
  <2>2. OneClaim'
    BY <1>1, <1>6 DEF OneClaim, WaitingIsUnclaimed, Claim
  <2>3. WaitingIsUnclaimed'
    BY <1>1, <1>6 DEF OneClaim, WaitingIsUnclaimed, Claim
  <2>4. CanceledStays'
    BY <1>1, <1>6 DEF OneClaim, WaitingIsUnclaimed, CanceledStays, Claim
  <2>5. RunningRowIsOwned'
    BY <1>1, <1>6 DEF CanceledStays, RunningRowIsOwned, Underway
  <2> QED
    BY <2>1, <2>2, <2>3, <2>4, <2>5
<1>7. CASE Refuse(c)
  <2> USE DEF Refuse, Move, RunTypes, Executing, runVars
  <2>1. RunTypes'
    BY <1>1, <1>7 DEF Statuses, Stages
  <2>2. OneClaim'
    BY <1>1, <1>7 DEF OneClaim, WaitingIsUnclaimed, Claim
  <2>3. WaitingIsUnclaimed'
    BY <1>1, <1>7 DEF OneClaim, WaitingIsUnclaimed, Claim
  <2>4. CanceledStays'
    BY <1>1, <1>7 DEF OneClaim, CanceledStays, Claim
  <2>5. RunningRowIsOwned'
    BY <1>1, <1>7 DEF CanceledStays, RunningRowIsOwned, Underway
  <2> QED
    BY <2>1, <2>2, <2>3, <2>4, <2>5
<1>8. CASE Register(c)
  <2> USE DEF Register, Move, RunTypes, Executing, runVars
  <2>1. RunTypes'
    BY <1>1, <1>8 DEF Statuses, Stages
  <2>2. OneClaim'
    BY <1>1, <1>8 DEF OneClaim, WaitingIsUnclaimed, Claim
  <2>3. WaitingIsUnclaimed'
    BY <1>1, <1>8 DEF OneClaim, WaitingIsUnclaimed, Claim
  <2>4. CanceledStays'
    BY <1>1, <1>8 DEF OneClaim, CanceledStays, Claim
  <2>5. RunningRowIsOwned'
    BY <1>1, <1>8 DEF CanceledStays, RunningRowIsOwned, Underway
  <2> QED
    BY <2>1, <2>2, <2>3, <2>4, <2>5
<1>9. CASE CheckFails(c)
  <2> USE DEF CheckFails, Move, SetStatus, RunTypes, Executing, runVars
  <2>1. RunTypes'
    BY <1>1, <1>9 DEF Statuses, Stages
  <2>2. OneClaim'
    BY <1>1, <1>9 DEF OneClaim, WaitingIsUnclaimed, Claim
  <2>3. WaitingIsUnclaimed'
    BY <1>1, <1>9 DEF OneClaim, WaitingIsUnclaimed, Claim
  <2>4. CanceledStays'
    BY <1>1, <1>9 DEF OneClaim, CanceledStays, Claim
  <2>5. RunningRowIsOwned'
    BY <1>1, <1>9 DEF CanceledStays, RunningRowIsOwned, Underway
  <2> QED
    BY <2>1, <2>2, <2>3, <2>4, <2>5
<1>10. CASE AbandonFailed(c)
  <2> USE DEF AbandonFailed, Move, RunTypes, Executing, runVars
  <2>1. RunTypes'
    BY <1>1, <1>10 DEF Statuses, Stages
  <2>2. OneClaim'
    BY <1>1, <1>10 DEF OneClaim, WaitingIsUnclaimed, Claim
  <2>3. WaitingIsUnclaimed'
    BY <1>1, <1>10 DEF OneClaim, WaitingIsUnclaimed, Claim
  <2>4. CanceledStays'
    BY <1>1, <1>10 DEF OneClaim, CanceledStays, Claim
  <2>5. RunningRowIsOwned'
    BY <1>1, <1>10 DEF CanceledStays, RunningRowIsOwned, Underway
  <2> QED
    BY <2>1, <2>2, <2>3, <2>4, <2>5
<1>11. CASE MarkRunning(c)
  <2> USE DEF MarkRunning, Move, SetStatus, RunTypes, Executing, runVars
  <2>1. RunTypes'
    BY <1>1, <1>11 DEF Statuses, Stages
  <2>2. OneClaim'
    BY <1>1, <1>11 DEF OneClaim, WaitingIsUnclaimed, Claim
  <2>3. WaitingIsUnclaimed'
    BY <1>1, <1>11 DEF OneClaim, WaitingIsUnclaimed, Claim
  <2>4. CanceledStays'
    BY <1>1, <1>11 DEF OneClaim, CanceledStays, Claim
  <2>5. RunningRowIsOwned'
    BY <1>1, <1>11 DEF CanceledStays, RunningRowIsOwned, Underway
  <2> QED
    BY <2>1, <2>2, <2>3, <2>4, <2>5
<1>12. CASE StartWorkflow(c)
  <2> USE DEF StartWorkflow, Move, RunTypes, Executing, runVars
  <2>1. RunTypes'
    BY <1>1, <1>12 DEF Statuses, Stages
  <2>2. OneClaim'
    BY <1>1, <1>12 DEF OneClaim, WaitingIsUnclaimed, Claim
  <2>3. WaitingIsUnclaimed'
    BY <1>1, <1>12 DEF OneClaim, WaitingIsUnclaimed, Claim
  <2>4. CanceledStays'
    BY <1>1, <1>12 DEF OneClaim, CanceledStays, Claim
  <2>5. RunningRowIsOwned'
    BY <1>1, <1>12 DEF CanceledStays, RunningRowIsOwned, Underway
  <2> QED
    BY <2>1, <2>2, <2>3, <2>4, <2>5
<1>13. CASE Return(c)
  <2> USE DEF Return, Move, RunTypes, Executing, runVars
  <2>1. RunTypes'
    BY <1>1, <1>13 DEF Statuses, Stages
  <2>2. OneClaim'
    BY <1>1, <1>13 DEF OneClaim, WaitingIsUnclaimed, Claim
  <2>3. WaitingIsUnclaimed'
    BY <1>1, <1>13 DEF OneClaim, WaitingIsUnclaimed, Claim
  <2>4. CanceledStays'
    BY <1>1, <1>13 DEF OneClaim, CanceledStays, Claim
  <2>5. RunningRowIsOwned'
    BY <1>1, <1>13 DEF CanceledStays, RunningRowIsOwned, Underway
  <2> QED
    BY <2>1, <2>2, <2>3, <2>4, <2>5
<1>14. CASE Pause(c)
  <2> USE DEF Pause, Move, RunTypes, Executing, runVars
  <2>1. RunTypes'
    BY <1>1, <1>14 DEF Statuses, Stages
  <2>2. OneClaim'
    BY <1>1, <1>14 DEF OneClaim, WaitingIsUnclaimed, Claim
  <2>3. WaitingIsUnclaimed'
    BY <1>1, <1>14 DEF OneClaim, WaitingIsUnclaimed, Claim
  <2>4. CanceledStays'
    BY <1>1, <1>14 DEF OneClaim, CanceledStays, Claim
  <2>5. RunningRowIsOwned'
    BY <1>1, <1>14 DEF CanceledStays, RunningRowIsOwned, Underway
  <2> QED
    BY <2>1, <2>2, <2>3, <2>4, <2>5
<1>15. CASE Finish(c)
  <2> USE DEF Finish, Outcomes, RunTypes, Executing, runVars
  <2>1. RunTypes'
    BY <1>1, <1>15 DEF Statuses, Stages
  <2>2. OneClaim'
    BY <1>1, <1>15 DEF OneClaim, WaitingIsUnclaimed, Claim
  <2>3. WaitingIsUnclaimed'
    BY <1>1, <1>15 DEF OneClaim, WaitingIsUnclaimed, Claim
  <2>4. CanceledStays'
    BY <1>1, <1>15 DEF OneClaim, CanceledStays, Claim
  <2>5. RunningRowIsOwned'
    BY <1>1, <1>15 DEF CanceledStays, RunningRowIsOwned, Underway
  <2> QED
    BY <2>1, <2>2, <2>3, <2>4, <2>5
<1>16. CASE FinishAborted(c)
  <2> USE DEF FinishAborted, RunTypes, Executing, runVars
  <2>1. RunTypes'
    BY <1>1, <1>16 DEF Statuses, Stages
  <2>2. OneClaim'
    BY <1>1, <1>16 DEF OneClaim, WaitingIsUnclaimed, Claim
  <2>3. WaitingIsUnclaimed'
    BY <1>1, <1>16 DEF OneClaim, WaitingIsUnclaimed, Claim
  <2>4. CanceledStays'
    BY <1>1, <1>16 DEF OneClaim, CanceledStays, Claim
  <2>5. RunningRowIsOwned'
    BY <1>1, <1>16 DEF CanceledStays, RunningRowIsOwned, Underway
  <2> QED
    BY <2>1, <2>2, <2>3, <2>4, <2>5
<1>17. CASE Save(c)
  <2> USE DEF Save, Move, RunTypes, Executing, runVars
  <2>1. RunTypes'
    BY <1>1, <1>17 DEF Statuses, Stages
  <2>2. OneClaim'
    BY <1>1, <1>17 DEF OneClaim, WaitingIsUnclaimed, Claim
  <2>3. WaitingIsUnclaimed'
    BY <1>1, <1>17 DEF OneClaim, WaitingIsUnclaimed, Claim
  <2>4. CanceledStays'
    BY <1>1, <1>17 DEF OneClaim, CanceledStays, Claim
  <2>5. RunningRowIsOwned'
    BY <1>1, <1>17 DEF CanceledStays, RunningRowIsOwned, Underway
  <2> QED
    BY <2>1, <2>2, <2>3, <2>4, <2>5
<1>18. CASE SaveCanceled(c)
  <2> USE DEF SaveCanceled, SetStatus, RunTypes, Executing, runVars
  <2>1. RunTypes'
    BY <1>1, <1>18 DEF Statuses, Stages
  <2>2. OneClaim'
    BY <1>1, <1>18 DEF OneClaim, WaitingIsUnclaimed, Claim
  <2>3. WaitingIsUnclaimed'
    BY <1>1, <1>18 DEF OneClaim, WaitingIsUnclaimed, Claim
  <2>4. CanceledStays'
    BY <1>1, <1>18 DEF OneClaim, CanceledStays, Claim
  <2>5. RunningRowIsOwned'
    BY <1>1, <1>18 DEF CanceledStays, RunningRowIsOwned, Underway
  <2> QED
    BY <2>1, <2>2, <2>3, <2>4, <2>5
<1>19. CASE StartFails(c)
  <2> USE DEF StartFails, Move, RunTypes, Executing, runVars
  <2>1. RunTypes'
    BY <1>1, <1>19 DEF Statuses, Stages
  <2>2. OneClaim'
    BY <1>1, <1>19 DEF OneClaim, WaitingIsUnclaimed, Claim
  <2>3. WaitingIsUnclaimed'
    BY <1>1, <1>19 DEF OneClaim, WaitingIsUnclaimed, Claim
  <2>4. CanceledStays'
    BY <1>1, <1>19 DEF OneClaim, CanceledStays, Claim
  <2>5. RunningRowIsOwned'
    BY <1>1, <1>19 DEF CanceledStays, RunningRowIsOwned, Underway
  <2> QED
    BY <2>1, <2>2, <2>3, <2>4, <2>5
<1>20. CASE Bury(c)
  <2> USE DEF Bury, Move, SetStatus, RunTypes, Executing, runVars
  <2>1. RunTypes'
    BY <1>1, <1>20 DEF Statuses, Stages
  <2>2. OneClaim'
    BY <1>1, <1>20 DEF OneClaim, WaitingIsUnclaimed, Claim
  <2>3. WaitingIsUnclaimed'
    BY <1>1, <1>20 DEF OneClaim, WaitingIsUnclaimed, Claim
  <2>4. CanceledStays'
    BY <1>1, <1>20 DEF OneClaim, CanceledStays, Claim
  <2>5. RunningRowIsOwned'
    BY <1>1, <1>20 DEF CanceledStays, RunningRowIsOwned, Underway
  <2> QED
    BY <2>1, <2>2, <2>3, <2>4, <2>5
<1> QED
  BY <1>2, <1>3, <1>4, <1>5, <1>6, <1>7, <1>8, <1>9, <1>10, <1>11, <1>12, <1>13, <1>14, <1>15, <1>16, <1>17, <1>18, <1>19, <1>20 DEF Add, Run, Execute

\* So do settling a promise, stopping, the timeout and the shutdown.
LEMMA OthersKeepRunInv ==
  ASSUME RunInv,
         \/ \E c \in Calls : Settle(c) \/ TimeOut(c)
         \/ \E id \in Ids : Stop(id)
         \/ ShutDown
         \/ UNCHANGED lifecycleVars
  PROVE  RunInv'
<1> USE DEF RunInv
<1>1. \A d \in Calls : IdOf[d] \in Ids
  BY DEF Ids
<1>2. ASSUME UNCHANGED <<row, stage, step, outcome, abort>> PROVE RunInv'
  BY <1>2 DEF RunTypes, OneClaim, Claim, WaitingIsUnclaimed, CanceledStays, RunningRowIsOwned
<1>3. ASSUME NEW id \in Ids, StopEntry(id), UNCHANGED <<row, stage, step, outcome>>
      PROVE  RunInv'
  <2>1. /\ abort' \in [Calls -> {"no", "saving", "saved"}]
        /\ \A c \in Calls :
             \/ abort'[c] = abort[c]
             \/ /\ abort[c] = "no"
                /\ abort'[c] = "saving"
                /\ stage[c] \in Executing \cup {"saving"}
    BY <1>3, StopEntryAborts
  <2>2. RunTypes'
    BY <1>3, <2>1 DEF RunTypes
  <2>3. OneClaim' /\ WaitingIsUnclaimed'
    BY <1>3 DEF OneClaim, Claim, WaitingIsUnclaimed
  <2>4. CanceledStays' /\ RunningRowIsOwned'
    BY <1>3, <2>1 DEF CanceledStays, RunningRowIsOwned
  <2> QED
    BY <2>2, <2>3, <2>4
<1>4. ASSUME NEW c \in Calls, Settle(c) PROVE RunInv'
  BY <1>2, <1>4 DEF Settle, runVars
<1>5. ASSUME NEW c \in Calls, TimeOut(c) PROVE RunInv'
  BY <1>1, <1>3, <1>5 DEF TimeOut
<1>6. ASSUME NEW id \in Ids, AskToStop(id) PROVE RunInv'
  BY <1>2, <1>6 DEF AskToStop, runVars
<1>7. ASSUME NEW id \in Ids, StopInRegularMode(id) PROVE RunInv'
  BY <1>2, <1>3, <1>7 DEF StopInRegularMode, runVars
<1>8. ASSUME NEW id \in Ids, StoreStopped(id) PROVE RunInv'
  <2> USE <1>8 DEF StoreStopped, SetStatus
  <2>1. /\ UNCHANGED <<stage, step, outcome, abort>>
        /\ row' \in [Ids -> [status : Statuses, step : Nat]]
        /\ row'[id].status = "canceled"
        /\ \A i \in Ids \ {id} : row'[i] = row[i]
    BY DEF RunTypes, Statuses
  <2>2. RunTypes'
    BY <2>1 DEF RunTypes
  <2>3. OneClaim' /\ WaitingIsUnclaimed'
    BY <1>1, <2>1 DEF OneClaim, Claim, WaitingIsUnclaimed
  <2>4. CanceledStays' /\ RunningRowIsOwned'
    BY <1>1, <2>1 DEF CanceledStays, RunningRowIsOwned
  <2> QED
    BY <2>2, <2>3, <2>4
<1>9. ASSUME ShutDown PROVE RunInv'
  BY <1>2, <1>9 DEF ShutDown, runVars
<1>10. ASSUME UNCHANGED lifecycleVars PROVE RunInv'
  BY <1>2, <1>10 DEF lifecycleVars, runVars
<1> QED
  BY <1>4, <1>5, <1>6, <1>7, <1>8, <1>9, <1>10 DEF Stop

LEMMA RunInvHolds == LifecycleSpec => []RunInv
<1>1. LifecycleInit => RunInv
  BY StartRunInv
<1>2. RunInv /\ [LifecycleNext]_lifecycleVars => RunInv'
  BY CallKeepsRunInv, OthersKeepRunInv DEF LifecycleNext
<1> QED
  BY <1>1, <1>2, PTL DEF LifecycleSpec

\* However many calls resume an execution, whatever stops it and however
\* late an earlier run returns, its nodes never run twice at the same time.
THEOREM SingleRunnerHolds == LifecycleSpec => []SingleRunner
<1>1. RunInv => SingleRunner
  BY DEF RunInv, OneClaim, Claim, SingleRunner
<1> QED
  BY <1>1, RunInvHolds, PTL

\* A row that says "running" has a call, or the hook of a cancellation, that
\* is going to change it.
THEOREM RunningRowIsOwnedHolds == LifecycleSpec => []RunningRowIsOwned
<1>1. RunInv => RunningRowIsOwned
  BY DEF RunInv
<1> QED
  BY <1>1, RunInvHolds, PTL

-----------------------------------------------------------------------------
(***************************************************************************)
(* The types of the rest of the state                                      *)
(***************************************************************************)

\* LifecycleTypeOK but for the concurrency control.
CallTypes ==
  /\ row \in [Ids -> [status : Statuses, step : 0..MaxWaits]]
  /\ stage \in [Calls -> Stages]
  /\ step \in [Calls -> 0..MaxWaits]
  /\ outcome \in [Calls -> {"none", "success", "error", "waiting", "canceled"}]
  /\ timers \subseteq Calls
  /\ unwatched \subseteq Calls
  /\ abort \in [Calls -> {"no", "saving", "saved"}]
  /\ entry \in [Ids -> Calls \cup {NoCall}]
  /\ record \in [Calls -> {"none", "running", "waiting"}]
  /\ promise \in [Calls -> {"none", "pending", "settled", "done"}]
  /\ attached \in [Calls -> Calls \cup {NoCall}]
  /\ stopping \in [Ids -> {"no", "asked", "storing", "stopped"}]

\* The progress of a run is only counted up to a wait it may make.
WaitsLeft ==
  \A c \in Calls :
    stage[c] = "pausing" \/ (stage[c] = "saving" /\ outcome[c] = "waiting") => step[c] < MaxWaits

CallTypeInv == CallTypes /\ WaitsLeft

\* StopEntry keeps to the registry and to starting cancellations.
LEMMA StopEntryTypes ==
  ASSUME NEW id \in Ids, CallTypes, StopEntry(id)
  PROVE  /\ entry' \in [Ids -> Calls \cup {NoCall}] /\ record' = record /\ attached' = attached
         /\ promise' \in [Calls -> {"none", "pending", "settled", "done"}]
         /\ abort' \in [Calls -> {"no", "saving", "saved"}]
<1>1. entry[id] \in Calls \cup {NoCall}
  BY DEF CallTypes
<1>2. CASE entry[id] = NoCall
  BY <1>2 DEF StopEntry, CallTypes, registryVars
<1>3. CASE entry[id] # NoCall /\ record[entry[id]] = "waiting"
  BY <1>3 DEF StopEntry, CallTypes
<1>4. CASE entry[id] # NoCall /\ record[entry[id]] # "waiting"
  <2>1. PICK r \in Calls : r = entry[id]
    BY <1>1, <1>4
  <2>2. /\ CancelAttached(r)
        /\ promise' = [promise EXCEPT ![r] = SettleOnce(r)]
        /\ UNCHANGED <<entry, record, attached>>
    BY <1>4, <2>1 DEF StopEntry
  <2>3. SettleOnce(r) \in {"none", "pending", "settled", "done"}
    BY DEF SettleOnce, CallTypes
  <2>4. promise' \in [Calls -> {"none", "pending", "settled", "done"}]
    BY <2>2, <2>3 DEF CallTypes
  <2>5. abort' \in [Calls -> {"no", "saving", "saved"}]
    BY <2>2 DEF CancelAttached, CallTypes
  <2> QED
    BY <2>2, <2>4, <2>5 DEF CallTypes
<1> QED
  BY <1>2, <1>3, <1>4

LEMMA StartTypes == LifecycleInit => CallTypeInv
<1> SUFFICES ASSUME LifecycleInit PROVE CallTypeInv
  OBVIOUS
<1>1. 0 \in 0..MaxWaits
  BY LifecycleAssumption
<1> QED
  BY <1>1 DEF LifecycleInit, CallTypeInv, CallTypes, WaitsLeft, Statuses, Stages

\* add()
LEMMA AddKeepsTypes ==
  ASSUME CallTypeInv, NEW c \in Calls, Add(c)
  PROVE  CallTypeInv'
<1> USE DEF CallTypeInv, CallTypes, WaitsLeft
<1>0. IdOf[c] \in Ids
  BY DEF Ids
<1>1. CASE Create(c)
  BY <1>0, <1>1 DEF Create, Move, SetStatus, registryVars, Stages, Statuses
<1>2. CASE ReadToResume(c)
  BY <1>0, <1>2 DEF ReadToResume, Move, registryVars, Stages
<1>3. CASE Reserve(c)
  BY <1>0, <1>3 DEF Reserve, Move, registryVars, Stages
<1>4. CASE Proceed(c)
  BY <1>0, <1>4 DEF Proceed, Move, registryVars, Stages
<1>5. CASE Store(c)
  <2>1. /\ row[IdOf[c]] \in [status : Statuses, step : 0..MaxWaits]
        /\ step[c] \in 0..MaxWaits
    BY <1>0
  <2>2. \/ UNCHANGED row
        \/ row' = [row EXCEPT ![IdOf[c]].status = "running"]
        \/ row' = [row EXCEPT ![IdOf[c]] = [status |-> "running", step |-> step[c]]]
    BY ONLY <1>5 DEF Store, SetStatus
  <2>5. "running" \in Statuses
    BY DEF Statuses
  <2>6. row' \in [Ids -> [status : Statuses, step : 0..MaxWaits]]
    <3>1. CASE row' = [row EXCEPT ![IdOf[c]].status = "running"]
      BY ONLY <1>0, <2>1, <2>5, <3>1, CallTypes DEF CallTypes
    <3>2. CASE row' = [row EXCEPT ![IdOf[c]] = [status |-> "running", step |-> step[c]]]
      BY ONLY <1>0, <2>1, <2>5, <3>2, CallTypes DEF CallTypes
    <3> QED
      BY <2>2, <3>1, <3>2
  <2>3. PICK to \in {"stored", "refused"} : stage' = [stage EXCEPT ![c] = to]
    BY <1>5 DEF Store, Move
  <2>4. UNCHANGED <<step, outcome, timers, unwatched, abort, entry, record, promise, attached, stopping>>
    BY <1>5 DEF Store, registryVars
  <2> QED
    BY <2>3, <2>4, <2>6 DEF Stages
<1>6. CASE Refuse(c)
  BY <1>0, <1>6 DEF Refuse, Move, registryVars, Stages
<1>7. CASE Register(c)
  BY <1>0, <1>7 DEF Register, Move, Stages
<1> QED
  BY <1>1, <1>2, <1>3, <1>4, <1>5, <1>6, <1>7 DEF Add

\* run()
LEMMA RunKeepsTypes ==
  ASSUME CallTypeInv, NEW c \in Calls, Run(c)
  PROVE  CallTypeInv'
<1> USE DEF CallTypeInv, CallTypes, WaitsLeft
<1>0. IdOf[c] \in Ids
  BY DEF Ids
<1>1. entry[IdOf[c]] \in Calls \cup {NoCall}
  BY <1>0
<1>2. CASE CheckFails(c)
  BY <1>0, <1>2 DEF CheckFails, Move, SetStatus, registryVars, Stages, Statuses
<1>3. CASE AbandonFailed(c)
  BY <1>0, <1>1, <1>3 DEF AbandonFailed, Move, Finalize, SettleOnce, Stages
<1>4. CASE MarkRunning(c)
  BY <1>0, <1>4 DEF MarkRunning, Move, SetStatus, registryVars, Stages, Statuses
<1>5. CASE StartWorkflow(c)
  BY <1>0, <1>1, <1>5 DEF StartWorkflow, Move, Stages
<1>6. CASE Return(c)
  BY <1>0, <1>1, <1>6 DEF Return, Move, Finalize, SettleOnce, Stages
<1>7. CASE StartFails(c)
  BY <1>0, <1>1, <1>7 DEF StartFails, Move, Finalize, SettleOnce, Stages
<1>8. CASE Bury(c)
  BY <1>0, <1>8 DEF Bury, Move, SetStatus, registryVars, Stages, Statuses
<1> QED
  BY <1>2, <1>3, <1>4, <1>5, <1>6, <1>7, <1>8 DEF Run

\* WorkflowExecute
LEMMA ExecuteKeepsTypes ==
  ASSUME CallTypeInv, NEW c \in Calls, Execute(c) \/ SaveCanceled(c)
  PROVE  CallTypeInv'
<1> USE DEF CallTypeInv, CallTypes, WaitsLeft
<1>0. IdOf[c] \in Ids /\ MaxWaits \in Nat
  BY LifecycleAssumption DEF Ids
<1>1. entry[IdOf[c]] \in Calls \cup {NoCall}
  BY <1>0
<1>2. CASE Pause(c)
  BY <1>0, <1>1, <1>2 DEF Pause, Move, Stages
<1>3. CASE Finish(c)
  <2>1. PICK o \in Outcomes(c) : outcome' = [outcome EXCEPT ![c] = o]
    BY <1>3 DEF Finish
  <2>2. o \in {"success", "error", "waiting", "canceled"} /\ (o = "waiting" => stage[c] = "pausing")
    BY <2>1 DEF Outcomes
  <2> QED
    BY <1>0, <1>3, <2>1, <2>2 DEF Finish, registryVars, Stages
<1>4. CASE FinishAborted(c)
  BY <1>0, <1>4 DEF FinishAborted, registryVars, Stages
<1>5. CASE Save(c)
  <2>1. outcome[c] = "waiting" => step[c] + 1 \in 0..MaxWaits
    BY <1>0, <1>5 DEF Save, Move
  <2>2. outcome[c] \in Statuses /\ step[c] \in 0..MaxWaits
    BY DEF Statuses
  <2>3. row' \in [Ids -> [status : Statuses, step : 0..MaxWaits]]
    BY <1>0, <1>5, <2>1, <2>2 DEF Save
  <2> QED
    BY <1>0, <1>5, <2>3 DEF Save, Move, registryVars, Stages
<1>6. CASE SaveCanceled(c)
  BY <1>0, <1>6 DEF SaveCanceled, SetStatus, registryVars, Statuses
<1> QED
  BY <1>2, <1>3, <1>4, <1>5, <1>6 DEF Execute

LEMMA CallTypesStay == CallTypeInv /\ [LifecycleNext]_lifecycleVars => CallTypeInv'
<1> SUFFICES ASSUME CallTypeInv, [LifecycleNext]_lifecycleVars PROVE CallTypeInv'
  OBVIOUS
<1>0. \A c \in Calls : IdOf[c] \in Ids
  BY DEF Ids
<1>1. ASSUME NEW c \in Calls, Add(c) \/ Run(c) \/ Execute(c) \/ SaveCanceled(c) PROVE CallTypeInv'
  BY <1>1, AddKeepsTypes, RunKeepsTypes, ExecuteKeepsTypes
<1> USE DEF CallTypeInv, CallTypes, WaitsLeft
<1>2. ASSUME NEW c \in Calls, Settle(c) PROVE CallTypeInv'
  BY <1>0, <1>2 DEF Settle, runVars
<1>3. ASSUME NEW c \in Calls, TimeOut(c) PROVE CallTypeInv'
  <2>1. /\ entry' \in [Ids -> Calls \cup {NoCall}] /\ record' = record /\ attached' = attached
        /\ promise' \in [Calls -> {"none", "pending", "settled", "done"}]
        /\ abort' \in [Calls -> {"no", "saving", "saved"}]
    BY <1>0, <1>3, StopEntryTypes DEF TimeOut
  <2> QED
    BY <1>3, <2>1 DEF TimeOut
<1>4. ASSUME NEW id \in Ids, AskToStop(id) PROVE CallTypeInv'
  BY <1>4 DEF AskToStop, runVars, registryVars
<1>5. ASSUME NEW id \in Ids, StopInRegularMode(id) PROVE CallTypeInv'
  <2>1. /\ entry' \in [Ids -> Calls \cup {NoCall}] /\ record' = record /\ attached' = attached
        /\ promise' \in [Calls -> {"none", "pending", "settled", "done"}]
        /\ abort' \in [Calls -> {"no", "saving", "saved"}]
    BY <1>5, StopEntryTypes DEF StopInRegularMode, registryVars
  <2> QED
    BY <1>5, <2>1 DEF StopInRegularMode
<1>6. ASSUME NEW id \in Ids, StoreStopped(id) PROVE CallTypeInv'
  BY <1>6 DEF StoreStopped, SetStatus, registryVars, Statuses
<1>7. ASSUME ShutDown PROVE CallTypeInv'
  BY <1>7 DEF ShutDown, runVars
<1>8. ASSUME UNCHANGED lifecycleVars PROVE CallTypeInv'
  BY <1>8 DEF lifecycleVars, runVars, registryVars
<1> QED
  BY <1>1, <1>2, <1>3, <1>4, <1>5, <1>6, <1>7, <1>8 DEF LifecycleNext, Stop

\* The types of the whole state, the reservations of the concurrency control
\* among them.
THEOREM LifecycleTypesHold == LifecycleSpec => []LifecycleTypeOK
<1>1. LifecycleSpec => []CallTypeInv
  BY StartTypes, CallTypesStay, PTL DEF LifecycleSpec
<1>2. LifecycleSpec => []TypeOK
  BY ReservationProtocolHolds, TypesHold, PTL DEF ReservationProtocol
<1>3. CallTypeInv /\ TypeOK => LifecycleTypeOK
  BY DEF CallTypeInv, CallTypes, LifecycleTypeOK
<1> QED
  BY <1>1, <1>2, <1>3, PTL

-----------------------------------------------------------------------------
(***************************************************************************)
(* The registry while nothing is stopped                                   *)
(***************************************************************************)

\* Nobody stops an execution, no timeout is set and the process is not
\* shutting down, and an execution is not resumed while the run that put it
\* to wait has still to return.
Undisturbed ==
  ~MayRemove /\ ~MayTimeOut /\ ~ResumeOverlaps /\ (MayShutDown => enabled)

NothingStopped ==
  /\ timers = {}
  /\ \A c \in Calls : abort[c] = "no"
  /\ \A id \in Ids : stopping[id] = "no"

\* The stages before the write of "running", and from it to the end of run().
Early == {"idle", "reserving", "throttling", "storing"}
Live == {"stored", "checking", "failing", "starting", "saving", "ended"} \cup Executing

UnregisteredIsUnpromised ==
  \A c \in Calls : stage[c] \in Early \cup {"refused", "stored"} => promise[c] = "none"

\* Nobody gets past the conditional update before the call that creates the
\* execution.
NewIsFirst ==
  \A c, d \in Calls :
    c # d /\ IdOf[c] = IdOf[d] /\ KindOf[d] = "new" /\ stage[d] \in Early =>
      stage[c] \notin Live /\ promise[c] = "none"

LiveIsAlone ==
  \A c, d \in Calls :
    c # d /\ IdOf[c] = IdOf[d] /\ stage[c] \in Live =>
      stage[d] \notin Live /\ promise[d] \notin {"pending", "settled"}

RegisteredIsListed ==
  \A c \in Calls : stage[c] \in Live \ {"stored"} => entry[IdOf[c]] = c /\ promise[c] = "pending"

RunningIsAttached ==
  \A c \in Calls : stage[c] \in Executing => attached[c] = c

LiveHolds ==
  \A c \in Calls : stage[c] \in Live \cup {"storing", "refused"} => call[c] = "held"

NobodyOrphaned == \A c \in Calls : call[c] # "orphaned"

\* The inductive invariant.  RunningIsListed alone is not inductive: that the
\* record of a live call is neither replaced nor removed rests on its promise
\* being the only one of its id that may still settle.
RegistryInv ==
  /\ NothingStopped
  /\ UnregisteredIsUnpromised
  /\ NewIsFirst
  /\ LiveIsAlone
  /\ RegisteredIsListed
  /\ RunningIsAttached

ListInv == RegistryInv /\ LiveHolds /\ NobodyOrphaned

\* A reservation is only taken from a call that releases it.
LEMMA HeldStays ==
  ASSUME CCInv, NEW c \in Calls
  PROVE  /\ Throttle(c) \/ Acquire(c) => \A d \in Calls : call[d] = "held" => call'[d] = "held"
         /\ Release(c) => \A d \in Calls \ {c} : call[d] = "held" => call'[d] = "held"
         /\ Throttle(c) \/ Acquire(c) \/ Release(c) =>
              \A d \in Calls : call[d] # "orphaned" => call'[d] # "orphaned"
<1> USE DEF CCInv, TypeOK
<1>1. CASE Throttle(c)
  BY <1>1 DEF Throttle, Enqueue, Acquire, Release
<1>2. CASE Acquire(c)
  BY <1>2 DEF Throttle, Acquire, Release
<1>3. CASE Release(c)
  <2> DEFINE released == [call EXCEPT ![c] = "released"]
  <2>1. CASE call' = released
    BY <1>3, <2>1 DEF Throttle, Acquire, Release
  <2>2. CASE Limited(c) /\ ResolveNext(QueueOf(c), queue[QueueOf(c)], released)
    <3>1. QueueOf(c) \in QueueTypes
      BY <2>2, ConfigFacts DEF Limited
    <3>2. CASE queue[QueueOf(c)] = <<>>
      BY <2>1, <2>2, <3>2 DEF ResolveNext
    <3>3. CASE queue[QueueOf(c)] # <<>>
      <4>1. PICK h \in Calls : h = Head(queue[QueueOf(c)]) /\ call[h] = "queued"
        BY <3>1, <3>3 DEF QueuedOnce
      <4>2. call' = [released EXCEPT ![h] = "granted"]
        BY <2>2, <3>3, <4>1 DEF ResolveNext
      <4> QED
        BY <1>3, <4>1, <4>2 DEF Throttle, Acquire, Release
    <3> QED
      BY <3>2, <3>3
  <2> QED
    BY <1>3, <2>1, <2>2 DEF Release, Dequeue
<1> QED
  BY <1>1, <1>2, <1>3

LEMMA StartListInv == LifecycleInit => ListInv
BY DEF LifecycleInit, CCInit, ListInv, RegistryInv, NothingStopped, UnregisteredIsUnpromised,
       NewIsFirst, LiveIsAlone, RegisteredIsListed, RunningIsAttached, LiveHolds, NobodyOrphaned,
       Live, Executing

\* Nothing is stopped.
LEMMA NothingStops ==
  ASSUME Undisturbed', [LifecycleNext]_lifecycleVars, CallTypeInv, RegistryInv
  PROVE  \/ UNCHANGED lifecycleVars
         \/ \E c \in Calls : Add(c) \/ Run(c) \/ Execute(c) \/ Settle(c)
<1>1. ~ShutDown
  BY DEF ShutDown, Disable, Undisturbed
<1>2. \A id \in Ids : ~Stop(id)
  BY DEF Stop, AskToStop, StopInRegularMode, StoreStopped, Undisturbed, RegistryInv, NothingStopped
<1>3. \A c \in Calls : ~TimeOut(c) /\ ~SaveCanceled(c)
  BY DEF TimeOut, SaveCanceled, RegistryInv, NothingStopped
<1> QED
  BY <1>1, <1>2, <1>3 DEF LifecycleNext

LEMMA HoldsWhileLive ==
  ASSUME CCInv, CallTypeInv, ListInv, NEW c \in Calls, Add(c) \/ Run(c) \/ Execute(c) \/ Settle(c)
  PROVE  LiveHolds' /\ NobodyOrphaned'
<1> USE DEF ListInv, CallTypeInv, CallTypes, Live, Executing
<1>1. CASE Create(c) \/ ReadToResume(c)
  BY <1>1 DEF Create, ReadToResume, Move, ccVars, LiveHolds, NobodyOrphaned
<1>2. CASE Reserve(c)
  BY <1>2, HeldStays DEF Reserve, Move, LiveHolds, NobodyOrphaned
<1>3. CASE Proceed(c)
  <2>1. call'[c] = "held"
    BY <1>3 DEF Proceed, Acquire, CCInv, TypeOK
  <2> QED
    BY <1>3, <2>1, HeldStays DEF Proceed, Move, LiveHolds, NobodyOrphaned
<1>4. CASE Refuse(c)
  BY <1>4, HeldStays DEF Refuse, Move, LiveHolds, NobodyOrphaned
<1>5. CASE Store(c) \/ Register(c)
  <2>1. /\ UNCHANGED call /\ stage[c] \in {"storing", "stored"}
        /\ \A d \in Calls \ {c} : stage'[d] = stage[d]
    BY <1>5 DEF Store, Register, Move, ccVars
  <2> QED
    BY <2>1 DEF LiveHolds, NobodyOrphaned
<1>6. CASE Run(c)
  <2>1. UNCHANGED call
    BY <1>6 DEF Run, CheckFails, AbandonFailed, MarkRunning, StartFails, Bury, StartWorkflow, Return, ccVars
  <2> QED
    BY <1>6, <2>1 DEF Run, CheckFails, AbandonFailed, MarkRunning, StartFails, Bury, StartWorkflow, Return, Move,
                      LiveHolds, NobodyOrphaned
<1>7. CASE Execute(c)
  <2>1. UNCHANGED call
    BY <1>7 DEF Execute, Pause, Finish, FinishAborted, Save, ccVars
  <2> QED
    BY <1>7, <2>1 DEF Execute, Pause, Finish, FinishAborted, Save, Move, LiveHolds, NobodyOrphaned
<1>8. CASE Settle(c)
  <2>1. stage[c] \notin Live \cup {"storing", "refused"}
    BY <1>8 DEF Settle, RegistryInv, UnregisteredIsUnpromised, RegisteredIsListed, Early
  <2> QED
    BY <1>8, <2>1, HeldStays DEF Settle, runVars, LiveHolds, NobodyOrphaned
<1> QED
  BY <1>1, <1>2, <1>3, <1>4, <1>5, <1>6, <1>7, <1>8 DEF Add

\* Until the write of "running" a call has no record.
LEMMA EarlyStepsKeepRegistry ==
  ASSUME CallTypeInv, RegistryInv, NEW c \in Calls,
         UNCHANGED <<registryVars, timers, abort, stopping>>,
         stage[c] \in Early \cup {"refused"},
         stage'[c] \in Early \cup {"refused", "over"},
         stage'[c] \in Early => stage[c] \in Early,
         \A d \in Calls \ {c} : stage'[d] = stage[d]
  PROVE  RegistryInv'
<1> USE DEF registryVars, Early, Live, Executing
<1>1. NothingStopped' /\ UnregisteredIsUnpromised'
  BY DEF RegistryInv, NothingStopped, UnregisteredIsUnpromised
<1>2. NewIsFirst' /\ LiveIsAlone'
  BY DEF RegistryInv, NewIsFirst, LiveIsAlone
<1>3. RegisteredIsListed' /\ RunningIsAttached'
  BY DEF RegistryInv, RegisteredIsListed, RunningIsAttached
<1> QED
  BY <1>1, <1>2, <1>3 DEF RegistryInv

\* The write of "running": no earlier run of the execution is left.
LEMMA StoreKeepsRegistry ==
  ASSUME CallTypeInv, RunInv, RegistryInv, Undisturbed, NEW c \in Calls, Store(c),
         stage'[c] = "stored"
  PROVE  RegistryInv'
<1> USE DEF Early, Live, Executing
<1>1. /\ UNCHANGED <<registryVars, timers, abort, stopping>>
      /\ stage[c] = "storing" /\ stage' = [stage EXCEPT ![c] = "stored"]
      /\ \/ KindOf[c] = "new"
         \/ row[IdOf[c]].status = "waiting" /\ ~EarlierRunReturns(c)
  BY DEF Store, Move, Undisturbed, CallTypeInv, CallTypes
<1>2. NothingStopped' /\ UnregisteredIsUnpromised'
  BY <1>1 DEF RegistryInv, NothingStopped, UnregisteredIsUnpromised, registryVars
<1>3. ASSUME NEW d \in Calls, d # c, IdOf[d] = IdOf[c]
      PROVE  stage[d] \notin Live /\ promise[d] \notin {"pending", "settled"}
  <2>1. CASE KindOf[c] = "new"
    BY <1>1, <1>3, <2>1 DEF RegistryInv, NewIsFirst
  <2>2. CASE row[IdOf[c]].status = "waiting" /\ ~EarlierRunReturns(c)
    <3>1. promise[d] \notin {"pending", "settled"}
      BY <1>3, <2>2 DEF EarlierRunReturns
    <3>2. stage[d] # "stored"
      BY <1>3, <2>2 DEF RunInv, WaitingIsUnclaimed, Claim
    <3> QED
      BY <3>1, <3>2 DEF RegistryInv, RegisteredIsListed
  <2> QED
    BY <1>1, <2>1, <2>2
<1>4. ASSUME NEW d \in Calls, d # c, IdOf[d] = IdOf[c], KindOf[d] = "new", stage[d] \in Early
      PROVE  FALSE
  <2>1. CASE KindOf[c] = "new"
    BY <1>4, <2>1, LifecycleAssumption
  <2>2. CASE row[IdOf[c]].status = "waiting"
    BY <1>4, <2>2 DEF RunInv, WaitingIsUnclaimed, Claim
  <2> QED
    BY <1>1, <2>1, <2>2
<1>5. NewIsFirst'
  BY <1>1, <1>4 DEF RegistryInv, NewIsFirst, registryVars, CallTypeInv, CallTypes
<1>6. LiveIsAlone'
  BY <1>1, <1>3 DEF RegistryInv, LiveIsAlone, registryVars, CallTypeInv, CallTypes
<1>7. RegisteredIsListed' /\ RunningIsAttached'
  BY <1>1 DEF RegistryInv, RegisteredIsListed, RunningIsAttached, registryVars, CallTypeInv, CallTypes
<1> QED
  BY <1>2, <1>5, <1>6, <1>7 DEF RegistryInv

LEMMA RegisterKeepsRegistry ==
  ASSUME CallTypeInv, RegistryInv, NEW c \in Calls, Register(c)
  PROVE  RegistryInv'
<1> USE DEF Early, Live, Executing, CallTypeInv, CallTypes
<1>1. /\ UNCHANGED <<timers, abort, stopping, attached>>
      /\ stage[c] = "stored" /\ stage' = [stage EXCEPT ![c] = "checking"]
      /\ promise' = [promise EXCEPT ![c] = "pending"]
      /\ entry' = [entry EXCEPT ![IdOf[c]] = c]
      /\ IdOf[c] \in Ids
  BY DEF Register, Move, Ids
<1>2. NothingStopped' /\ UnregisteredIsUnpromised'
  BY <1>1 DEF RegistryInv, NothingStopped, UnregisteredIsUnpromised
<1>3. NewIsFirst'
  BY <1>1 DEF RegistryInv, NewIsFirst
<1>4. LiveIsAlone'
  BY <1>1 DEF RegistryInv, LiveIsAlone
<1>5. RegisteredIsListed'
  <2> SUFFICES ASSUME NEW d \in Calls, stage'[d] \in Live \ {"stored"}
               PROVE  entry'[IdOf[d]] = d /\ promise'[d] = "pending"
    BY DEF RegisteredIsListed
  <2>1. CASE d = c
    BY <1>1, <2>1
  <2>2. CASE d # c
    <3>1. IdOf[d] # IdOf[c] /\ IdOf[d] \in Ids
      BY <1>1, <2>2 DEF RegistryInv, LiveIsAlone, Ids
    <3> QED
      BY <1>1, <2>2, <3>1 DEF RegistryInv, RegisteredIsListed
  <2> QED
    BY <2>1, <2>2
<1>6. RunningIsAttached'
  BY <1>1 DEF RegistryInv, RunningIsAttached
<1> QED
  BY <1>2, <1>3, <1>4, <1>5, <1>6 DEF RegistryInv

\* Between Register and the end of run() the record stands where it was put.
LEMMA LiveStepsKeepRegistry ==
  ASSUME CallTypeInv, RegistryInv, NEW c \in Calls,
         timers' = {}, UNCHANGED <<abort, stopping, entry, promise>>,
         stage[c] \in Live \ {"stored"},
         stage'[c] \in Live \ {"stored"},
         \A d \in Calls \ {c} : stage'[d] = stage[d] /\ attached'[d] = attached[d],
         stage'[c] \in Executing => attached'[c] = c
  PROVE  RegistryInv'
<1> USE DEF Early, Live, Executing
<1>1. NothingStopped' /\ UnregisteredIsUnpromised'
  BY DEF RegistryInv, NothingStopped, UnregisteredIsUnpromised
<1>2. NewIsFirst' /\ LiveIsAlone'
  BY DEF RegistryInv, NewIsFirst, LiveIsAlone
<1>3. RegisteredIsListed' /\ RunningIsAttached'
  BY DEF RegistryInv, RegisteredIsListed, RunningIsAttached
<1> QED
  BY <1>1, <1>2, <1>3 DEF RegistryInv

\* The end of run() settles the promise of the call itself.
LEMMA EndingKeepsRegistry ==
  ASSUME CallTypeInv, RegistryInv, NEW c \in Calls,
         AbandonFailed(c) \/ StartFails(c) \/ Return(c)
  PROVE  RegistryInv'
<1> USE DEF Early, Live, Executing, CallTypeInv, CallTypes
<1>1. /\ UNCHANGED <<abort, stopping, entry, attached>> /\ timers' = {}
      /\ stage[c] \in {"failing", "starting", "ended"}
      /\ stage'[c] \in {"burying", "over"} /\ \A d \in Calls \ {c} : stage'[d] = stage[d]
      /\ Finalize(IdOf[c])
  BY DEF AbandonFailed, StartFails, Return, Move, Finalize, RegistryInv, NothingStopped
<1>2. promise' = [promise EXCEPT ![c] = "settled"]
  <2>1. entry[IdOf[c]] = c /\ promise[c] = "pending"
    BY <1>1 DEF RegistryInv, RegisteredIsListed
  <2> QED
    BY <1>1, <2>1, LifecycleAssumption DEF Finalize, SettleOnce
<1>3. NothingStopped' /\ UnregisteredIsUnpromised'
  BY <1>1, <1>2 DEF RegistryInv, NothingStopped, UnregisteredIsUnpromised
<1>4. NewIsFirst'
  BY <1>1, <1>2 DEF RegistryInv, NewIsFirst
<1>5. LiveIsAlone'
  BY <1>1, <1>2 DEF RegistryInv, LiveIsAlone
<1>6. RegisteredIsListed' /\ RunningIsAttached'
  BY <1>1, <1>2 DEF RegistryInv, RegisteredIsListed, RunningIsAttached
<1> QED
  BY <1>3, <1>4, <1>5, <1>6 DEF RegistryInv

\* The `.finally` of a promise removes no record but its own.
LEMMA SettleKeepsRegistry ==
  ASSUME CallTypeInv, RegistryInv, NEW c \in Calls, Settle(c)
  PROVE  RegistryInv'
<1> USE DEF Early, Live, Executing, CallTypeInv, CallTypes
<1>1. /\ UNCHANGED <<timers, abort, stopping, stage>>
      /\ promise[c] = "settled" /\ promise' = [promise EXCEPT ![c] = "done"]
      /\ \A id \in Ids \ {IdOf[c]} : entry'[id] = entry[id]
      /\ attached' = [attached EXCEPT ![c] = NoCall]
  BY DEF Settle, runVars
<1>2. stage[c] \notin Live /\ \A d \in Calls : IdOf[d] = IdOf[c] => stage[d] \notin Live
  BY <1>1 DEF RegistryInv, UnregisteredIsUnpromised, RegisteredIsListed, LiveIsAlone
<1>3. NothingStopped' /\ UnregisteredIsUnpromised'
  BY <1>1 DEF RegistryInv, NothingStopped, UnregisteredIsUnpromised
<1>4. NewIsFirst' /\ LiveIsAlone'
  BY <1>1 DEF RegistryInv, NewIsFirst, LiveIsAlone
<1>5. RegisteredIsListed' /\ RunningIsAttached'
  BY <1>1, <1>2 DEF RegistryInv, RegisteredIsListed, RunningIsAttached, Ids
<1> QED
  BY <1>3, <1>4, <1>5 DEF RegistryInv

\* The hook of a run that did not start touches nothing but its row.
LEMMA BuryKeepsRegistry ==
  ASSUME CallTypeInv, RegistryInv, NEW c \in Calls, Bury(c)
  PROVE  RegistryInv'
<1> USE DEF Early, Live, Executing, CallTypeInv, CallTypes
<1>1. /\ UNCHANGED <<registryVars, timers, abort, stopping>>
      /\ stage[c] = "burying" /\ stage' = [stage EXCEPT ![c] = "over"]
  BY DEF Bury, Move
<1>2. NothingStopped' /\ UnregisteredIsUnpromised'
  BY <1>1 DEF RegistryInv, NothingStopped, UnregisteredIsUnpromised, registryVars
<1>3. NewIsFirst' /\ LiveIsAlone'
  BY <1>1 DEF RegistryInv, NewIsFirst, LiveIsAlone, registryVars
<1>4. RegisteredIsListed' /\ RunningIsAttached'
  BY <1>1 DEF RegistryInv, RegisteredIsListed, RunningIsAttached, registryVars
<1> QED
  BY <1>2, <1>3, <1>4 DEF RegistryInv

LEMMA CallsKeepRegistry ==
  ASSUME CallTypeInv, RunInv, RegistryInv, Undisturbed, NEW c \in Calls,
         Add(c) \/ Run(c) \/ Execute(c) \/ Settle(c)
  PROVE  RegistryInv'
<1> USE DEF Early, Live, Executing
<1>0. stage \in [Calls -> Stages] /\ attached \in [Calls -> Calls \cup {NoCall}] /\ timers = {}
  BY DEF CallTypeInv, CallTypes, RegistryInv, NothingStopped
<1>1. CASE Create(c) \/ ReadToResume(c) \/ Reserve(c) \/ Proceed(c) \/ Refuse(c)
  BY <1>0, <1>1, EarlyStepsKeepRegistry DEF Create, ReadToResume, Reserve, Proceed, Refuse, Move
<1>2. CASE Store(c)
  <2>1. CASE stage'[c] = "stored"
    BY <1>2, <2>1, StoreKeepsRegistry
  <2>2. CASE stage'[c] # "stored"
    <3>1. Move(c, "storing", "refused") /\ UNCHANGED <<registryVars, timers, abort, stopping>>
      BY <1>0, <1>2, <2>2 DEF Store, Move
    <3> QED
      BY <1>0, <3>1, EarlyStepsKeepRegistry DEF Move
  <2> QED
    BY <2>1, <2>2
<1>3. CASE Register(c)
  BY <1>3, RegisterKeepsRegistry
<1>4. CASE CheckFails(c) \/ MarkRunning(c)
  BY <1>0, <1>4, LiveStepsKeepRegistry DEF CheckFails, MarkRunning, Move, registryVars
<1>5. CASE StartWorkflow(c)
  <2>1. entry[IdOf[c]] = c /\ c # NoCall
    BY <1>5, LifecycleAssumption DEF StartWorkflow, Move, RegistryInv, RegisteredIsListed
  <2>2. attached' = [attached EXCEPT ![c] = c] /\ (timers' = timers \/ MayTimeOut)
    BY <1>5, <2>1 DEF StartWorkflow
  <2>3. /\ UNCHANGED <<abort, stopping, entry, promise>>
        /\ stage[c] = "starting" /\ stage' = [stage EXCEPT ![c] = "executing"]
    BY <1>5 DEF StartWorkflow, Move
  <2> QED
    BY <1>0, <2>2, <2>3, LiveStepsKeepRegistry DEF Undisturbed
<1>6. CASE AbandonFailed(c) \/ StartFails(c) \/ Return(c)
  BY <1>6, EndingKeepsRegistry
<1>7. CASE Execute(c)
  <2>1. /\ UNCHANGED <<timers, abort, stopping, entry, promise, attached>>
        /\ stage[c] \in {"executing", "pausing", "saving"}
        /\ stage'[c] \in {"pausing", "saving", "ended"}
        /\ stage'[c] = "pausing" => stage[c] \in Executing
        /\ \A d \in Calls \ {c} : stage'[d] = stage[d]
    BY <1>0, <1>7 DEF Execute, Pause, Finish, FinishAborted, Save, Move, registryVars
  <2> QED
    BY <1>0, <2>1, LiveStepsKeepRegistry DEF RegistryInv, RunningIsAttached
<1>8. CASE Settle(c)
  BY <1>8, SettleKeepsRegistry
<1>9. CASE Bury(c)
  BY <1>9, BuryKeepsRegistry
<1> QED
  BY <1>1, <1>2, <1>3, <1>4, <1>5, <1>6, <1>7, <1>8, <1>9 DEF Add, Run

\* What is disabled stays so.
LEMMA DisturbedStays ==
  [LifecycleNext]_lifecycleVars /\ Undisturbed' => Undisturbed
<1> SUFFICES ASSUME [LifecycleNext]_lifecycleVars, Undisturbed' PROVE Undisturbed
  OBVIOUS
<1>1. enabled' = enabled \/ enabled' = FALSE
  BY StepsReserve DEF CCNext, Throttle, Acquire, Release, Remove, Disable, lifecycleVars, ccVars
<1> QED
  BY <1>1 DEF Undisturbed

LEMMA ListInvStays ==
  /\ CCInv /\ CallTypeInv /\ RunInv
  /\ Undisturbed => ListInv
  /\ [LifecycleNext]_lifecycleVars
  => (Undisturbed => ListInv)'
<1> SUFFICES ASSUME CCInv, CallTypeInv, RunInv, Undisturbed => ListInv,
                    [LifecycleNext]_lifecycleVars, Undisturbed'
             PROVE  ListInv'
  OBVIOUS
<1>1. Undisturbed /\ ListInv
  BY DisturbedStays
<1>2. CASE UNCHANGED lifecycleVars
  BY <1>1, <1>2
     DEF lifecycleVars, ccVars, runVars, registryVars, ListInv, RegistryInv, NothingStopped,
         UnregisteredIsUnpromised, NewIsFirst, LiveIsAlone, RegisteredIsListed, RunningIsAttached,
         LiveHolds, NobodyOrphaned
<1>3. ASSUME NEW c \in Calls, Add(c) \/ Run(c) \/ Execute(c) \/ Settle(c) PROVE ListInv'
  BY <1>1, <1>3, CallsKeepRegistry, HoldsWhileLive DEF ListInv
<1> QED
  BY <1>1, <1>2, <1>3, NothingStops DEF ListInv

LEMMA ListInvHolds == LifecycleSpec => [](Undisturbed => ListInv)
<1>1. LifecycleSpec => []CallTypeInv
  BY StartTypes, CallTypesStay, PTL DEF LifecycleSpec
<1>2. LifecycleSpec => []CCInv
  BY ReservationProtocolHolds, InvHolds, PTL DEF ReservationProtocol
<1> QED
  BY <1>1, <1>2, StartListInv, ListInvStays, RunInvHolds, PTL DEF LifecycleSpec

\* Every workflow that runs nodes is the one its record can cancel, and its
\* promise is still to settle, while nothing is stopped (getActiveExecutions).
\* A stop removes the record of an execution that is going to wait, and the
\* run an overlapping resume follows settles the promise of its record.
THEOREM RunningIsListedHolds == LifecycleSpec => [](Undisturbed => RunningIsListed)
<1>1. ListInv => RunningIsListed
  BY DEF ListInv, RegistryInv, RegisteredIsListed, RunningIsAttached, RunningIsListed, Live, Executing
<1> QED
  BY <1>1, ListInvHolds, PTL

LEMMA FiniteHolders == \A t \in QueueTypes : IsFiniteSet(Holders(t))
<1>1. \A t \in QueueTypes : Holders(t) \subseteq Calls
  BY DEF Holders
<1> QED
  BY <1>1, ConfigAssumption, FS_Subset

\* With the concurrency limit in force no more workflows run nodes than it
\* allows, however executions queue, wait, resume and are refused, and also
\* when the process is asked to shut down.  A stop or a timeout gives the
\* capacity back before the nodes have ended.
THEOREM WorkflowsWithinLimitHolds ==
  LifecycleSpec => [](~MayRemove /\ ~MayTimeOut /\ ~ResumeOverlaps => WorkflowsWithinLimit)
<1>1. OverrunOnlyByRemoval /\ (Undisturbed => ListInv) =>
        (~MayRemove /\ ~MayTimeOut /\ ~ResumeOverlaps => WorkflowsWithinLimit)
  <2> SUFFICES ASSUME OverrunOnlyByRemoval, Undisturbed => ListInv,
                      ~MayRemove, ~MayTimeOut, ~ResumeOverlaps,
                      enabled, NEW t \in QueueTypes, Limit[t] > 0
               PROVE  Cardinality({c \in Calls : QueueOf(c) = t /\ stage[c] \in Executing}) <= Limit[t]
    BY DEF WorkflowsWithinLimit
  <2> DEFINE running == {c \in Calls : QueueOf(c) = t /\ stage[c] \in Executing}
  <2>1. ListInv
    BY DEF Undisturbed
  <2>2. running \subseteq Holders(t)
    BY <2>1 DEF ListInv, LiveHolds, Live, Holders
  <2>3. Orphans(t) = {}
    BY <2>1 DEF ListInv, NobodyOrphaned, Orphans
  <2>4. Cardinality(Holders(t)) <= Limit[t]
    BY <2>3, ConfigFacts, FiniteHolders, FS_EmptySet DEF OverrunOnlyByRemoval
  <2>5. Cardinality(running) <= Cardinality(Holders(t))
    BY <2>2, FiniteHolders, FS_Subset
  <2> HIDE DEF running
  <2>6. Cardinality(running) \in Nat /\ Cardinality(Holders(t)) \in Nat /\ Limit[t] \in Int
    BY ONLY <2>2, FiniteHolders, FS_Subset, FS_CardinalityType, ConfigFacts
  <2> QED
    BY <2>4, <2>5, <2>6 DEF running
<1>2. LifecycleSpec => []OverrunOnlyByRemoval
  BY ReservationProtocolHolds, OverrunOnlyByRemovalHolds, PTL DEF ReservationProtocol
<1> QED
  BY <1>1, <1>2, ListInvHolds, PTL

-----------------------------------------------------------------------------
(***************************************************************************)
(* ProcessRestart: what the recovery pass makes of the executions a        *)
(* process died with, for every number of executions and calls, and in     *)
(* both recovery modes.                                                    *)
(*                                                                         *)
(* The argument is about what a crash leaves of an execution.  One whose   *)
(* row says neither "none" nor "waiting" is laid down: its calls are over  *)
(* or have not begun, the next process can only read it, be refused or     *)
(* cancel it, and no step ever takes it up again.  One that waits is left  *)
(* alone as long as nothing is served, and the recovery pass puts back     *)
(* what it has read.                                                       *)
(***************************************************************************)
Finished == {"success", "error", "canceled"}

-----------------------------------------------------------------------------
(***************************************************************************)
(* The inductive invariant                                                 *)
(***************************************************************************)

\* RestartTypeOK, the types of the history and of what is being amended, and
\* the phases in which there is something to recover.
RestartTypes ==
  /\ RestartTypeOK
  /\ atCrash \in [Ids -> [status : Statuses, step : 0..MaxWaits]]
  /\ \/ recovering = NoRecovery
     \/ recovering \in [id : Ids, waits : BOOLEAN, step : 0..MaxWaits, written : BOOLEAN]
  /\ phase = "serving" => mode = "none"
  /\ phase # "recovering" => unfinished = {} /\ recovering = NoRecovery
  /\ phase # "again" => enqueued = {}

\* No step has been taken for an id before its row is made.
Untouched(id) ==
  /\ logged[id] = "nothing"
  /\ stopping[id] = "no"
  /\ \A c \in Calls : IdOf[c] = id => stage[c] = "idle" /\ abort[c] = "no"

NotYetCreated ==
  \A id \in Ids : row[id].status = "none" =>
    /\ Untouched(id)
    /\ id \notin unfinished \cup enqueued
    /\ recovering.id # id

CreatedOnce ==
  \A c \in Calls : KindOf[c] = "new" /\ stage[c] = "idle" => row[IdOf[c]].status = "none"

\* The stages a call can pass through without storing anything.
Powerless == {"idle", "reserving", "throttling", "storing", "refused", "over"}

\* What a run saves has been decided.
Decided == \A c \in Calls : stage[c] = "saving" => outcome[c] # "none"

\* No call can take the execution up.
LaidDown(id) ==
  /\ row[id].status \notin {"none", "waiting"}
  /\ \A c \in Calls : IdOf[c] = id =>
       stage[c] \in Powerless /\ abort[c] = "no" /\ (KindOf[c] = "new" => stage[c] = "over")

CutOffStays ==
  \A id \in Ids : phase # "serving" /\ atCrash[id].status \notin {"none", "waiting"} =>
    LaidDown(id) /\ (recovering.id = id => ~recovering.waits)

FinishedIsLeftAlone ==
  \A id \in Ids : mode = "extensive" /\ atCrash[id].status \in Finished =>
    /\ row[id] = atCrash[id]
    /\ stopping[id] \in {"no", "stopped"}
    /\ recovering.id # id
    /\ id \in unfinished => logged[id] # "nothing"

CutOffIsSeen ==
  \A id \in Ids :
    /\ phase \in {"recovering", "recovered"}
    /\ atCrash[id].status = "running"
    /\ row[id].status = "running"
    => id \in unfinished \/ recovering.id = id \/ (mode = "extensive" /\ logged[id] = "started")

\* With nothing served, what waits is amended or left alone.
KeptWaiting(id) ==
  /\ recovering.id # id => row[id] = atCrash[id]
  /\ recovering.id = id => recovering.waits /\ recovering.step = atCrash[id].step
  /\ id \in unfinished => logged[id] # "nothing"

WaitingIsKept ==
  ~ServesWhileBooting =>
    \A id \in Ids :
      /\ phase \in {"booting", "recovering", "recovered"}
      /\ mode = "extensive" \/ phase = "booting"
      /\ atCrash[id].status = "waiting"
      => KeptWaiting(id)

RestartInv ==
  /\ CallTypeInv
  /\ RestartTypes
  /\ NotYetCreated
  /\ CreatedOnce
  /\ Decided
  /\ CutOffStays
  /\ FinishedIsLeftAlone
  /\ CutOffIsSeen
  /\ WaitingIsKept

-----------------------------------------------------------------------------
(***************************************************************************)
(* What the steps of ExecutionLifecycle do to rows and calls               *)
(***************************************************************************)

\* A step of the call itself.
CallEffect(c) ==
  /\ UNCHANGED <<abort, stopping>>
  /\ \A d \in Calls \ {c} : stage'[d] = stage[d] /\ outcome'[d] = outcome[d]
  /\ \A id \in Ids \ {IdOf[c]} : row'[id] = row[id]
  /\ Decided => (stage'[c] = "saving" => outcome'[c] # "none")
  /\ \/ /\ stage[c] = "idle" /\ stage'[c] = "reserving"
        /\ KindOf[c] = "new"
        /\ row'[IdOf[c]].status = "new"
     \/ /\ stage[c] = "idle" /\ stage'[c] = "reserving"
        /\ KindOf[c] # "new"
        /\ row[IdOf[c]].status # "none"
        /\ UNCHANGED row
     \/ /\ stage[c] \in Powerless \ {"idle", "over"}
        /\ stage'[c] \in Powerless \ {"idle"}
        /\ UNCHANGED row
     \/ /\ \/ stage[c] \notin Powerless
           \/ KindOf[c] = "new" /\ stage[c] = "storing"
           \/ row[IdOf[c]].status = "waiting" /\ stage[c] = "storing"
        /\ stage'[c] # "idle"
        /\ Decided => row'[IdOf[c]] = row[IdOf[c]] \/ row'[IdOf[c]].status # "none"

\* A write of "canceled", by the hook of a cancellation or by a stop.
CancelEffect(id) ==
  /\ UNCHANGED <<stage, outcome>>
  /\ \A i \in Ids \ {id} : row'[i] = row[i] /\ stopping'[i] = stopping[i]
  /\ row'[id].status = "canceled"
  /\ \/ /\ \E c \in Calls : IdOf[c] = id /\ abort[c] = "saving"
        /\ UNCHANGED stopping
     \/ /\ stopping[id] = "storing"
        /\ stopping'[id] = "stopped"
  /\ \A c \in Calls : abort[c] = "no" => abort'[c] = "no"

\* A stop, a timeout, a settled promise or the shutdown: a workflow that runs
\* may be cancelled.
StopEffect ==
  /\ UNCHANGED <<row, stage, outcome>>
  /\ \A c \in Calls : abort[c] = "no" /\ abort'[c] # "no" => stage[c] \in Executing \cup {"saving"}
  /\ \A id \in Ids :
       \/ stopping'[id] = stopping[id]
       \/ row[id].status \in {"new", "waiting", "running"} /\ stopping[id] = "no"
       \/ stopping[id] = "asked"

LEMMA CallMoves ==
  ASSUME CallTypeInv, NEW c \in Calls, Add(c) \/ Run(c) \/ Execute(c)
  PROVE  CallEffect(c)
<1> USE DEF CallTypeInv, CallTypes, CallEffect, Decided, Powerless
<1>0. IdOf[c] \in Ids
  BY DEF Ids
<1>1. CASE Create(c)
  BY <1>0, <1>1 DEF Create, Move, SetStatus
<1>2. CASE ReadToResume(c)
  BY <1>0, <1>2 DEF ReadToResume, Move
<1>3. CASE Reserve(c)
  BY <1>0, <1>3 DEF Reserve, Move
<1>4. CASE Proceed(c)
  BY <1>0, <1>4 DEF Proceed, Move
<1>5. CASE Store(c)
  <2>1. UNCHANGED <<stopping, outcome, abort>> /\ stage[c] = "storing"
    BY <1>5 DEF Store
  <2>2. CASE KindOf[c] = "new" /\ Move(c, "storing", "stored") /\ SetStatus(IdOf[c], "running")
    BY <1>0, <2>1, <2>2 DEF Move, SetStatus
  <2>3. CASE /\ row[IdOf[c]].status = "waiting" /\ Move(c, "storing", "stored")
             /\ row' = [row EXCEPT ![IdOf[c]] = [status |-> "running", step |-> step[c]]]
    BY <1>0, <2>1, <2>3 DEF Move
  <2>4. CASE Move(c, "storing", "refused") /\ UNCHANGED row
    BY <1>0, <2>1, <2>4 DEF Move
  <2> QED
    BY <1>5, <2>2, <2>3, <2>4 DEF Store
<1>6. CASE Refuse(c)
  BY <1>0, <1>6 DEF Refuse, Move
<1>7. CASE Register(c)
  BY <1>0, <1>7 DEF Register, Move
<1>8. CASE CheckFails(c)
  BY <1>0, <1>8 DEF CheckFails, Move, SetStatus
<1>9. CASE AbandonFailed(c)
  BY <1>0, <1>9 DEF AbandonFailed, Move
<1>10. CASE MarkRunning(c)
  BY <1>0, <1>10 DEF MarkRunning, Move, SetStatus
<1>11. CASE StartWorkflow(c)
  BY <1>0, <1>11 DEF StartWorkflow, Move
<1>12. CASE Return(c)
  BY <1>0, <1>12 DEF Return, Move
<1>13. CASE Pause(c)
  BY <1>0, <1>13 DEF Pause, Move
<1>14. CASE Finish(c)
  BY <1>0, <1>14 DEF Finish, Outcomes, Executing
<1>15. CASE FinishAborted(c)
  BY <1>0, <1>15 DEF FinishAborted, Executing
<1>16. CASE Save(c)
  BY <1>0, <1>16 DEF Save, Move
<1>17. CASE StartFails(c)
  BY <1>0, <1>17 DEF StartFails, Move
<1>18. CASE Bury(c)
  BY <1>0, <1>18 DEF Bury, Move, SetStatus
<1> QED
  BY <1>1, <1>2, <1>3, <1>4, <1>5, <1>6, <1>7, <1>8, <1>9, <1>10, <1>11, <1>12, <1>13, <1>14,
     <1>15, <1>16, <1>17, <1>18 DEF Add, Run, Execute

\* StopEntry starts a cancellation only of a workflow that runs.
LEMMA StopEntryCancelsRunning ==
  ASSUME NEW id \in Ids, CallTypes, StopEntry(id)
  PROVE  \A c \in Calls :
           abort[c] = "no" /\ abort'[c] # "no" => stage[c] \in Executing \cup {"saving"}
<1>1. CASE UNCHANGED abort
  BY <1>1
<1>2. CASE entry[id] # NoCall /\ CancelAttached(entry[id])
  BY <1>2 DEF CancelAttached, CallTypes
<1> QED
  BY <1>1, <1>2 DEF StopEntry

LEMMA LifecycleEffects ==
  ASSUME CallTypeInv, LifecycleNext
  PROVE  \/ \E c \in Calls : CallEffect(c)
         \/ \E id \in Ids : CancelEffect(id)
         \/ StopEffect
<1>0. \A c \in Calls : IdOf[c] \in Ids
  BY DEF Ids
<1>1. ASSUME NEW c \in Calls, Add(c) \/ Run(c) \/ Execute(c) PROVE CallEffect(c)
  BY <1>1, CallMoves
<1> USE DEF CallTypeInv, CallTypes
<1>2. ASSUME NEW c \in Calls, SaveCanceled(c) PROVE CancelEffect(IdOf[c])
  BY <1>0, <1>2 DEF SaveCanceled, SetStatus, CancelEffect
<1>3. ASSUME NEW c \in Calls, Settle(c) PROVE StopEffect
  BY <1>3 DEF Settle, runVars, StopEffect
<1>4. ASSUME NEW c \in Calls, TimeOut(c) PROVE StopEffect
  <2>1. \A d \in Calls : abort[d] = "no" /\ abort'[d] # "no" => stage[d] \in Executing \cup {"saving"}
    BY <1>0, <1>4, StopEntryCancelsRunning DEF TimeOut
  <2> QED
    BY <1>4, <2>1 DEF TimeOut, StopEffect
<1>5. ASSUME NEW id \in Ids, AskToStop(id) PROVE StopEffect
  BY <1>5 DEF AskToStop, runVars, StopEffect
<1>6. ASSUME NEW id \in Ids, StopInRegularMode(id) PROVE StopEffect
  <2>1. \A d \in Calls : abort[d] = "no" /\ abort'[d] # "no" => stage[d] \in Executing \cup {"saving"}
    BY <1>6, StopEntryCancelsRunning DEF StopInRegularMode
  <2> QED
    BY <1>6, <2>1 DEF StopInRegularMode, StopEffect
<1>7. ASSUME NEW id \in Ids, StoreStopped(id) PROVE CancelEffect(id)
  BY <1>7 DEF StoreStopped, SetStatus, CancelEffect
<1>8. ASSUME ShutDown PROVE StopEffect
  BY <1>8 DEF ShutDown, runVars, StopEffect
<1> QED
  BY <1>0, <1>1, <1>2, <1>3, <1>4, <1>5, <1>6, <1>7, <1>8 DEF LifecycleNext, Stop

\* What has been laid down stays so, and its row changes only to "canceled".
LEMMA LaidDownStays ==
  ASSUME CallTypeInv, NEW id \in Ids, LaidDown(id), LifecycleNext
  PROVE  /\ LaidDown(id)'
         /\ \/ row'[id] = row[id]
            \/ row'[id].status = "canceled" /\ stopping[id] = "storing"
<1> USE DEF LaidDown
<1>1. ASSUME NEW c \in Calls, CallEffect(c) PROVE LaidDown(id)' /\ row'[id] = row[id]
  <2>1. CASE IdOf[c] = id
    <3>1. stage[c] \in Powerless /\ (KindOf[c] = "new" => stage[c] = "over")
      BY <2>1
    <3>2. stage'[c] \in Powerless /\ KindOf[c] # "new" /\ row'[id] = row[id]
      BY <1>1, <2>1, <3>1 DEF CallEffect, Powerless
    <3> QED
      BY <1>1, <2>1, <3>2 DEF CallEffect
  <2>2. CASE IdOf[c] # id
    BY <1>1, <2>2 DEF CallEffect
  <2> QED
    BY <2>1, <2>2
<1>2. ASSUME NEW i \in Ids, CancelEffect(i)
      PROVE  /\ LaidDown(id)'
             /\ \/ row'[id] = row[id]
                \/ row'[id].status = "canceled" /\ stopping[id] = "storing"
  BY <1>2 DEF CancelEffect
<1>3. CASE StopEffect
  BY <1>3 DEF StopEffect, Powerless, Executing
<1> QED
  BY <1>1, <1>2, <1>3, LifecycleEffects

\* Nobody stops what has finished.
LEMMA FinishedIsNotStopped ==
  ASSUME CallTypeInv, NEW id \in Ids, LaidDown(id), LifecycleNext,
         row[id].status \in Finished, stopping[id] \in {"no", "stopped"}
  PROVE  row'[id] = row[id] /\ stopping'[id] \in {"no", "stopped"}
<1>1. ASSUME NEW c \in Calls, CallEffect(c) PROVE UNCHANGED stopping
  BY <1>1 DEF CallEffect
<1>2. ASSUME NEW i \in Ids, CancelEffect(i) PROVE stopping'[id] \in {"no", "stopped"}
  BY <1>2 DEF CancelEffect, LaidDown
<1>3. CASE StopEffect
  BY <1>3 DEF StopEffect, Finished
<1> QED
  BY <1>1, <1>2, <1>3, LifecycleEffects, LaidDownStays

\* A row that has not been made has had no step taken for it.
LEMMA UntouchedStays ==
  ASSUME CallTypeInv, NotYetCreated, Decided, LifecycleNext,
         NEW id \in Ids, row'[id].status = "none"
  PROVE  /\ row[id].status = "none"
         /\ stopping'[id] = "no"
         /\ \A c \in Calls : IdOf[c] = id => stage'[c] = "idle" /\ abort'[c] = "no"
<1> USE DEF NotYetCreated, Untouched
<1>1. ASSUME NEW c \in Calls, CallEffect(c)
      PROVE  /\ row[id].status = "none"
             /\ stopping'[id] = "no"
             /\ \A d \in Calls : IdOf[d] = id => stage'[d] = "idle" /\ abort'[d] = "no"
  <2>1. row'[id] = row[id] /\ row[id].status = "none"
    BY <1>1 DEF CallEffect
  <2>2. IdOf[c] # id
    BY <1>1, <2>1 DEF CallEffect, Powerless
  <2> QED
    BY <1>1, <2>1, <2>2 DEF CallEffect
<1>2. ASSUME NEW i \in Ids, CancelEffect(i)
      PROVE  /\ row[id].status = "none"
             /\ stopping'[id] = "no"
             /\ \A d \in Calls : IdOf[d] = id => stage'[d] = "idle" /\ abort'[d] = "no"
  BY <1>2 DEF CancelEffect
<1>3. CASE StopEffect
  BY <1>3 DEF StopEffect, Executing
<1> QED
  BY <1>1, <1>2, <1>3, LifecycleEffects

LEMMA CreationStays ==
  ASSUME CallTypeInv, NotYetCreated, CreatedOnce, Decided, LifecycleNext
  PROVE  CreatedOnce' /\ Decided'
<1>1. ASSUME NEW c \in Calls, CallEffect(c) PROVE CreatedOnce' /\ Decided'
  <2>1. Decided'
    BY <1>1 DEF CallEffect, Decided
  <2>2. ASSUME NEW d \in Calls, KindOf[d] = "new", stage'[d] = "idle"
        PROVE  row'[IdOf[d]].status = "none"
    <3>1. d # c /\ stage[d] = "idle" /\ row[IdOf[d]].status = "none" /\ IdOf[d] \in Ids
      BY <1>1, <2>2 DEF CallEffect, CreatedOnce, Powerless, Ids
    <3>2. CASE IdOf[c] = IdOf[d]
      <4>1. stage[c] = "idle" /\ KindOf[c] # "new"
        BY <3>1, <3>2, <2>2, LifecycleAssumption DEF NotYetCreated, Untouched
      <4> QED
        BY <1>1, <3>1, <3>2, <4>1 DEF CallEffect, Powerless
    <3>3. CASE IdOf[c] # IdOf[d]
      BY <1>1, <3>1, <3>3 DEF CallEffect
    <3> QED
      BY <3>2, <3>3
  <2> QED
    BY <2>1, <2>2 DEF CreatedOnce
<1>2. ASSUME NEW i \in Ids, CancelEffect(i) PROVE CreatedOnce' /\ Decided'
  <2>1. row[i].status # "none"
    BY <1>2 DEF CancelEffect, NotYetCreated, Untouched
  <2>2. \A d \in Calls : IdOf[d] \in Ids
    BY DEF Ids
  <2> QED
    BY <1>2, <2>1, <2>2 DEF CancelEffect, CreatedOnce, Decided
<1>3. CASE StopEffect
  BY <1>3 DEF StopEffect, CreatedOnce, Decided
<1> QED
  BY <1>1, <1>2, <1>3, LifecycleEffects

\* The log of an execution whose calls have not begun says nothing.
LEMMA UntouchedIsNotLogged ==
  ASSUME RestartTypes, NEW id \in Ids, logged[id] = "nothing",
         \A c \in Calls : IdOf[c] = id =>
           stage[c] = "idle" /\ abort[c] = "no" /\ stage'[c] = "idle" /\ abort'[c] = "no",
         NEW c \in Calls, logged' = [logged EXCEPT ![IdOf[c]] = LogAfter(c)]
  PROVE  logged'[id] = "nothing"
<1>1. CASE IdOf[c] = id
  BY <1>1 DEF LogAfter, RestartTypes, RestartTypeOK
<1>2. CASE IdOf[c] # id
  BY <1>2 DEF RestartTypes, RestartTypeOK
<1> QED
  BY <1>1, <1>2

-----------------------------------------------------------------------------
(***************************************************************************)
(* The invariant holds                                                     *)
(***************************************************************************)

LEMMA StartRestartInv == RestartInit => RestartInv
<1> SUFFICES ASSUME RestartInit PROVE RestartInv
  OBVIOUS
<1>1. CallTypeInv
  BY StartTypes DEF RestartInit
<1>2. \A c \in Calls : IdOf[c] \in Ids
  BY DEF Ids
<1>3. RestartTypes
  BY <1>1 DEF RestartInit, RestartTypes, RestartTypeOK, CallTypeInv, CallTypes
<1>4. NotYetCreated /\ CreatedOnce /\ Decided
  BY <1>2, RestartAssumption
     DEF RestartInit, LifecycleInit, NotYetCreated, Untouched, CreatedOnce, Decided, NoRecovery
<1>5. CutOffStays /\ FinishedIsLeftAlone /\ CutOffIsSeen /\ WaitingIsKept
  BY DEF RestartInit, CutOffStays, FinishedIsLeftAlone, CutOffIsSeen, WaitingIsKept
<1> QED
  BY <1>1, <1>3, <1>4, <1>5 DEF RestartInv

\* A step of ExecutionLifecycle, while anything is served.
LEMMA LifecycleKeepsRestartInv ==
  ASSUME RestartInv, LifecycleStep
  PROVE  RestartInv'
<1> USE DEF RestartInv
<1>1. /\ LifecycleNext
      /\ phase \in {"serving", "again"} \/ ServesWhileBooting
      /\ UNCHANGED <<phase, mode, unfinished, recovering, enqueued, atCrash>>
  BY DEF LifecycleStep
<1>2. \/ \E c \in Calls : logged' = [logged EXCEPT ![IdOf[c]] = LogAfter(c)]
      \/ UNCHANGED logged
  BY DEF LifecycleStep
<1>3. phase \notin {"serving", "again"} => UNCHANGED logged
  BY DEF LifecycleStep, Logging
<1>4. CallTypeInv'
  BY <1>1, CallTypesStay
<1>5. RestartTypes'
  <2>1. logged' \in [Ids -> {"nothing", "started", "nodes"}]
    <3>1. ASSUME NEW c \in Calls PROVE LogAfter(c) \in {"nothing", "started", "nodes"}
      <4>1. logged[IdOf[c]] \in {"nothing", "started", "nodes"}
        BY DEF RestartTypes, RestartTypeOK, Ids
      <4> QED
        BY <4>1 DEF LogAfter
    <3> QED
      BY <1>2, <3>1 DEF RestartTypes, RestartTypeOK
  <2>2. row' \in [Ids -> [status : Statuses, step : 0..MaxWaits]]
    BY <1>4 DEF CallTypeInv, CallTypes
  <2> QED
    BY <1>1, <2>1, <2>2 DEF RestartTypes, RestartTypeOK, NoRecovery
<1>6. NotYetCreated'
  <2> SUFFICES ASSUME NEW id \in Ids, row'[id].status = "none"
               PROVE  /\ Untouched(id)'
                      /\ id \notin unfinished \cup enqueued
                      /\ recovering.id # id
    BY <1>1 DEF NotYetCreated
  <2>1. /\ row[id].status = "none"
        /\ stopping'[id] = "no"
        /\ \A c \in Calls : IdOf[c] = id => stage'[c] = "idle" /\ abort'[c] = "no"
    BY <1>1, UntouchedStays
  <2>2. Untouched(id) /\ id \notin unfinished \cup enqueued /\ recovering.id # id
    BY <2>1 DEF NotYetCreated
  <2>3. logged'[id] = "nothing"
    BY <1>2, <2>1, <2>2, UntouchedIsNotLogged DEF Untouched
  <2> QED
    BY <2>1, <2>2, <2>3 DEF Untouched
<1>7. CreatedOnce' /\ Decided'
  BY <1>1, CreationStays
<1>8. CutOffStays'
  BY <1>1, LaidDownStays DEF CutOffStays
<1>9. FinishedIsLeftAlone'
  <2> SUFFICES ASSUME NEW id \in Ids, mode = "extensive", atCrash[id].status \in Finished
               PROVE  /\ row'[id] = atCrash[id]
                      /\ stopping'[id] \in {"no", "stopped"}
                      /\ recovering.id # id
                      /\ id \in unfinished => logged'[id] # "nothing"
    BY <1>1 DEF FinishedIsLeftAlone
  <2>1. /\ row[id] = atCrash[id]
        /\ stopping[id] \in {"no", "stopped"}
        /\ recovering.id # id
        /\ id \in unfinished => logged[id] # "nothing"
    BY DEF FinishedIsLeftAlone
  <2>2. LaidDown(id)
    BY DEF CutOffStays, RestartTypes, Finished
  <2>3. row'[id] = row[id] /\ stopping'[id] \in {"no", "stopped"}
    BY <1>1, <2>1, <2>2, FinishedIsNotStopped
  <2>4. id \in unfinished => UNCHANGED logged
    BY <1>3 DEF RestartTypes
  <2> QED
    BY <2>1, <2>3, <2>4
<1>10. CutOffIsSeen'
  <2> SUFFICES ASSUME NEW id \in Ids, phase \in {"recovering", "recovered"},
                      atCrash[id].status = "running", row'[id].status = "running"
               PROVE  \/ id \in unfinished
                      \/ recovering.id = id
                      \/ mode = "extensive" /\ logged'[id] = "started"
    BY <1>1 DEF CutOffIsSeen
  <2>1. LaidDown(id)
    BY DEF CutOffStays
  <2>2. row[id].status = "running"
    BY <1>1, <2>1, LaidDownStays
  <2> QED
    BY <1>3, <2>2 DEF CutOffIsSeen
<1>11. WaitingIsKept'
  BY <1>1 DEF WaitingIsKept
<1> QED
  BY <1>4, <1>5, <1>6, <1>7, <1>8, <1>9, <1>10, <1>11

LEMMA StartNodeKeepsRestartInv ==
  ASSUME RestartInv, NEW c \in Calls, StartNode(c)
  PROVE  RestartInv'
<1> USE DEF RestartInv, StartNode
<1>0. IdOf[c] \in Ids /\ phase \in {"serving", "again"}
  BY DEF Ids, Logging
<1>1. UNCHANGED lifecycleVars /\ CallTypeInv'
  BY CallTypesStay
<1>2. /\ UNCHANGED <<row, stage, outcome, abort, stopping>>
      /\ UNCHANGED <<phase, mode, unfinished, recovering, enqueued, atCrash>>
  BY DEF lifecycleVars, runVars
<1>3. RestartTypes'
  BY <1>2 DEF RestartTypes, RestartTypeOK, NoRecovery
<1>4. NotYetCreated'
  <2>1. row[IdOf[c]].status # "none"
    BY <1>0 DEF NotYetCreated, Untouched
  <2> QED
    BY <1>2, <2>1 DEF NotYetCreated, Untouched, RestartTypes, RestartTypeOK
<1>5. CreatedOnce' /\ Decided' /\ CutOffStays'
  BY <1>2 DEF CreatedOnce, Decided, CutOffStays, LaidDown
<1>6. FinishedIsLeftAlone' /\ CutOffIsSeen' /\ WaitingIsKept'
  BY <1>0, <1>2 DEF FinishedIsLeftAlone, CutOffIsSeen, WaitingIsKept, RestartTypes
<1> QED
  BY <1>1, <1>3, <1>4, <1>5, <1>6

LEMMA RunEnqueuedKeepsRestartInv ==
  ASSUME RestartInv, NEW c \in Calls, RunEnqueued(c)
  PROVE  RestartInv'
<1> USE DEF RestartInv, RunEnqueued, Move
<1>0. IdOf[c] \in Ids
  BY DEF Ids
<1>1. CallTypeInv'
  BY DEF CallTypeInv, CallTypes, WaitsLeft, registryVars, Stages
<1>2. RestartTypes'
  BY DEF RestartTypes, RestartTypeOK, NoRecovery
<1>3. NotYetCreated'
  BY <1>0 DEF NotYetCreated, Untouched
<1>4. CreatedOnce' /\ Decided'
  BY DEF CreatedOnce, Decided, CallTypeInv, CallTypes
<1>5. CutOffStays'
  BY DEF CutOffStays, LaidDown, Powerless, CallTypeInv, CallTypes
<1>6. FinishedIsLeftAlone' /\ CutOffIsSeen' /\ WaitingIsKept'
  BY DEF FinishedIsLeftAlone, CutOffIsSeen, WaitingIsKept
<1> QED
  BY <1>1, <1>2, <1>3, <1>4, <1>5, <1>6

\* The crash lays down every execution that neither waits nor is to be made.
LEMMA CrashKeepsRestartInv ==
  ASSUME RestartInv, Crash
  PROVE  RestartInv'
<1> USE DEF RestartInv, Crash
<1>0. /\ \A c \in Calls : IdOf[c] \in Ids
      /\ \A id \in Ids : recovering.id # id
      /\ unfinished = {} /\ enqueued = {} /\ recovering = NoRecovery
  BY RestartAssumption DEF Ids, RestartTypes, NoRecovery
<1>1. CallTypeInv'
  BY LifecycleAssumption DEF CallTypeInv, CallTypes, WaitsLeft, Stages
<1>2. RestartTypes'
  BY <1>0, RestartAssumption DEF RestartTypes, RestartTypeOK, NoRecovery, CallTypeInv, CallTypes
<1>3. NotYetCreated'
  BY <1>0 DEF NotYetCreated, Untouched, CallTypeInv, CallTypes
<1>4. CreatedOnce' /\ Decided'
  BY DEF CreatedOnce, Decided
<1>5. CutOffStays'
  <2> SUFFICES ASSUME NEW id \in Ids, row[id].status \notin {"none", "waiting"}
               PROVE  LaidDown(id)'
    BY <1>0 DEF CutOffStays
  <2>1. ASSUME NEW c \in Calls, IdOf[c] = id, KindOf[c] = "new" PROVE stage'[c] = "over"
    BY <2>1 DEF CreatedOnce
  <2> QED
    BY <2>1 DEF LaidDown, Powerless
<1>6. FinishedIsLeftAlone'
  BY <1>0 DEF FinishedIsLeftAlone, CallTypeInv, CallTypes
<1>7. CutOffIsSeen' /\ WaitingIsKept'
  BY <1>0 DEF CutOffIsSeen, WaitingIsKept, KeptWaiting
<1> QED
  BY <1>1, <1>2, <1>3, <1>4, <1>5, <1>6, <1>7

\* The recovery pass writes rows and its own state only.
OnlyRows ==
  UNCHANGED <<stage, step, outcome, timers, unwatched, abort, registryVars, stopping,
              mode, logged, atCrash>>

LEMMA RowsKeepCalls ==
  ASSUME CallTypeInv, Decided, OnlyRows, row' \in [Ids -> [status : Statuses, step : 0..MaxWaits]]
  PROVE  CallTypeInv' /\ Decided'
BY DEF CallTypeInv, CallTypes, WaitsLeft, Decided, OnlyRows, registryVars

\* A row that is written has been made, and what is laid down stays so.
LEMMA RowsKeepCreation ==
  ASSUME NotYetCreated, CreatedOnce, OnlyRows,
         \A id \in Ids : row'[id].status = "none" <=> row[id].status = "none",
         \A id \in unfinished' \cup enqueued' : row[id].status # "none",
         \A id \in Ids : recovering'.id = id => row[id].status # "none"
  PROVE  NotYetCreated' /\ CreatedOnce'
<1>1. \A c \in Calls : IdOf[c] \in Ids
  BY DEF Ids
<1>2. NotYetCreated'
  BY DEF NotYetCreated, Untouched, OnlyRows
<1>3. CreatedOnce'
  BY <1>1 DEF CreatedOnce, OnlyRows
<1> QED
  BY <1>2, <1>3

LEMMA RowsKeepLaidDown ==
  ASSUME OnlyRows, NEW id \in Ids, LaidDown(id), row'[id].status \notin {"none", "waiting"}
  PROVE  LaidDown(id)'
BY DEF LaidDown, OnlyRows

LEMMA ListUnfinishedKeepsRestartInv ==
  ASSUME RestartInv, ListUnfinished
  PROVE  RestartInv'
<1> USE DEF RestartInv, ListUnfinished
<1>1. OnlyRows /\ UNCHANGED <<row, recovering, enqueued>>
  BY DEF OnlyRows, lifecycleVars, runVars
<1>2. CallTypeInv' /\ Decided'
  BY <1>1, RowsKeepCalls DEF CallTypeInv, CallTypes
<1>3. RestartTypes'
  BY <1>1 DEF RestartTypes, RestartTypeOK, OnlyRows
<1>4. NotYetCreated' /\ CreatedOnce'
  <2>1. \A id \in unfinished' \cup enqueued' : row[id].status # "none"
    BY <1>1 DEF NotYetCreated, Untouched, RestartTypes, RestartTypeOK
  <2> QED
    BY <1>1, <2>1, RowsKeepCreation DEF NotYetCreated
<1>5. CutOffStays' /\ CutOffIsSeen'
  BY <1>1 DEF CutOffStays, CutOffIsSeen, LaidDown, OnlyRows
<1>6. FinishedIsLeftAlone'
  BY <1>1 DEF FinishedIsLeftAlone, OnlyRows, Finished
<1>7. WaitingIsKept'
  <2> SUFFICES ASSUME ~ServesWhileBooting, NEW id \in Ids, atCrash[id].status = "waiting"
               PROVE  KeptWaiting(id)'
    BY <1>1 DEF WaitingIsKept, OnlyRows
  <2>1. KeptWaiting(id) /\ recovering.id # id
    BY RestartAssumption DEF WaitingIsKept, RestartTypes, NoRecovery
  <2> QED
    BY <1>1, <2>1 DEF KeptWaiting, OnlyRows
<1> QED
  BY <1>2, <1>3, <1>4, <1>5, <1>6, <1>7

LEMMA MarkAllKeepsRestartInv ==
  ASSUME RestartInv, MarkAllAsCrashed
  PROVE  RestartInv'
<1> USE DEF RestartInv, MarkAllAsCrashed
<1>1. /\ OnlyRows
      /\ UNCHANGED <<phase, recovering, enqueued>>
      /\ \A id \in Ids : \/ row'[id] = row[id] /\ id \notin unfinished
                         \/ row'[id].status = "crashed" /\ id \in unfinished
  BY DEF OnlyRows, CallTypeInv, CallTypes
<1>2. row' \in [Ids -> [status : Statuses, step : 0..MaxWaits]]
  BY DEF CallTypeInv, CallTypes, Statuses
<1>3. CallTypeInv' /\ Decided'
  BY <1>1, <1>2, RowsKeepCalls
<1>4. RestartTypes'
  BY <1>1, <1>2 DEF RestartTypes, RestartTypeOK, OnlyRows
<1>5. NotYetCreated' /\ CreatedOnce'
  <2>1. \A id \in Ids : row'[id].status = "none" <=> row[id].status = "none"
    BY <1>1 DEF NotYetCreated
  <2>2. \A id \in unfinished' \cup enqueued' : row[id].status # "none"
    BY <1>1 DEF NotYetCreated, RestartTypes, RestartTypeOK
  <2> QED
    BY <1>1, <2>1, <2>2, RowsKeepCreation DEF NotYetCreated
<1>6. CutOffStays'
  BY <1>1 DEF CutOffStays, LaidDown, OnlyRows
<1>7. CutOffIsSeen'
  BY <1>1 DEF CutOffIsSeen, OnlyRows
<1>8. FinishedIsLeftAlone' /\ WaitingIsKept'
  BY <1>1 DEF FinishedIsLeftAlone, WaitingIsKept, OnlyRows
<1> QED
  BY <1>3, <1>4, <1>5, <1>6, <1>7, <1>8

LEMMA AmendKeepsRestartInv ==
  ASSUME RestartInv, NEW id \in Ids, Amend(id)
  PROVE  RestartInv'
<1> USE DEF RestartInv, Amend
<1>1. /\ OnlyRows
      /\ UNCHANGED <<phase, enqueued>>
      /\ phase = "recovering" /\ mode = "extensive" /\ recovering = NoRecovery
      /\ id \in unfinished /\ unfinished' = unfinished \ {id}
      /\ row[id].status # "none"
      /\ \A i \in Ids : row'[i] = row[i] \/ (i = id /\ row'[i].status = "crashed")
      /\ recovering' \in {AsRead(id), NoRecovery}
  BY DEF OnlyRows, SetStatus, NotYetCreated, CallTypeInv, CallTypes
<1>2. \A i \in Ids : NoRecovery.id # i
  BY RestartAssumption DEF NoRecovery
<1>3. row' \in [Ids -> [status : Statuses, step : 0..MaxWaits]]
  BY DEF SetStatus, CallTypeInv, CallTypes, Statuses
<1>4. CallTypeInv' /\ Decided'
  BY <1>1, <1>3, RowsKeepCalls
<1>5. AsRead(id) \in [id : Ids, waits : BOOLEAN, step : 0..MaxWaits, written : BOOLEAN]
  BY DEF AsRead, CallTypeInv, CallTypes
<1>12. /\ AsRead(id).id = id
       /\ AsRead(id).step = row[id].step
       /\ AsRead(id).waits = (row[id].status = "waiting")
  BY DEF AsRead
<1>6. RestartTypes'
  BY <1>1, <1>3, <1>5 DEF RestartTypes, RestartTypeOK, OnlyRows
<1>7. NotYetCreated' /\ CreatedOnce'
  <2>1. \A i \in Ids : row'[i].status = "none" <=> row[i].status = "none"
    BY <1>1
  <2>2. \A i \in unfinished' \cup enqueued' : row[i].status # "none"
    BY <1>1 DEF NotYetCreated, RestartTypes, RestartTypeOK
  <2>3. \A i \in Ids : recovering'.id = i => row[i].status # "none"
    BY <1>1, <1>2 DEF AsRead
  <2> QED
    BY <1>1, <2>1, <2>2, <2>3, RowsKeepCreation
<1>8. CutOffStays'
  <2> SUFFICES ASSUME NEW i \in Ids, atCrash[i].status \notin {"none", "waiting"}
               PROVE  LaidDown(i)' /\ (recovering'.id = i => ~recovering'.waits)
    BY <1>1 DEF CutOffStays, OnlyRows
  <2>1. LaidDown(i)
    BY <1>1 DEF CutOffStays
  <2>2. LaidDown(i)'
    BY <1>1, <2>1, RowsKeepLaidDown DEF LaidDown
  <2>3. recovering'.id = i => i = id /\ recovering' = AsRead(id)
    BY <1>1, <1>2, <1>12
  <2>4. row[i].status # "waiting"
    BY <2>1 DEF LaidDown
  <2> QED
    BY <1>12, <2>2, <2>3, <2>4
<1>9. FinishedIsLeftAlone'
  <2> SUFFICES ASSUME NEW i \in Ids, atCrash[i].status \in Finished
               PROVE  /\ row'[i] = atCrash[i]
                      /\ stopping[i] \in {"no", "stopped"}
                      /\ recovering'.id # i
                      /\ i \in unfinished' => logged[i] # "nothing"
    BY <1>1 DEF FinishedIsLeftAlone, OnlyRows
  <2>1. /\ row[i] = atCrash[i]
        /\ stopping[i] \in {"no", "stopped"}
        /\ i \in unfinished => logged[i] # "nothing"
    BY <1>1 DEF FinishedIsLeftAlone
  <2>2. i = id => UNCHANGED <<row, recovering>>
    BY <1>1, <2>1 DEF Ended, Finished
  <2> QED
    BY <1>1, <1>2, <2>1, <2>2 DEF AsRead
<1>10. CutOffIsSeen'
  <2> SUFFICES ASSUME NEW i \in Ids, atCrash[i].status = "running", row'[i].status = "running"
               PROVE  i \in unfinished' \/ recovering'.id = i \/ logged[i] = "started"
    BY <1>1 DEF CutOffIsSeen, OnlyRows
  <2>1. row[i].status = "running" /\ (i \in unfinished \/ logged[i] = "started")
    BY <1>1, <1>2 DEF CutOffIsSeen
  <2>2. i = id => recovering'.id = i \/ logged[i] = "started"
    BY <2>1 DEF Ended, AsRead, RestartTypes, RestartTypeOK
  <2> QED
    BY <1>1, <2>1, <2>2
<1>11. WaitingIsKept'
  <2> SUFFICES ASSUME ~ServesWhileBooting, NEW i \in Ids, atCrash[i].status = "waiting"
               PROVE  KeptWaiting(i)'
    BY <1>1 DEF WaitingIsKept, OnlyRows
  <2>1. KeptWaiting(i) /\ row[i] = atCrash[i]
    BY <1>1, <1>2 DEF WaitingIsKept, KeptWaiting
  <2>2. i # id => row'[i] = row[i]
    BY <1>1
  <2>3. i = id => \/ recovering' = AsRead(id)
                  \/ UNCHANGED <<row, recovering>>
    OBVIOUS
  <2>4. i \in unfinished' => logged'[i] # "nothing"
    BY <1>1, <2>1 DEF KeptWaiting, OnlyRows
  <2>5. recovering'.id # i => row'[i] = atCrash'[i]
    BY <1>1, <1>2, <2>1, <2>2, <2>3 DEF AsRead, OnlyRows
  <2>6. recovering'.id = i => recovering'.waits /\ recovering'.step = atCrash'[i].step
    <3>1. recovering'.id = i => i = id /\ recovering' = AsRead(id)
      BY <1>1, <1>2, <1>12
    <3>2. row[i].status = "waiting" /\ row[i].step = atCrash'[i].step
      BY <1>1, <2>1 DEF OnlyRows
    <3> QED
      BY <1>12, <3>1, <3>2
  <2> QED
    BY <2>4, <2>5, <2>6 DEF KeptWaiting
<1> QED
  BY <1>4, <1>6, <1>7, <1>8, <1>9, <1>10, <1>11

LEMMA WriteCrashedKeepsRestartInv ==
  ASSUME RestartInv, WriteCrashed
  PROVE  RestartInv'
<1> USE DEF RestartInv, WriteCrashed
<1>1. PICK id \in Ids :
        /\ recovering \in [id : Ids, waits : BOOLEAN, step : 0..MaxWaits, written : BOOLEAN]
        /\ recovering.id = id
        /\ phase = "recovering"
  BY DEF RestartTypes
<1>2. /\ OnlyRows
      /\ UNCHANGED <<phase, unfinished, enqueued>>
      /\ row' = [row EXCEPT ![id] = [status |-> "crashed", step |-> recovering.step]]
      /\ recovering' \in [id : Ids, waits : BOOLEAN, step : 0..MaxWaits, written : BOOLEAN]
      /\ recovering'.id = id /\ recovering'.waits = recovering.waits
      /\ recovering'.step = recovering.step
      /\ row[id].status # "none"
  BY <1>1 DEF OnlyRows, NotYetCreated
<1>3. /\ row' \in [Ids -> [status : Statuses, step : 0..MaxWaits]]
      /\ \A i \in Ids : row'[i] = row[i] \/ (i = id /\ row'[i].status = "crashed")
  BY <1>1, <1>2 DEF CallTypeInv, CallTypes, Statuses
<1>4. CallTypeInv' /\ Decided'
  BY <1>2, <1>3, RowsKeepCalls
<1>5. RestartTypes'
  BY <1>1, <1>2, <1>3 DEF RestartTypes, RestartTypeOK, OnlyRows
<1>6. NotYetCreated' /\ CreatedOnce'
  <2>1. \A i \in Ids : row'[i].status = "none" <=> row[i].status = "none"
    BY <1>2, <1>3
  <2>2. \A i \in unfinished' \cup enqueued' : row[i].status # "none"
    BY <1>2 DEF NotYetCreated, RestartTypes, RestartTypeOK
  <2>3. \A i \in Ids : recovering'.id = i => row[i].status # "none"
    BY <1>2
  <2> QED
    BY <1>2, <2>1, <2>2, <2>3, RowsKeepCreation
<1>7. CutOffStays'
  <2> SUFFICES ASSUME NEW i \in Ids, atCrash[i].status \notin {"none", "waiting"}
               PROVE  LaidDown(i)' /\ (recovering'.id = i => ~recovering'.waits)
    BY <1>1, <1>2 DEF CutOffStays, OnlyRows
  <2>1. LaidDown(i) /\ (recovering.id = i => ~recovering.waits)
    BY <1>1 DEF CutOffStays
  <2>2. LaidDown(i)'
    BY <1>2, <1>3, <2>1, RowsKeepLaidDown DEF LaidDown
  <2> QED
    BY <1>1, <1>2, <2>1, <2>2
<1>8. FinishedIsLeftAlone'
  BY <1>1, <1>2, <1>3 DEF FinishedIsLeftAlone, OnlyRows
<1>9. CutOffIsSeen'
  BY <1>1, <1>2, <1>3 DEF CutOffIsSeen, OnlyRows
<1>10. WaitingIsKept'
  <2> SUFFICES ASSUME ~ServesWhileBooting, NEW i \in Ids, mode = "extensive",
                      atCrash[i].status = "waiting"
               PROVE  KeptWaiting(i)'
    BY <1>1, <1>2 DEF WaitingIsKept, OnlyRows
  <2>1. KeptWaiting(i)
    BY <1>1 DEF WaitingIsKept
  <2> QED
    BY <1>1, <1>2, <1>3, <2>1 DEF KeptWaiting, OnlyRows
<1> QED
  BY <1>4, <1>5, <1>6, <1>7, <1>8, <1>9, <1>10

\* The hooks put "waiting" back over "crashed".
LEMMA RunHooksKeepsRestartInv ==
  ASSUME RestartInv, RunHooks
  PROVE  RestartInv'
<1> USE DEF RestartInv, RunHooks
<1> DEFINE status == IF recovering.waits THEN "waiting" ELSE "crashed"
<1>1. PICK id \in Ids :
        /\ recovering \in [id : Ids, waits : BOOLEAN, step : 0..MaxWaits, written : BOOLEAN]
        /\ recovering.id = id
        /\ phase = "recovering"
  BY DEF RestartTypes
<1>2. /\ OnlyRows
      /\ UNCHANGED <<phase, unfinished, enqueued>>
      /\ row' = [row EXCEPT ![id] = [status |-> status, step |-> recovering.step]]
      /\ recovering' = NoRecovery
      /\ row[id].status # "none"
  BY <1>1 DEF OnlyRows, NotYetCreated
<1>3. /\ status \in Statuses \ {"none", "running"}
      /\ ~recovering.waits => status = "crashed"
      /\ recovering.waits => status = "waiting"
  BY <1>1 DEF Statuses
<1>4. /\ row' \in [Ids -> [status : Statuses, step : 0..MaxWaits]]
      /\ \A i \in Ids \ {id} : row'[i] = row[i]
      /\ row'[id] = [status |-> status, step |-> recovering.step]
      /\ row'[id].status = status
  <2> HIDE DEF status
  <2> QED
    BY <1>1, <1>2, <1>3 DEF CallTypeInv, CallTypes
<1>5. \A i \in Ids : recovering'.id # i
  BY <1>2, RestartAssumption DEF NoRecovery
<1> HIDE DEF status
<1>6. CallTypeInv' /\ Decided'
  BY <1>2, <1>4, RowsKeepCalls
<1>7. RestartTypes'
  BY <1>1, <1>2, <1>4 DEF RestartTypes, RestartTypeOK, OnlyRows
<1>8. NotYetCreated' /\ CreatedOnce'
  <2>1. \A i \in Ids : row'[i].status = "none" <=> row[i].status = "none"
    BY <1>2, <1>3, <1>4
  <2>2. \A i \in unfinished' \cup enqueued' : row[i].status # "none"
    BY <1>2 DEF NotYetCreated, RestartTypes, RestartTypeOK
  <2> QED
    BY <1>2, <1>5, <2>1, <2>2, RowsKeepCreation
<1>9. CutOffStays'
  <2> SUFFICES ASSUME NEW i \in Ids, atCrash[i].status \notin {"none", "waiting"}
               PROVE  LaidDown(i)'
    BY <1>1, <1>2, <1>5 DEF CutOffStays, OnlyRows
  <2>1. LaidDown(i) /\ (i = id => ~recovering.waits)
    BY <1>1 DEF CutOffStays
  <2>2. row'[i].status \notin {"none", "waiting"}
    BY <1>3, <1>4, <2>1 DEF LaidDown
  <2> QED
    BY <1>2, <2>1, <2>2, RowsKeepLaidDown
<1>10. FinishedIsLeftAlone'
  BY <1>1, <1>2, <1>4, <1>5 DEF FinishedIsLeftAlone, OnlyRows
<1>11. CutOffIsSeen'
  BY <1>1, <1>2, <1>3, <1>4 DEF CutOffIsSeen, OnlyRows
<1>12. WaitingIsKept'
  <2> SUFFICES ASSUME ~ServesWhileBooting, NEW i \in Ids, mode = "extensive",
                      atCrash[i].status = "waiting"
               PROVE  KeptWaiting(i)'
    BY <1>1, <1>2 DEF WaitingIsKept, OnlyRows
  <2>1. KeptWaiting(i)
    BY <1>1 DEF WaitingIsKept
  <2>2. row'[i] = atCrash[i]
    <3>1. CASE i = id
      <4>1. status = "waiting" /\ recovering.step = atCrash[i].step
        BY <1>1, <1>3, <2>1, <3>1 DEF KeptWaiting
      <4>2. atCrash[i] \in [status : Statuses, step : 0..MaxWaits]
        BY DEF RestartTypes
      <4> QED
        BY <1>4, <3>1, <4>1, <4>2
    <3>2. CASE i # id
      BY <1>1, <1>4, <2>1, <3>2 DEF KeptWaiting
    <3> QED
      BY <3>1, <3>2
  <2> QED
    BY <1>2, <1>5, <2>1, <2>2 DEF KeptWaiting, OnlyRows
<1> QED
  BY <1>6, <1>7, <1>8, <1>9, <1>10, <1>11, <1>12

LEMMA PhasesKeepRestartInv ==
  ASSUME RestartInv, EndRecovery \/ ListEnqueued
  PROVE  RestartInv'
<1> USE DEF RestartInv
<1>1. /\ OnlyRows /\ UNCHANGED <<row, recovering, unfinished>>
      /\ phase \in {"recovering", "recovered"} /\ phase' \in {"recovered", "again"}
      /\ phase' = "recovered" => phase = "recovering"
      /\ \A id \in enqueued' : id \in Ids /\ row[id].status # "none"
      /\ recovering = NoRecovery /\ unfinished = {}
  BY DEF EndRecovery, ListEnqueued, OnlyRows, lifecycleVars, runVars, RestartTypes
<1>2. CallTypeInv' /\ Decided'
  BY <1>1, RowsKeepCalls DEF CallTypeInv, CallTypes
<1>3. RestartTypes'
  BY <1>1 DEF RestartTypes, RestartTypeOK, OnlyRows, EndRecovery, ListEnqueued
<1>4. NotYetCreated' /\ CreatedOnce'
  BY <1>1, RowsKeepCreation DEF NotYetCreated
<1>5. CutOffStays'
  BY <1>1 DEF CutOffStays, LaidDown, OnlyRows
<1>6. FinishedIsLeftAlone' /\ CutOffIsSeen'
  BY <1>1 DEF FinishedIsLeftAlone, CutOffIsSeen, OnlyRows
<1>7. WaitingIsKept'
  BY <1>1 DEF WaitingIsKept, KeptWaiting, OnlyRows
<1> QED
  BY <1>2, <1>3, <1>4, <1>5, <1>6, <1>7

LEMMA StepKeepsRestartInv == RestartInv /\ [RestartNext]_restartVars => RestartInv'
<1> SUFFICES ASSUME RestartInv, [RestartNext]_restartVars PROVE RestartInv'
  OBVIOUS
<1>1. CASE UNCHANGED restartVars
  <2>1. UNCHANGED lifecycleVars /\ CallTypeInv'
    BY <1>1, CallTypesStay DEF restartVars, RestartInv
  <2>2. /\ UNCHANGED <<row, stage, outcome, abort, stopping>>
        /\ UNCHANGED <<phase, mode, logged, unfinished, recovering, enqueued, atCrash>>
    BY <1>1 DEF restartVars, lifecycleVars, runVars
  <2>3. RestartTypes' /\ NotYetCreated' /\ CreatedOnce' /\ Decided'
    BY <2>2 DEF RestartInv, RestartTypes, RestartTypeOK, NotYetCreated, Untouched, CreatedOnce, Decided
  <2>4. CutOffStays' /\ FinishedIsLeftAlone' /\ CutOffIsSeen' /\ WaitingIsKept'
    BY <2>2 DEF RestartInv, CutOffStays, LaidDown, FinishedIsLeftAlone, CutOffIsSeen,
                WaitingIsKept, KeptWaiting
  <2> QED
    BY <2>1, <2>3, <2>4 DEF RestartInv
<1>2. CASE RestartNext
  BY <1>2, LifecycleKeepsRestartInv, StartNodeKeepsRestartInv, RunEnqueuedKeepsRestartInv,
     CrashKeepsRestartInv, ListUnfinishedKeepsRestartInv, MarkAllKeepsRestartInv,
     AmendKeepsRestartInv, WriteCrashedKeepsRestartInv, RunHooksKeepsRestartInv,
     PhasesKeepRestartInv
     DEF RestartNext, Recover
<1> QED
  BY <1>1, <1>2

LEMMA RestartInvHolds == RestartSpec => []RestartInv
  BY StartRestartInv, StepKeepsRestartInv, PTL DEF RestartSpec

-----------------------------------------------------------------------------
(***************************************************************************)
(* What the recovery promises                                              *)
(***************************************************************************)

\* The types of the process, of what it recovers and of the rows.
THEOREM RestartTypesHold == RestartSpec => []RestartTypeOK
<1>1. RestartInv => RestartTypeOK
  BY DEF RestartInv, RestartTypes
<1> QED
  BY <1>1, RestartInvHolds, PTL

\* The extensive recovery never overwrites the status an execution ended with
\* before the crash (the filter of recoverFromLogs), whatever the log holds of
\* it and whatever is served meanwhile.
THEOREM FinishedStaysFinishedHolds == RestartSpec => []FinishedStaysFinished
<1>1. RestartInv => FinishedStaysFinished
  BY DEF RestartInv, FinishedIsLeftAlone, FinishedStaysFinished, Finished
<1> QED
  BY <1>1, RestartInvHolds, PTL

\* After the recovery no execution the process died with says it is running,
\* in either mode, but for those of which the log holds no node.
THEOREM CutOffIsCrashedHolds == RestartSpec => []CutOffIsCrashed
<1>1. RestartInv => CutOffIsCrashed
  <2> SUFFICES ASSUME RestartInv, NEW id \in Ids, phase = "recovered",
                      atCrash[id].status = "running",
                      mode = "extensive" => logged[id] # "started",
                      row[id].status = "running"
               PROVE  FALSE
    BY DEF CutOffIsCrashed
  <2>1. unfinished = {} /\ recovering.id # id
    BY RestartAssumption DEF RestartInv, RestartTypes, NoRecovery
  <2> QED
    BY <2>1 DEF RestartInv, CutOffIsSeen
<1> QED
  BY <1>1, RestartInvHolds, PTL

\* An execution that waited when the process died waits again after the
\* extensive recovery, with the same data, if nothing is served before it has
\* ended.  A resume that comes in while the pass runs races with it.
THEOREM WaitingSurvivesHolds == RestartSpec => [](~ServesWhileBooting => WaitingSurvives)
<1>1. RestartInv => (~ServesWhileBooting => WaitingSurvives)
  <2> SUFFICES ASSUME RestartInv, ~ServesWhileBooting, NEW id \in Ids, phase = "recovered",
                      mode = "extensive", atCrash[id].status = "waiting"
               PROVE  row[id] = atCrash[id]
    BY DEF WaitingSurvives
  <2>1. recovering.id # id
    BY RestartAssumption DEF RestartInv, RestartTypes, NoRecovery
  <2> QED
    BY <2>1 DEF RestartInv, WaitingIsKept, KeptWaiting
<1> QED
  BY <1>1, RestartInvHolds, PTL
=============================================================================

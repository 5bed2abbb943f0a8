--------------------------- MODULE QueueModeProofs ---------------------------
(***************************************************************************)
(* For any number of executions, mains, workers, chains and upsets: an     *)
(* execution is taken and started once (TakenOnceHolds), a success that    *)
(* nobody has looked at before stands (SuccessStandsHolds), and queue      *)
(* recovery runs where the leader is (RecoveryFollowsLeadershipHolds).     *)
(***************************************************************************)
EXTENDS QueueMode, FiniteSetTheorems, TLAPS

USE QueueAssumption

\* The chain a takeover starts is one of the chains.
LEMMA FreshChain ==
  ASSUME NEW m \in Mains, Idle(m) # {}
  PROVE  (CHOOSE k \in Idle(m) : TRUE) \in Idle(m) /\ Idle(m) \subseteq Chains
BY DEF Idle

\* Setting a timer keeps the types.
LEMMA TimerTypes ==
  ASSUME QueueTypeOK, NEW m \in Mains, NEW k \in Chains, SetTimer(m, k)
  PROVE  /\ chain' \in [Mains -> [Chains -> {"off", "timer", "jobs", "crashing"}]]
         /\ latest' \in [Mains -> Chains \cup {Nobody}]
BY DEF QueueTypeOK, SetTimer

\* Moving one chain on keeps the types.
LEMMA ChainTypes ==
  ASSUME QueueTypeOK, NEW m \in Mains, NEW k \in Chains,
         NEW s \in {"off", "timer", "jobs", "crashing"}, chain' = [chain EXCEPT ![m][k] = s]
  PROVE  chain' \in [Mains -> [Chains -> {"off", "timer", "jobs", "crashing"}]]
BY DEF QueueTypeOK

\* So does replacing what one pass has found,
LEMMA FoundTypes ==
  ASSUME QueueTypeOK, NEW m \in Mains, NEW k \in Chains,
         NEW ids \in SUBSET Executions, found' = [found EXCEPT ![m][k] = ids]
  PROVE  found' \in [Mains -> [Chains -> SUBSET Executions]]
BY DEF QueueTypeOK

\* and counting an upset.
LEMMA UpsetTypes == QueueTypeOK /\ Upset => upsets' \in 0..MaxUpsets
BY DEF QueueTypeOK, Upset

\* Every step keeps the types.
LEMMA QueueTypeNext == QueueTypeOK /\ [QueueNext]_queueVars => QueueTypeOK'
<1> USE DEF QueueTypeOK, Statuses, InProgress, CallStages, JobStates, WorkStages, Handling
<1> SUFFICES ASSUME QueueTypeOK, [QueueNext]_queueVars PROVE QueueTypeOK'
  OBVIOUS
<1> USE DEF callVars, stopVars, workVars, recoveryVars
<1>1. CASE UNCHANGED queueVars
  BY <1>1 DEF queueVars
<1>2. ASSUME NEW e \in Executions, Create(e) PROVE QueueTypeOK'
  BY <1>2 DEF Create, Advance, Write
<1>3. ASSUME NEW e \in Executions, CheckFails(e) PROVE QueueTypeOK'
  BY <1>3 DEF CheckFails, Advance, Write
<1>4. ASSUME NEW e \in Executions, AddJob(e) PROVE QueueTypeOK'
  BY <1>4 DEF AddJob, Advance, Turn
<1>5. ASSUME NEW e \in Executions, EnqueueFails(e) PROVE QueueTypeOK'
  <2>1. upsets' \in 0..MaxUpsets
    BY <1>5, UpsetTypes DEF EnqueueFails
  <2>2. Advance(e, "created", "abandoning") \/ Advance(e, "enqueued", "abandoning")
    BY <1>5 DEF EnqueueFails
  <2>3. call' = [call EXCEPT ![e] = "abandoning"]
    BY <2>2 DEF Advance
  <2>4. call' \in [Executions -> CallStages]
    BY <2>3
  <2> QED
    BY <1>5, <2>1, <2>4 DEF EnqueueFails
<1>6. ASSUME NEW e \in Executions, Watch(e) PROVE QueueTypeOK'
  BY <1>6 DEF Watch, Advance
<1>7. ASSUME NEW e \in Executions, HearEnd(e) PROVE QueueTypeOK'
  BY <1>7 DEF HearEnd, Advance
<1>8. ASSUME NEW e \in Executions, ProcessError(e) PROVE QueueTypeOK'
  BY <1>8 DEF ProcessError, Advance
<1>9. ASSUME NEW e \in Executions, Bury(e) PROVE QueueTypeOK'
  BY <1>9 DEF Bury, Advance, Write
<1>10. ASSUME NEW e \in Executions, Finalize(e) PROVE QueueTypeOK'
  BY <1>10 DEF Finalize, Advance
<1>11. ASSUME NEW e \in Executions, Stall(e) PROVE QueueTypeOK'
  BY <1>11 DEF Stall, Turn
<1>12. ASSUME NEW e \in Executions, LoseLock(e) PROVE QueueTypeOK'
  BY <1>12 DEF LoseLock, Upset, Turn
<1>13. ASSUME NEW e \in Executions, AskToStop(e) PROVE QueueTypeOK'
  BY <1>13 DEF AskToStop, Upset
<1>14. ASSUME NEW e \in Executions, StopAtHome(e) PROVE QueueTypeOK'
  BY <1>14 DEF StopAtHome
<1>15. ASSUME NEW e \in Executions, StopElsewhere(e) PROVE QueueTypeOK'
  BY <1>15 DEF StopElsewhere
<1>16. ASSUME NEW e \in Executions, StoreStopped(e) PROVE QueueTypeOK'
  BY <1>16 DEF StoreStopped, Write
<1>17. ASSUME NEW e \in Executions, CheckActive(e) PROVE QueueTypeOK'
  BY <1>17 DEF CheckActive, MoveCancel
<1>18. ASSUME NEW e \in Executions, MoveToFailed(e) PROVE QueueTypeOK'
  BY <1>18 DEF MoveToFailed, MoveCancel
<1>19. ASSUME NEW e \in Executions, RemoveJob(e) PROVE QueueTypeOK'
  BY <1>19 DEF RemoveJob, MoveCancel
<1>20. ASSUME NEW e \in Executions, HearAbort(e) PROVE QueueTypeOK'
  BY <1>20 DEF HearAbort, Registered
<1>21. ASSUME NEW w \in Workers, NEW e \in Executions, PickUp(w, e) PROVE QueueTypeOK'
  BY <1>21 DEF PickUp, Turn
<1>22. ASSUME NEW w \in Workers, NEW e \in Executions, Load(w, e) PROVE QueueTypeOK'
  BY <1>22 DEF Load, Progress
<1>23. ASSUME NEW w \in Workers, NEW e \in Executions, MarkRunning(w, e) PROVE QueueTypeOK'
  BY <1>23 DEF MarkRunning, Progress, Write
<1>24. ASSUME NEW w \in Workers, NEW e \in Executions, HasIssues(w, e) PROVE QueueTypeOK'
  BY <1>24 DEF HasIssues, Progress, Write
<1>25. ASSUME NEW w \in Workers, NEW e \in Executions, StartRun(w, e) PROVE QueueTypeOK'
  BY <1>25 DEF StartRun, Progress
<1>26. ASSUME NEW w \in Workers, NEW e \in Executions, EndRun(w, e) PROVE QueueTypeOK'
  BY <1>26 DEF EndRun, Progress
<1>27. ASSUME NEW w \in Workers, NEW e \in Executions, SaveOutcome(w, e) PROVE QueueTypeOK'
  BY <1>27 DEF SaveOutcome, Progress, Write
<1>28. ASSUME NEW w \in Workers, NEW e \in Executions, NoticeAbort(w, e) PROVE QueueTypeOK'
  BY <1>28 DEF NoticeAbort, Progress
<1>29. ASSUME NEW w \in Workers, NEW e \in Executions, SaveCanceled(w, e) PROVE QueueTypeOK'
  BY <1>29 DEF SaveCanceled, Write
<1>30. ASSUME NEW w \in Workers, NEW e \in Executions, CompleteJob(w, e) PROVE QueueTypeOK'
  BY <1>30 DEF CompleteJob, Progress
<1>31. ASSUME NEW w \in Workers, NEW e \in Executions, FailJob(w, e) PROVE QueueTypeOK'
  BY <1>31 DEF FailJob, Upset, Progress
<1>32. ASSUME NEW w \in Workers, CrashWorker(w) PROVE QueueTypeOK'
  BY <1>32 DEF CrashWorker, Upset
<1>33. ASSUME NEW m \in Mains, TakeOver(m) PROVE QueueTypeOK'
  <2>1. CASE boot[m] # "deaf"
    BY <1>33, <2>1, FreshChain, TimerTypes DEF TakeOver
  <2>2. CASE boot[m] = "deaf"
    BY <1>33, <2>2 DEF TakeOver
  <2> QED
    BY <2>1, <2>2
<1>34. ASSUME NEW m \in Mains, StepDown(m) PROVE QueueTypeOK'
  <2>1. upsets' \in 0..MaxUpsets
    BY <1>34, UpsetTypes DEF StepDown
  <2>2. /\ leaked' \subseteq Mains
        /\ \/ chain' = chain
           \/ latest[m] \in Chains /\ chain' = [chain EXCEPT ![m][latest[m]] = "off"]
    BY <1>34 DEF StepDown
  <2>3. chain' \in [Mains -> [Chains -> {"off", "timer", "jobs", "crashing"}]]
    BY <2>2, ChainTypes
  <2> QED
    BY <1>34, <2>1, <2>2, <2>3 DEF StepDown
<1>35. ASSUME NEW m \in Mains, RegisterHandlers(m) PROVE QueueTypeOK'
  BY <1>35 DEF RegisterHandlers
<1>36. ASSUME NEW m \in Mains, SetupQueue(m) PROVE QueueTypeOK'
  <2>1. boot' \in [Mains -> {"deaf", "hearing", "up"}] /\ leaked' \subseteq Mains
    BY <1>36 DEF SetupQueue
  <2>2. CASE leader = m
    BY <1>36, <2>1, <2>2, FreshChain, TimerTypes DEF SetupQueue
  <2>3. CASE leader # m
    BY <1>36, <2>1, <2>3 DEF SetupQueue
  <2> QED
    BY <2>2, <2>3
<1>37. ASSUME NEW m \in Mains, CrashMain(m) PROVE QueueTypeOK'
  BY <1>37 DEF CrashMain, Upset
<1>38. ASSUME NEW m \in Mains, NEW k \in Chains, ReadIds(m, k) PROVE QueueTypeOK'
  <2>1. PICK ids \in Batches({x \in Executions : row[x] \in InProgress}) :
        \/ found' = found /\ SetTimer(m, k)
        \/ /\ found' = [found EXCEPT ![m][k] = ids]
           /\ chain' = [chain EXCEPT ![m][k] = "jobs"]
           /\ latest' = latest
    BY <1>38 DEF ReadIds
  <2>2. ids \in SUBSET Executions
    BY DEF Batches
  <2>3. found' \in [Mains -> [Chains -> SUBSET Executions]]
    BY <2>1, <2>2, FoundTypes
  <2>4. /\ chain' \in [Mains -> [Chains -> {"off", "timer", "jobs", "crashing"}]]
        /\ latest' \in [Mains -> Chains \cup {Nobody}]
    BY <2>1, TimerTypes, ChainTypes
  <2>5. UNCHANGED <<row, call, record, job, work, saving, aborts, stop, cancel, leader, boot,
                    leaked, upsets>>
    BY <1>38 DEF ReadIds
  <2> QED
    BY <2>3, <2>4, <2>5
<1>39. ASSUME NEW m \in Mains, NEW k \in Chains, ReadJobs(m, k) PROVE QueueTypeOK'
  <2> DEFINE dangling == {x \in found[m][k] : job[x] \notin {"active", "waiting"}}
  <2>1. /\ found' = [found EXCEPT ![m][k] = dangling]
        /\ \/ SetTimer(m, k)
           \/ chain' = [chain EXCEPT ![m][k] = "crashing"] /\ latest' = latest
    BY <1>39 DEF ReadJobs
  <2>2. dangling \in SUBSET Executions
    OBVIOUS
  <2> HIDE DEF dangling
  <2>3. found' \in [Mains -> [Chains -> SUBSET Executions]]
    BY <2>1, <2>2, FoundTypes
  <2>4. /\ chain' \in [Mains -> [Chains -> {"off", "timer", "jobs", "crashing"}]]
        /\ latest' \in [Mains -> Chains \cup {Nobody}]
    BY <2>1, TimerTypes, ChainTypes
  <2>5. UNCHANGED <<row, call, record, job, work, saving, aborts, stop, cancel, leader, boot,
                    leaked, upsets>>
    BY <1>39 DEF ReadJobs
  <2> QED
    BY <2>3, <2>4, <2>5
<1>40. ASSUME NEW m \in Mains, NEW k \in Chains, MarkAsCrashed(m, k) PROVE QueueTypeOK'
  BY <1>40 DEF MarkAsCrashed, SetTimer
<1>41. ASSUME NEW w \in Workers, NEW e \in Executions, Deregister(w, e) PROVE QueueTypeOK'
  BY <1>41 DEF Deregister, Progress
<1> QED
  BY <1>1, <1>2, <1>3, <1>4, <1>5, <1>6, <1>7, <1>8, <1>9, <1>10, <1>11, <1>12, <1>13, <1>14, <1>15, <1>16, <1>17, <1>18, <1>19, <1>20, <1>21, <1>22, <1>23, <1>24, <1>25, <1>26, <1>27, <1>28, <1>29, <1>30, <1>31, <1>32, <1>33, <1>34, <1>35, <1>36, <1>37, <1>38, <1>39, <1>40, <1>41
  DEF QueueNext, Enqueue, Stop, Cancel, Work, Lead, Boot, Recover

\* Every reachable state has the right types.
THEOREM QueueTypesHold == QueueSpec => []QueueTypeOK
<1>1. QueueInit => QueueTypeOK
  BY DEF QueueInit, QueueTypeOK, Statuses, InProgress, CallStages, JobStates, WorkStages, Handling
<1> QED
  BY <1>1, QueueTypeNext, PTL DEF QueueSpec

-----------------------------------------------------------------------------

\* An execution that has not been enqueued has no job.
NoJobYet == \A e \in Executions : call[e] \in {"idle", "created"} => job[e] = "none"

\* A worker has only what it was given: a job that has been taken.
WorkIsTaken ==
  \A e \in Executions, w \in Workers :
    work[w][e] # "none" => job[e] \notin {"none", "waiting", "removed"}

OneTaker ==
  \A e \in Executions, v \in Workers, w \in Workers :
    work[v][e] # "none" /\ work[w][e] # "none" => v = w

\* Only the worker that ran an execution has called it a success.
SuccessIsOver ==
  \A e \in Executions :
    row[e] = "success" => \E w \in Workers : work[w][e] \in {"stored", "leaving", "done", "dead"}

HandlingOK == NoJobYet /\ WorkIsTaken /\ OneTaker /\ SuccessIsOver

OnceInv == QueueTypeOK /\ HandlingOK

Over == {"stored", "leaving", "done", "dead"}

\* What a step of processJob changes.
LEMMA MoveFacts ==
  ASSUME QueueTypeOK, NEW w \in Workers, NEW e \in Executions, NEW from, NEW to,
         Progress(w, e, from, to)
  PROVE  /\ work[w][e] = from
         /\ work'[w][e] = to
         /\ \A v \in Workers, d \in Executions :
              v # w \/ d # e => work'[v][d] = work[v][d]
BY DEF QueueTypeOK, Progress

\* Steps of processJob, once the job was picked up, keep HandlingOK, if only a
\* step that ends the handling turns a row into a success.
LEMMA Progressed ==
  ASSUME OnceInv, NEW w \in Workers, NEW e \in Executions, NEW from, NEW to,
         from # "none", to # "none", from \in Over => to \in Over,
         Progress(w, e, from, to), call' = call,
         \A d \in Executions :
           job'[d] = job[d] \/ (job[d] = "active" /\ job'[d] \in {"completed", "errored"}),
         \A d \in Executions :
           row'[d] = "success" => row[d] = "success" \/ (d = e /\ to \in Over)
  PROVE  HandlingOK'
<1>1. /\ QueueTypeOK
      /\ NoJobYet /\ WorkIsTaken /\ OneTaker /\ SuccessIsOver
  BY DEF OnceInv, HandlingOK
<1>2. /\ work[w][e] = from
      /\ work'[w][e] = to
      /\ \A v \in Workers, d \in Executions : v # w \/ d # e => work'[v][d] = work[v][d]
  BY <1>1, MoveFacts
<1>3. NoJobYet'
  BY <1>1 DEF NoJobYet
<1>4. WorkIsTaken'
  BY <1>1, <1>2 DEF WorkIsTaken
<1>5. OneTaker'
  BY <1>1, <1>2 DEF OneTaker
<1>6. SuccessIsOver'
  BY <1>1, <1>2 DEF SuccessIsOver, Over
<1> QED
  BY <1>3, <1>4, <1>5, <1>6 DEF HandlingOK

\* OnceInv is kept by every step.
LEMMA OnceInvNext == OnceInv /\ [QueueNext]_queueVars => OnceInv'
<1> USE DEF callVars, stopVars, workVars, recoveryVars
<1> SUFFICES ASSUME OnceInv, [QueueNext]_queueVars
             PROVE  HandlingOK'
  BY QueueTypeNext DEF OnceInv
<1>a. /\ row \in [Executions -> Statuses]
      /\ call \in [Executions -> CallStages]
      /\ job \in [Executions -> JobStates]
      /\ work \in [Workers -> [Executions -> WorkStages]]
      /\ HandlingOK
  BY DEF OnceInv, QueueTypeOK
<1>1. CASE UNCHANGED queueVars
  BY <1>a, <1>1 DEF queueVars, HandlingOK, NoJobYet, WorkIsTaken, OneTaker, SuccessIsOver
<1>2. ASSUME NEW e \in Executions, Create(e) PROVE HandlingOK'
  BY <1>a, <1>2 DEF Create, Advance, Write, HandlingOK, NoJobYet, WorkIsTaken, OneTaker, SuccessIsOver
<1>3. ASSUME NEW e \in Executions, CheckFails(e) PROVE HandlingOK'
  BY <1>a, <1>3 DEF CheckFails, Advance, Write, HandlingOK, NoJobYet, WorkIsTaken, OneTaker, SuccessIsOver
<1>4. ASSUME NEW e \in Executions, AddJob(e) PROVE HandlingOK'
  BY <1>a, <1>4 DEF AddJob, Advance, Turn, HandlingOK, NoJobYet, WorkIsTaken, OneTaker, SuccessIsOver
<1>5. ASSUME NEW e \in Executions, EnqueueFails(e) PROVE HandlingOK'
  BY <1>a, <1>5 DEF EnqueueFails, Upset, Advance, HandlingOK, NoJobYet, WorkIsTaken, OneTaker, SuccessIsOver
<1>6. ASSUME NEW e \in Executions, Watch(e) PROVE HandlingOK'
  BY <1>a, <1>6 DEF Watch, Advance, HandlingOK, NoJobYet, WorkIsTaken, OneTaker, SuccessIsOver
<1>7. ASSUME NEW e \in Executions, HearEnd(e) PROVE HandlingOK'
  BY <1>a, <1>7 DEF HearEnd, Advance, HandlingOK, NoJobYet, WorkIsTaken, OneTaker, SuccessIsOver
<1>8. ASSUME NEW e \in Executions, ProcessError(e) PROVE HandlingOK'
  BY <1>a, <1>8 DEF ProcessError, Advance, HandlingOK, NoJobYet, WorkIsTaken, OneTaker, SuccessIsOver
<1>9. ASSUME NEW e \in Executions, Bury(e) PROVE HandlingOK'
  BY <1>a, <1>9 DEF Bury, Advance, Write, HandlingOK, NoJobYet, WorkIsTaken, OneTaker, SuccessIsOver
<1>10. ASSUME NEW e \in Executions, Finalize(e) PROVE HandlingOK'
  BY <1>a, <1>10 DEF Finalize, Advance, HandlingOK, NoJobYet, WorkIsTaken, OneTaker, SuccessIsOver
<1>11. ASSUME NEW e \in Executions, Stall(e) PROVE HandlingOK'
  BY <1>a, <1>11 DEF Stall, Turn, HandlingOK, NoJobYet, WorkIsTaken, OneTaker, SuccessIsOver
<1>12. ASSUME NEW e \in Executions, LoseLock(e) PROVE HandlingOK'
  BY <1>a, <1>12 DEF LoseLock, Upset, Turn, HandlingOK, NoJobYet, WorkIsTaken, OneTaker, SuccessIsOver
<1>13. ASSUME NEW e \in Executions, AskToStop(e) PROVE HandlingOK'
  BY <1>a, <1>13 DEF AskToStop, Upset, HandlingOK, NoJobYet, WorkIsTaken, OneTaker, SuccessIsOver
<1>14. ASSUME NEW e \in Executions, StopAtHome(e) PROVE HandlingOK'
  BY <1>a, <1>14 DEF StopAtHome, HandlingOK, NoJobYet, WorkIsTaken, OneTaker, SuccessIsOver
<1>15. ASSUME NEW e \in Executions, StopElsewhere(e) PROVE HandlingOK'
  BY <1>a, <1>15 DEF StopElsewhere, HandlingOK, NoJobYet, WorkIsTaken, OneTaker, SuccessIsOver
<1>16. ASSUME NEW e \in Executions, StoreStopped(e) PROVE HandlingOK'
  BY <1>a, <1>16 DEF StoreStopped, Write, HandlingOK, NoJobYet, WorkIsTaken, OneTaker, SuccessIsOver
<1>17. ASSUME NEW e \in Executions, CheckActive(e) PROVE HandlingOK'
  BY <1>a, <1>17 DEF CheckActive, MoveCancel, HandlingOK, NoJobYet, WorkIsTaken, OneTaker, SuccessIsOver
<1>18. ASSUME NEW e \in Executions, MoveToFailed(e) PROVE HandlingOK'
  BY <1>a, <1>18 DEF MoveToFailed, MoveCancel, HandlingOK, NoJobYet, WorkIsTaken, OneTaker, SuccessIsOver
<1>19. ASSUME NEW e \in Executions, RemoveJob(e) PROVE HandlingOK'
  BY <1>a, <1>19 DEF RemoveJob, MoveCancel, HandlingOK, NoJobYet, WorkIsTaken, OneTaker, SuccessIsOver
<1>20. ASSUME NEW e \in Executions, HearAbort(e) PROVE HandlingOK'
  BY <1>a, <1>20 DEF HearAbort, HandlingOK, NoJobYet, WorkIsTaken, OneTaker, SuccessIsOver
<1>21. ASSUME NEW w \in Workers, NEW e \in Executions, PickUp(w, e) PROVE HandlingOK'
  BY <1>a, <1>21 DEF PickUp, Turn, HandlingOK, NoJobYet, WorkIsTaken, OneTaker, SuccessIsOver
<1>22. ASSUME NEW w \in Workers, NEW e \in Executions, Load(w, e) PROVE HandlingOK'
  <2>1. Progress(w, e, "loading", "leaving") \/ Progress(w, e, "loading", "marking")
    BY <1>22 DEF Load
  <2> QED
    BY <1>22, <2>1, Progressed DEF Load, Over
<1>23. ASSUME NEW w \in Workers, NEW e \in Executions, MarkRunning(w, e) PROVE HandlingOK'
  BY <1>a, <1>23, Progressed DEF MarkRunning, Write, Over
<1>24. ASSUME NEW w \in Workers, NEW e \in Executions, HasIssues(w, e) PROVE HandlingOK'
  BY <1>a, <1>24, Progressed DEF HasIssues, Write, Over
<1>25. ASSUME NEW w \in Workers, NEW e \in Executions, StartRun(w, e) PROVE HandlingOK'
  BY <1>a, <1>25, Progressed DEF StartRun, Over
<1>26. ASSUME NEW w \in Workers, NEW e \in Executions, EndRun(w, e) PROVE HandlingOK'
  BY <1>a, <1>26, Progressed DEF EndRun, Over
<1>27. ASSUME NEW w \in Workers, NEW e \in Executions, SaveOutcome(w, e) PROVE HandlingOK'
  <2>1. \A d \in Executions : d # e => row'[d] = row[d]
    BY <1>a, <1>27 DEF SaveOutcome, Write
  <2> QED
    BY <1>27, <2>1, Progressed DEF SaveOutcome, Over
<1>28. ASSUME NEW w \in Workers, NEW e \in Executions, NoticeAbort(w, e) PROVE HandlingOK'
  BY <1>a, <1>28, Progressed DEF NoticeAbort, Over
<1>29. ASSUME NEW w \in Workers, NEW e \in Executions, SaveCanceled(w, e) PROVE HandlingOK'
  BY <1>a, <1>29 DEF SaveCanceled, Write, HandlingOK, NoJobYet, WorkIsTaken, OneTaker, SuccessIsOver
<1>30. ASSUME NEW w \in Workers, NEW e \in Executions, CompleteJob(w, e) PROVE HandlingOK'
  <2>1. \A d \in Executions :
          job'[d] = job[d] \/ (job[d] = "active" /\ job'[d] \in {"completed", "errored"})
    BY <1>a, <1>30 DEF CompleteJob
  <2> QED
    BY <1>30, <2>1, Progressed DEF CompleteJob, Over
<1>31. ASSUME NEW w \in Workers, NEW e \in Executions, FailJob(w, e) PROVE HandlingOK'
  <2>1. \A d \in Executions :
          job'[d] = job[d] \/ (job[d] = "active" /\ job'[d] \in {"completed", "errored"})
    BY <1>a, <1>31 DEF FailJob
  <2>2. PICK stage \in {"loading", "marking", "preparing"} : Progress(w, e, stage, "done")
    BY <1>31 DEF FailJob
  <2> QED
    BY <1>31, <2>1, <2>2, Progressed DEF FailJob, Over
<1>32. ASSUME NEW w \in Workers, CrashWorker(w) PROVE HandlingOK'
  <2>1. \A v \in Workers, d \in Executions :
          /\ (work'[v][d] = "none") = (work[v][d] = "none")
          /\ work[v][d] \in Over => work'[v][d] \in Over
    BY <1>a, <1>32 DEF CrashWorker, Handling, Over
  <2>2. UNCHANGED <<row, call, job>>
    BY <1>32 DEF CrashWorker
  <2> QED
    BY <1>a, <2>1, <2>2 DEF HandlingOK, NoJobYet, WorkIsTaken, OneTaker, SuccessIsOver, Over
<1>33. ASSUME NEW m \in Mains, TakeOver(m) PROVE HandlingOK'
  BY <1>a, <1>33 DEF TakeOver, SetTimer, HandlingOK, NoJobYet, WorkIsTaken, OneTaker, SuccessIsOver
<1>34. ASSUME NEW m \in Mains, StepDown(m) PROVE HandlingOK'
  BY <1>a, <1>34 DEF StepDown, Upset, HandlingOK, NoJobYet, WorkIsTaken, OneTaker, SuccessIsOver
<1>35. ASSUME NEW m \in Mains, RegisterHandlers(m) PROVE HandlingOK'
  BY <1>a, <1>35 DEF RegisterHandlers, HandlingOK, NoJobYet, WorkIsTaken, OneTaker, SuccessIsOver
<1>36. ASSUME NEW m \in Mains, SetupQueue(m) PROVE HandlingOK'
  BY <1>a, <1>36 DEF SetupQueue, SetTimer, HandlingOK, NoJobYet, WorkIsTaken, OneTaker, SuccessIsOver
<1>37. ASSUME NEW m \in Mains, CrashMain(m) PROVE HandlingOK'
  BY <1>a, <1>37 DEF CrashMain, Upset, HandlingOK, NoJobYet, WorkIsTaken, OneTaker, SuccessIsOver
<1>38. ASSUME NEW m \in Mains, NEW k \in Chains, ReadIds(m, k) PROVE HandlingOK'
  BY <1>a, <1>38 DEF ReadIds, SetTimer, HandlingOK, NoJobYet, WorkIsTaken, OneTaker, SuccessIsOver
<1>39. ASSUME NEW m \in Mains, NEW k \in Chains, ReadJobs(m, k) PROVE HandlingOK'
  BY <1>a, <1>39 DEF ReadJobs, SetTimer, HandlingOK, NoJobYet, WorkIsTaken, OneTaker, SuccessIsOver
<1>40. ASSUME NEW m \in Mains, NEW k \in Chains, MarkAsCrashed(m, k) PROVE HandlingOK'
  BY <1>a, <1>40 DEF MarkAsCrashed, SetTimer, HandlingOK, NoJobYet, WorkIsTaken, OneTaker, SuccessIsOver
<1>41. ASSUME NEW w \in Workers, NEW e \in Executions, Deregister(w, e) PROVE HandlingOK'
  BY <1>a, <1>41, Progressed DEF Deregister, Over
<1> QED
  BY <1>1, <1>2, <1>3, <1>4, <1>5, <1>6, <1>7, <1>8, <1>9, <1>10, <1>11, <1>12, <1>13, <1>14, <1>15, <1>16, <1>17, <1>18, <1>19, <1>20, <1>21, <1>22, <1>23, <1>24, <1>25, <1>26, <1>27, <1>28, <1>29, <1>30, <1>31, <1>32, <1>33, <1>34, <1>35, <1>36, <1>37, <1>38, <1>39, <1>40, <1>41
  DEF QueueNext, Enqueue, Stop, Cancel, Work, Lead, Boot, Recover

\* OnceInv holds in every reachable state.
LEMMA OnceInvHolds == QueueSpec => []OnceInv
<1>1. QueueInit => OnceInv
  <2> SUFFICES ASSUME QueueInit PROVE OnceInv
    OBVIOUS
  <2>1. QueueTypeOK
    BY DEF QueueInit, QueueTypeOK, Statuses, InProgress, CallStages, JobStates, WorkStages, Handling
  <2>2. HandlingOK
    BY DEF QueueInit, HandlingOK, NoJobYet, WorkIsTaken, OneTaker, SuccessIsOver
  <2> QED
    BY <2>1, <2>2 DEF OnceInv
<1> QED
  BY <1>1, OnceInvNext, PTL DEF QueueSpec

-----------------------------------------------------------------------------

\* Of an execution that succeeded, nothing is left to be done by a worker, and
\* it was enqueued.
LEMMA SuccessFacts ==
  ASSUME OnceInv, NEW x \in Executions, row[x] = "success"
  PROVE  /\ \A w \in Workers : work[w][x] \in Over \cup {"none"}
         /\ job[x] \notin {"none", "waiting", "removed"}
         /\ call[x] \notin {"idle", "created"}
BY DEF OnceInv, HandlingOK, NoJobYet, WorkIsTaken, OneTaker, SuccessIsOver, Over

\* What each step does to an execution that succeeded, undisputed.
LEMMA SuccessStandsNext ==
  ASSUME OnceInv, [QueueNext]_queueVars,
         NEW x \in Executions, row[x] = "success", Undisputed(x)
  PROVE  row'[x] = "success" /\ Undisputed(x)'
<1> USE DEF callVars, stopVars, workVars, recoveryVars
<1> DEFINE Stands == row'[x] = "success" /\ Undisputed(x)'
<1>a. /\ row \in [Executions -> Statuses]
      /\ call \in [Executions -> CallStages]
      /\ stop \in [Executions -> {"no", "asked", "storing", "stored"}]
      /\ cancel \in [Executions -> {"no", "checking", "removing", "failing", "done"}]
      /\ work \in [Workers -> [Executions -> WorkStages]]
      /\ found \in [Mains -> [Chains -> SUBSET Executions]]
      /\ row[x] = "success" /\ Undisputed(x)
  BY DEF OnceInv, QueueTypeOK
<1>b. /\ \A w \in Workers : work[w][x] \in Over \cup {"none"}
      /\ call[x] \notin {"idle", "created"}
  BY SuccessFacts
<1>1. CASE UNCHANGED queueVars
  BY <1>a, <1>1 DEF queueVars, Undisputed, Registered
<1>2. ASSUME NEW e \in Executions, Create(e) PROVE Stands
  BY <1>a, <1>b, <1>2 DEF Create, Advance, Write, Undisputed, Registered, Over, InProgress
<1>3. ASSUME NEW e \in Executions, CheckFails(e) PROVE Stands
  BY <1>a, <1>b, <1>3 DEF CheckFails, Advance, Write, Undisputed, Registered, Over, InProgress
<1>4. ASSUME NEW e \in Executions, AddJob(e) PROVE Stands
  BY <1>a, <1>b, <1>4 DEF AddJob, Advance, Turn, Undisputed, Registered, Over, InProgress
<1>5. ASSUME NEW e \in Executions, EnqueueFails(e) PROVE Stands
  BY <1>a, <1>b, <1>5 DEF EnqueueFails, Upset, Advance, Undisputed, Registered, Over, InProgress
<1>6. ASSUME NEW e \in Executions, Watch(e) PROVE Stands
  BY <1>a, <1>b, <1>6 DEF Watch, Advance, Undisputed, Registered, Over, InProgress
<1>7. ASSUME NEW e \in Executions, HearEnd(e) PROVE Stands
  BY <1>a, <1>b, <1>7 DEF HearEnd, Advance, Undisputed, Registered, Over, InProgress
<1>8. ASSUME NEW e \in Executions, ProcessError(e) PROVE Stands
  BY <1>a, <1>b, <1>8 DEF ProcessError, Advance, Undisputed, Registered, Over, InProgress
<1>9. ASSUME NEW e \in Executions, Bury(e) PROVE Stands
  BY <1>a, <1>b, <1>9 DEF Bury, Advance, Write, Undisputed, Registered, Over, InProgress
<1>10. ASSUME NEW e \in Executions, Finalize(e) PROVE Stands
  BY <1>a, <1>b, <1>10 DEF Finalize, Advance, Undisputed, Registered, Over, InProgress
<1>11. ASSUME NEW e \in Executions, Stall(e) PROVE Stands
  BY <1>a, <1>b, <1>11 DEF Stall, Turn, Undisputed, Registered, Over, InProgress
<1>12. ASSUME NEW e \in Executions, LoseLock(e) PROVE Stands
  BY <1>a, <1>b, <1>12 DEF LoseLock, Upset, Turn, Undisputed, Registered, Over, InProgress
<1>13. ASSUME NEW e \in Executions, AskToStop(e) PROVE Stands
  BY <1>a, <1>b, <1>13 DEF AskToStop, Upset, Undisputed, Registered, Over, InProgress
<1>14. ASSUME NEW e \in Executions, StopAtHome(e) PROVE Stands
  BY <1>a, <1>b, <1>14 DEF StopAtHome, Undisputed, Registered, Over, InProgress
<1>15. ASSUME NEW e \in Executions, StopElsewhere(e) PROVE Stands
  BY <1>a, <1>b, <1>15 DEF StopElsewhere, Undisputed, Registered, Over, InProgress
<1>16. ASSUME NEW e \in Executions, StoreStopped(e) PROVE Stands
  BY <1>a, <1>b, <1>16 DEF StoreStopped, Write, Undisputed, Registered, Over, InProgress
<1>17. ASSUME NEW e \in Executions, CheckActive(e) PROVE Stands
  BY <1>a, <1>b, <1>17 DEF CheckActive, MoveCancel, Undisputed, Registered, Over, InProgress
<1>18. ASSUME NEW e \in Executions, MoveToFailed(e) PROVE Stands
  BY <1>a, <1>b, <1>18 DEF MoveToFailed, MoveCancel, Undisputed, Registered, Over, InProgress
<1>19. ASSUME NEW e \in Executions, RemoveJob(e) PROVE Stands
  BY <1>a, <1>b, <1>19 DEF RemoveJob, MoveCancel, Undisputed, Registered, Over, InProgress
<1>20. ASSUME NEW e \in Executions, HearAbort(e) PROVE Stands
  BY <1>a, <1>b, <1>20 DEF HearAbort, Undisputed, Registered, Over, InProgress
<1>21. ASSUME NEW w \in Workers, NEW e \in Executions, PickUp(w, e) PROVE Stands
  BY <1>a, <1>b, <1>21 DEF PickUp, Turn, Undisputed, Registered, Over, InProgress
<1>22. ASSUME NEW w \in Workers, NEW e \in Executions, Load(w, e) PROVE Stands
  BY <1>a, <1>b, <1>22 DEF Load, Progress, Undisputed, Registered, Over, InProgress
<1>23. ASSUME NEW w \in Workers, NEW e \in Executions, MarkRunning(w, e) PROVE Stands
  BY <1>a, <1>b, <1>23 DEF MarkRunning, Progress, Write, Undisputed, Registered, Over, InProgress
<1>24. ASSUME NEW w \in Workers, NEW e \in Executions, HasIssues(w, e) PROVE Stands
  BY <1>a, <1>b, <1>24 DEF HasIssues, Progress, Write, Undisputed, Registered, Over, InProgress
<1>25. ASSUME NEW w \in Workers, NEW e \in Executions, StartRun(w, e) PROVE Stands
  BY <1>a, <1>b, <1>25 DEF StartRun, Progress, Undisputed, Registered, Over, InProgress
<1>26. ASSUME NEW w \in Workers, NEW e \in Executions, EndRun(w, e) PROVE Stands
  BY <1>a, <1>b, <1>26 DEF EndRun, Progress, Undisputed, Registered, Over, InProgress
<1>27. ASSUME NEW w \in Workers, NEW e \in Executions, SaveOutcome(w, e) PROVE Stands
  BY <1>a, <1>b, <1>27 DEF SaveOutcome, Progress, Write, Undisputed, Registered, Over, InProgress
<1>28. ASSUME NEW w \in Workers, NEW e \in Executions, NoticeAbort(w, e) PROVE Stands
  BY <1>a, <1>b, <1>28 DEF NoticeAbort, Progress, Undisputed, Registered, Over, InProgress
<1>29. ASSUME NEW w \in Workers, NEW e \in Executions, SaveCanceled(w, e) PROVE Stands
  BY <1>a, <1>b, <1>29 DEF SaveCanceled, Write, Undisputed, Registered, Over, InProgress
<1>30. ASSUME NEW w \in Workers, NEW e \in Executions, CompleteJob(w, e) PROVE Stands
  BY <1>a, <1>b, <1>30 DEF CompleteJob, Progress, Undisputed, Registered, Over, InProgress
<1>31. ASSUME NEW w \in Workers, NEW e \in Executions, FailJob(w, e) PROVE Stands
  BY <1>a, <1>b, <1>31 DEF FailJob, Upset, Progress, Undisputed, Registered, Over, InProgress
<1>32. ASSUME NEW w \in Workers, CrashWorker(w) PROVE Stands
  BY <1>a, <1>b, <1>32 DEF CrashWorker, Upset, Undisputed, Registered, Over, InProgress
<1>33. ASSUME NEW m \in Mains, TakeOver(m) PROVE Stands
  BY <1>a, <1>b, <1>33 DEF TakeOver, SetTimer, Undisputed, Registered, Over, InProgress
<1>34. ASSUME NEW m \in Mains, StepDown(m) PROVE Stands
  BY <1>a, <1>b, <1>34 DEF StepDown, Upset, Undisputed, Registered, Over, InProgress
<1>35. ASSUME NEW m \in Mains, RegisterHandlers(m) PROVE Stands
  BY <1>a, <1>b, <1>35 DEF RegisterHandlers, Undisputed, Registered, Over, InProgress
<1>36. ASSUME NEW m \in Mains, SetupQueue(m) PROVE Stands
  BY <1>a, <1>b, <1>36 DEF SetupQueue, SetTimer, Undisputed, Registered, Over, InProgress
<1>37. ASSUME NEW m \in Mains, CrashMain(m) PROVE Stands
  BY <1>a, <1>b, <1>37 DEF CrashMain, Upset, Undisputed, Registered, Over, InProgress
<1>38. ASSUME NEW m \in Mains, NEW k \in Chains, ReadIds(m, k) PROVE Stands
  <2>1. PICK ids \in Batches({d \in Executions : row[d] \in InProgress}) :
               found' = found \/ found' = [found EXCEPT ![m][k] = ids]
    BY <1>38 DEF ReadIds
  <2>2. x \notin ids
    BY <1>a DEF InProgress, Batches
  <2>3. \A n \in Mains, c \in Chains : x \notin found'[n][c]
    <3>1. \A n \in Mains, c \in Chains : x \notin found[n][c]
      BY <1>a DEF Undisputed
    <3>2. CASE found' = [found EXCEPT ![m][k] = ids]
      <4>1. found'[m][k] = ids
        BY <1>a, <3>2
      <4>2. \A n \in Mains, c \in Chains : n # m \/ c # k => found'[n][c] = found[n][c]
        BY <1>a, <3>2
      <4> QED
        BY <2>2, <3>1, <4>1, <4>2
    <3> QED
      BY <2>1, <3>1, <3>2
  <2>4. UNCHANGED <<row, call, stop, saving, work, cancel, aborts>>
    BY <1>38 DEF ReadIds
  <2> QED
    BY <1>a, <2>3, <2>4 DEF Undisputed, Registered
<1>39. ASSUME NEW m \in Mains, NEW k \in Chains, ReadJobs(m, k) PROVE Stands
  BY <1>a, <1>b, <1>39 DEF ReadJobs, SetTimer, Undisputed, Registered, Over, InProgress
<1>40. ASSUME NEW m \in Mains, NEW k \in Chains, MarkAsCrashed(m, k) PROVE Stands
  BY <1>a, <1>b, <1>40 DEF MarkAsCrashed, SetTimer, Undisputed, Registered, Over, InProgress
<1>41. ASSUME NEW w \in Workers, NEW e \in Executions, Deregister(w, e) PROVE Stands
  BY <1>a, <1>b, <1>41 DEF Deregister, Progress, Undisputed, Registered, Over, InProgress
<1> QED
  BY <1>1, <1>2, <1>3, <1>4, <1>5, <1>6, <1>7, <1>8, <1>9, <1>10, <1>11, <1>12, <1>13, <1>14, <1>15, <1>16, <1>17, <1>18, <1>19, <1>20, <1>21, <1>22, <1>23, <1>24, <1>25, <1>26, <1>27, <1>28, <1>29, <1>30, <1>31, <1>32, <1>33, <1>34, <1>35, <1>36, <1>37, <1>38, <1>39, <1>40, <1>41
  DEF QueueNext, Enqueue, Stop, Cancel, Work, Lead, Boot, Recover

\* Once an execution is a success and nobody is about to overwrite it, nobody
\* ever will be.
THEOREM SuccessStandsHolds == QueueSpec => SuccessStands
<1>1. ASSUME OnceInv, [QueueNext]_queueVars
      PROVE  [\A e \in Executions :
                row[e] = "success" /\ Undisputed(e)
                  => row'[e] = "success" /\ Undisputed(e)']_queueVars
  BY <1>1, SuccessStandsNext
<1> QED
  BY <1>1, OnceInvHolds, PTL DEF QueueSpec, SuccessStands

-----------------------------------------------------------------------------

\* No chain of recovery is on, or only the one whose timer is referred to.
AllOff(m) == \A k \in Chains : chain[m][k] = "off"
OnlyLatest(m) == latest[m] \in Chains /\ \A k \in Chains : chain[m][k] # "off" <=> k = latest[m]

\* RecoveryFollowsLeadership, with what holds before the queue is set up.
ChainsOK ==
  \A m \in Mains \ leaked :
    /\ boot[m] = "deaf" => AllOff(m) /\ latest[m] = Nobody
    /\ boot[m] # "deaf" /\ leader # m => AllOff(m)
    /\ boot[m] # "deaf" /\ leader = m =>
         OnlyLatest(m) \/ (boot[m] = "hearing" /\ AllOff(m) /\ latest[m] = Nobody)

\* A timer that is set makes its chain the latest one, and on.
LEMMA TimerFacts ==
  ASSUME QueueTypeOK, NEW m \in Mains, NEW k \in Chains, SetTimer(m, k)
  PROVE  /\ latest'[m] = k /\ chain'[m][k] = "timer"
         /\ \A c \in Chains \ {k} : chain'[m][c] = chain[m][c]
         /\ \A n \in Mains \ {m} : latest'[n] = latest[n] /\ chain'[n] = chain[n]
BY DEF QueueTypeOK, SetTimer

\* Moving the latest chain on keeps ChainsOK.
LEMMA ChainMoves ==
  ASSUME QueueTypeOK, ChainsOK, NEW m \in Mains, NEW k \in Chains, chain[m][k] # "off",
         UNCHANGED <<boot, leader, leaked>>,
         \/ SetTimer(m, k)
         \/ /\ latest' = latest
            /\ \E s \in {"jobs", "crashing"} : chain' = [chain EXCEPT ![m][k] = s]
  PROVE  ChainsOK'
<1>1. /\ chain'[m][k] # "off" /\ (latest[m] = k => latest'[m] = k)
      /\ \A c \in Chains \ {k} : chain'[m][c] = chain[m][c]
      /\ \A n \in Mains \ {m} : latest'[n] = latest[n] /\ chain'[n] = chain[n]
  <2>1. CASE SetTimer(m, k)
    BY <2>1, TimerFacts
  <2>2. CASE latest' = latest /\ \E s \in {"jobs", "crashing"} : chain' = [chain EXCEPT ![m][k] = s]
    BY <2>2 DEF QueueTypeOK
  <2> QED
    BY <2>1, <2>2
<1>2. m \notin leaked => OnlyLatest(m) /\ latest[m] = k
  <2> SUFFICES ASSUME m \notin leaked PROVE OnlyLatest(m) /\ latest[m] = k
    OBVIOUS
  <2>1. OnlyLatest(m)
    BY DEF ChainsOK, AllOff
  <2> QED
    BY <2>1 DEF OnlyLatest
<1> QED
  BY <1>1, <1>2 DEF ChainsOK, AllOff, OnlyLatest

\* ChainsOK is kept by every step.
LEMMA ChainsNext == QueueTypeOK /\ ChainsOK /\ [QueueNext]_queueVars => ChainsOK'
<1> SUFFICES ASSUME QueueTypeOK, ChainsOK, [QueueNext]_queueVars PROVE ChainsOK'
  OBVIOUS
<1>1. CASE UNCHANGED recoveryVars
  BY <1>1 DEF recoveryVars, ChainsOK, AllOff, OnlyLatest
<1>2. ASSUME NEW m \in Mains, TakeOver(m) PROVE ChainsOK'
  <2>1. leader = Nobody /\ leader' = m /\ UNCHANGED <<boot, leaked>>
    BY <1>2 DEF TakeOver
  <2>2. CASE boot[m] = "deaf"
    BY <1>2, <2>1, <2>2 DEF TakeOver, ChainsOK, AllOff, OnlyLatest
  <2>3. CASE boot[m] # "deaf"
    <3>1. PICK k \in Chains : SetTimer(m, k)
      BY <1>2, <2>3, FreshChain DEF TakeOver
    <3> QED
      BY <2>1, <2>3, <3>1, TimerFacts DEF ChainsOK, AllOff, OnlyLatest
  <2> QED
    BY <2>2, <2>3
<1>3. ASSUME NEW m \in Mains, StepDown(m) PROVE ChainsOK'
  <2>1. leader = m /\ leader' = Nobody /\ UNCHANGED <<boot, latest>>
    BY <1>3 DEF StepDown
  <2>2. CASE latest[m] = Nobody /\ UNCHANGED <<chain, leaked>>
    <3>1. m \notin leaked => AllOff(m)
      BY <2>2 DEF ChainsOK, OnlyLatest
    <3> QED
      BY <2>1, <2>2, <3>1 DEF ChainsOK, AllOff, OnlyLatest
  <2>5. CASE leaked' = leaked \cup {m} /\ UNCHANGED chain
    BY <2>1, <2>5 DEF ChainsOK, AllOff, OnlyLatest
  <2>3. CASE /\ latest[m] \in Chains /\ leaked' = leaked
             /\ chain' = [chain EXCEPT ![m][latest[m]] = "off"]
    <3>1. /\ chain'[m][latest[m]] = "off"
          /\ \A c \in Chains \ {latest[m]} : chain'[m][c] = chain[m][c]
          /\ \A n \in Mains \ {m} : chain'[n] = chain[n]
      BY <2>3 DEF QueueTypeOK
    <3> QED
      BY <2>1, <2>3, <3>1 DEF ChainsOK, AllOff, OnlyLatest
  <2> QED
    BY <1>3, <2>2, <2>3, <2>5 DEF StepDown, QueueTypeOK
<1>4. ASSUME NEW m \in Mains, RegisterHandlers(m) PROVE ChainsOK'
  BY <1>4 DEF RegisterHandlers, QueueTypeOK, ChainsOK, AllOff, OnlyLatest
<1>5. ASSUME NEW m \in Mains, SetupQueue(m) PROVE ChainsOK'
  <2>1. /\ boot[m] = "hearing" /\ boot' = [boot EXCEPT ![m] = "up"] /\ leader' = leader
        /\ boot \in [Mains -> {"deaf", "hearing", "up"}]
    BY <1>5 DEF SetupQueue, QueueTypeOK
  <2>2. CASE leader # m
    BY <1>5, <2>1, <2>2 DEF SetupQueue, ChainsOK, AllOff, OnlyLatest
  <2>3. CASE leader = m
    <3>1. PICK k \in Chains : SetTimer(m, k)
      BY <1>5, <2>3, FreshChain DEF SetupQueue
    <3>2. leaked \subseteq leaked' /\ (m \notin leaked' => AllOff(m))
      BY <1>5, <2>3 DEF SetupQueue, Idle, AllOff
    <3> QED
      BY <2>1, <2>3, <3>1, <3>2, TimerFacts DEF ChainsOK, AllOff, OnlyLatest
  <2> QED
    BY <2>2, <2>3
<1>6. ASSUME NEW m \in Mains, CrashMain(m) PROVE ChainsOK'
  <2>1. /\ leader' = IF leader = m THEN Nobody ELSE leader
        /\ boot' = [boot EXCEPT ![m] = "deaf"]
        /\ chain' = [chain EXCEPT ![m] = [k \in Chains |-> "off"]]
        /\ latest' = [latest EXCEPT ![m] = Nobody]
        /\ leaked' = leaked \ {m}
    BY <1>6 DEF CrashMain
  <2> QED
    BY <2>1 DEF QueueTypeOK, ChainsOK, AllOff, OnlyLatest
<1>7. ASSUME NEW m \in Mains, NEW k \in Chains, ReadIds(m, k) PROVE ChainsOK'
  BY <1>7, ChainMoves DEF ReadIds
<1>8. ASSUME NEW m \in Mains, NEW k \in Chains, ReadJobs(m, k) PROVE ChainsOK'
  BY <1>8, ChainMoves DEF ReadJobs
<1>9. ASSUME NEW m \in Mains, NEW k \in Chains, MarkAsCrashed(m, k) PROVE ChainsOK'
  BY <1>9, ChainMoves DEF MarkAsCrashed
<1>10. UNCHANGED recoveryVars \/ (\E m \in Mains : Lead(m))
         \/ (\E m \in Mains, k \in Chains : Recover(m, k))
  <2>1. CASE UNCHANGED queueVars
    BY <2>1 DEF queueVars
  <2>2. ASSUME NEW e \in Executions, Enqueue(e) \/ Create(e) \/ EnqueueFails(e) PROVE UNCHANGED recoveryVars
    BY <2>2 DEF Enqueue, Create, EnqueueFails, CheckFails, AddJob, Watch, HearEnd, ProcessError,
                Bury, Finalize
  <2>3. ASSUME NEW e \in Executions,
               Stop(e) \/ Cancel(e) \/ HearAbort(e) \/ Stall(e) \/ LoseLock(e)
        PROVE UNCHANGED recoveryVars
    BY <2>3 DEF Stop, Cancel, HearAbort, Stall, LoseLock, AskToStop, StopAtHome, StopElsewhere,
                StoreStopped, CheckActive, MoveToFailed, RemoveJob
  <2>4. ASSUME NEW w \in Workers, NEW e \in Executions,
               PickUp(w, e) \/ Work(w, e) \/ FailJob(w, e) \/ SaveCanceled(w, e)
        PROVE UNCHANGED recoveryVars
    BY <2>4 DEF PickUp, Work, FailJob, SaveCanceled, Load, MarkRunning, HasIssues, StartRun,
                EndRun, SaveOutcome, Deregister, NoticeAbort, CompleteJob
  <2>5. ASSUME NEW w \in Workers, CrashWorker(w) PROVE UNCHANGED recoveryVars
    BY <2>5 DEF CrashWorker
  <2> QED
    BY <2>1, <2>2, <2>3, <2>4, <2>5 DEF QueueNext
<1> QED
  BY <1>1, <1>2, <1>3, <1>4, <1>5, <1>6, <1>7, <1>8, <1>9, <1>10 DEF Lead, Boot, Recover

\* Queue recovery runs on the leader, once, but on the mains a stepdown or a
\* late start left with chains nobody can stop.
THEOREM RecoveryFollowsLeadershipHolds == QueueSpec => []RecoveryFollowsLeadership
<1>1. QueueInit => ChainsOK
  BY DEF QueueInit, ChainsOK, AllOff, OnlyLatest
<1>2. QueueTypeOK /\ ChainsOK => RecoveryFollowsLeadership
  <2> SUFFICES ASSUME QueueTypeOK, ChainsOK, NEW m \in Mains \ leaked, boot[m] = "up"
               PROVE  Cardinality({k \in Chains : chain[m][k] # "off"}) =
                        IF leader = m THEN 1 ELSE 0
    BY DEF RecoveryFollowsLeadership
  <2>1. CASE leader = m
    <3>1. {k \in Chains : chain[m][k] # "off"} = {latest[m]}
      BY <2>1 DEF ChainsOK, OnlyLatest
    <3> QED
      BY <2>1, <3>1, FS_Singleton
  <2>2. CASE leader # m
    <3>1. {k \in Chains : chain[m][k] # "off"} = {}
      BY <2>2 DEF ChainsOK, AllOff
    <3> QED
      BY <2>2, <3>1, FS_EmptySet
  <2> QED
    BY <2>1, <2>2
<1>3. ChainsOK /\ QueueTypeOK /\ [QueueNext]_queueVars => ChainsOK'
  BY ChainsNext
<1> QED
  BY <1>1, <1>2, <1>3, QueueTypesHold, PTL DEF QueueSpec

-----------------------------------------------------------------------------

\* How far nodes are, by how far the worker is that took the execution.
RunAt(stage) ==
  IF stage \in {"running", "aborted"} THEN "going"
  ELSE IF stage \in {"saving", "stored", "leaving", "done", "dead"} THEN "over" ELSE "no"

\* What the board shows of an execution nobody has taken, and of one that
\* worker w has, in terms of the work W of all workers.
TakerIn(W, e) ==
  IF \E w \in Workers : W[w][e] # "none"
  THEN CHOOSE w \in Workers : W[w][e] # "none" ELSE Nobody

RunIn(W, e) ==
  LET stages == {W[w][e] : w \in Workers} IN
  IF stages \cap {"running", "aborted"} # {} THEN "going"
  ELSE IF stages \cap {"saving", "stored", "leaving", "done", "dead"} # {} THEN "over"
  ELSE "no"

\* Nobody has taken it,
LEMMA FreeView ==
  ASSUME NEW W, NEW e, \A w \in Workers : W[w][e] = "none"
  PROVE  TakerIn(W, e) = Nobody /\ RunIn(W, e) = "no"
BY DEF TakerIn, RunIn

\* or w has.
LEMMA TakenView ==
  ASSUME NEW W, NEW e, NEW w \in Workers, W[w][e] # "none",
         \A v \in Workers : W[v][e] # "none" => v = w
  PROVE  TakerIn(W, e) = w /\ RunIn(W, e) = RunAt(W[w][e])
<1>1. TakerIn(W, e) = w
  BY DEF TakerIn
<1>2. \A v \in Workers : v # w => W[v][e] = "none"
  OBVIOUS
<1>3. RunIn(W, e) = RunAt(W[w][e])
  <2> DEFINE stages == {W[v][e] : v \in Workers}
  <2>1. W[w][e] \in stages /\ stages \subseteq {"none", W[w][e]}
    BY <1>2
  <2> HIDE DEF stages
  <2>2. CASE W[w][e] \in {"running", "aborted"}
    <3>1. stages \cap {"running", "aborted"} # {}
      BY <2>1, <2>2
    <3> QED
      BY <2>2, <3>1 DEF RunIn, RunAt, stages
  <2>3. CASE W[w][e] \in {"saving", "stored", "leaving", "done", "dead"}
    <3>1. stages \cap {"running", "aborted"} = {}
      BY <2>1, <2>3
    <3>2. stages \cap {"saving", "stored", "leaving", "done", "dead"} # {}
      BY <2>1, <2>3
    <3> QED
      BY <2>3, <3>1, <3>2 DEF RunIn, RunAt, stages
  <2>4. CASE W[w][e] \notin {"running", "aborted", "saving", "stored", "leaving", "done", "dead"}
    <3>1. stages \cap {"running", "aborted"} = {}
      BY <2>1, <2>4
    <3>2. stages \cap {"saving", "stored", "leaving", "done", "dead"} = {}
      BY <2>1, <2>4
    <3> QED
      BY <2>4, <3>1, <3>2 DEF RunIn, RunAt, stages
  <2> QED
    BY <2>2, <2>3, <2>4
<1> QED
  BY <1>1, <1>3

\* They are what the refinement maps to.
LEMMA ViewsAgree ==
  ASSUME NEW e \in Executions
  PROVE  /\ Taker(e) = TakerIn(work, e) /\ RunOf(e) = RunIn(work, e)
         /\ Taker(e)' = TakerIn(work', e) /\ RunOf(e)' = RunIn(work', e)
BY DEF Taker, RunOf, TakerIn, RunIn

\* An execution for which no worker does anything looks the same after a step.
LEMMA SameView ==
  ASSUME OnceInv, NEW e \in Executions, \A w \in Workers : work'[w][e] = work[w][e]
  PROVE  Taker(e)' = Taker(e) /\ RunOf(e)' = RunOf(e)
<1>1. CASE \A w \in Workers : work[w][e] = "none"
  <2>1. \A w \in Workers : work'[w][e] = "none"
    BY <1>1
  <2> QED
    BY <1>1, <2>1, FreeView, ViewsAgree
<1>2. ASSUME NEW w \in Workers, work[w][e] # "none"
      PROVE  Taker(e)' = Taker(e) /\ RunOf(e)' = RunOf(e)
  <2>1. \A v \in Workers : work[v][e] # "none" => v = w
    BY <1>2 DEF OnceInv, HandlingOK, OneTaker
  <2>2. TakerIn(work, e) = w /\ RunIn(work, e) = RunAt(work[w][e])
    BY <1>2, <2>1, TakenView
  <2>3. work'[w][e] # "none" /\ \A v \in Workers : work'[v][e] # "none" => v = w
    BY <1>2, <2>1
  <2>4. TakerIn(work', e) = w /\ RunIn(work', e) = RunAt(work'[w][e])
    BY <2>3, TakenView
  <2> QED
    BY <2>2, <2>4, ViewsAgree
<1> QED
  BY <1>1, <1>2

\* A step of processJob from one stage to another, seen on the board.
LEMMA ProgressView ==
  ASSUME OnceInv, NEW w \in Workers, NEW e \in Executions, NEW from, NEW to,
         from # "none", to # "none", Progress(w, e, from, to)
  PROVE  /\ OfferOf(e) = "taken"
         /\ RunOf(e) = RunAt(from) /\ RunOf(e)' = RunAt(to)
         /\ Taker(e)' = Taker(e)
         /\ \A d \in Executions \ {e} : Taker(d)' = Taker(d) /\ RunOf(d)' = RunOf(d)
<1>1. /\ work[w][e] = from /\ work'[w][e] = to
      /\ \A v \in Workers, d \in Executions : v # w \/ d # e => work'[v][d] = work[v][d]
  BY MoveFacts DEF OnceInv
<1>2. \A v \in Workers : work[v][e] # "none" => v = w
  BY <1>1 DEF OnceInv, HandlingOK, OneTaker
<1>3. \A v \in Workers : work'[v][e] # "none" => v = w
  BY <1>1, <1>2
<1>4. OfferOf(e) = "taken"
  BY <1>1 DEF OnceInv, HandlingOK, WorkIsTaken, OfferOf
<1>5. TakerIn(work, e) = w /\ RunIn(work, e) = RunAt(from)
  BY <1>1, <1>2, TakenView
<1>6. TakerIn(work', e) = w /\ RunIn(work', e) = RunAt(to)
  BY <1>1, <1>3, TakenView
<1>7. \A d \in Executions \ {e} : Taker(d)' = Taker(d) /\ RunOf(d)' = RunOf(d)
  BY <1>1, SameView
<1> QED
  BY <1>4, <1>5, <1>6, <1>7, ViewsAgree

\* The board that the state shows.
OffersShown == [e \in Executions |-> OfferOf(e)]
TakersShown == [e \in Executions |-> Taker(e)]
RunsShown == [e \in Executions |-> RunOf(e)]

\* Steps that change nothing on the board.
LEMMA BoardStutters ==
  ASSUME \A e \in Executions : /\ OfferOf(e)' = OfferOf(e)
                               /\ Taker(e)' = Taker(e) /\ RunOf(e)' = RunOf(e)
  PROVE  [Board!BoardNext]_(Board!boardVars)
<1>1. OffersShown' = OffersShown /\ TakersShown' = TakersShown /\ RunsShown' = RunsShown
  BY DEF OffersShown, TakersShown, RunsShown
<1> QED
  BY <1>1 DEF Board!boardVars, OffersShown, TakersShown, RunsShown

\* Steps that end the runs of some executions that were taken.
LEMMA BoardFinishes ==
  ASSUME NEW S \in SUBSET Executions,
         \A e \in S : OfferOf(e) = "taken" /\ RunOf(e)' = "over",
         \A e \in Executions : /\ OfferOf(e)' = OfferOf(e) /\ Taker(e)' = Taker(e)
                               /\ e \notin S => RunOf(e)' = RunOf(e)
  PROVE  [Board!BoardNext]_(Board!boardVars)
<1>1. /\ OffersShown' = OffersShown /\ TakersShown' = TakersShown
      /\ RunsShown' = [e \in Executions |-> IF e \in S THEN "over" ELSE RunsShown[e]]
  BY DEF OffersShown, TakersShown, RunsShown
<1>2. \A e \in S : OffersShown[e] = "taken"
  BY DEF OffersShown
<1>3. Board!Finish(S)
  BY <1>1, <1>2 DEF Board!Finish, OffersShown, TakersShown, RunsShown
<1> QED
  BY <1>3 DEF Board!BoardNext

\* Offers look the same as long as a job keeps to one of the four ways the
\* board tells jobs apart.
LEMMA SameOffers ==
  ASSUME \A e \in Executions :
           \/ job'[e] = job[e]
           \/ /\ job[e] \notin {"none", "waiting", "removed"}
              /\ job'[e] \notin {"none", "waiting", "removed"}
  PROVE  \A e \in Executions : OfferOf(e)' = OfferOf(e)
BY DEF OfferOf

\* Every step of queue mode is one the board allows, or leaves it alone.
LEMMA BoardNextHolds ==
  ASSUME OnceInv, [QueueNext]_queueVars
  PROVE  [Board!BoardNext]_(Board!boardVars)
<1> DEFINE Shown == [Board!BoardNext]_(Board!boardVars)
<1> HIDE DEF Shown
<1>a. /\ job \in [Executions -> JobStates]
      /\ work \in [Workers -> [Executions -> WorkStages]]
      /\ WorkIsTaken /\ OneTaker
  BY DEF OnceInv, QueueTypeOK, HandlingOK
<1>1. ASSUME job' = job, work' = work PROVE Shown
  BY <1>1, SameView, SameOffers, BoardStutters DEF Shown
<1>2. ASSUME NEW e \in Executions, AddJob(e) PROVE Shown
  <2>1. job[e] = "none" /\ job' = [job EXCEPT ![e] = "waiting"] /\ work' = work
    BY <1>2 DEF AddJob, Turn, workVars
  <2>2. OffersShown[e] = "absent" /\ OffersShown' = [OffersShown EXCEPT ![e] = "offered"]
    BY <1>a, <2>1 DEF OffersShown, OfferOf
  <2>3. TakersShown' = TakersShown /\ RunsShown' = RunsShown
    BY <2>1, SameView DEF TakersShown, RunsShown
  <2>4. Board!Post(e)
    BY <2>2, <2>3 DEF Board!Post, OffersShown, TakersShown, RunsShown
  <2> QED
    BY <2>4 DEF Board!BoardNext, Shown
<1>3. ASSUME NEW e \in Executions, RemoveJob(e) PROVE Shown
  <2>1. /\ job' = [job EXCEPT ![e] = IF @ = "waiting" THEN "removed" ELSE @]
        /\ work' = work
    BY <1>3 DEF RemoveJob, workVars
  <2>2. TakersShown' = TakersShown /\ RunsShown' = RunsShown
    BY <2>1, SameView DEF TakersShown, RunsShown
  <2>3. CASE job[e] = "waiting"
    <3>1. OffersShown[e] = "offered" /\ OffersShown' = [OffersShown EXCEPT ![e] = "withdrawn"]
      BY <1>a, <2>1, <2>3 DEF OffersShown, OfferOf
    <3>2. Board!Withdraw(e)
      BY <2>2, <3>1 DEF Board!Withdraw, OffersShown, TakersShown, RunsShown
    <3> QED
      BY <3>2 DEF Board!BoardNext, Shown
  <2>4. CASE job[e] # "waiting"
    <3>1. job' = job
      BY <1>a, <2>1, <2>4
    <3> QED
      BY <1>1, <2>1, <3>1
  <2> QED
    BY <2>3, <2>4
<1>4. ASSUME NEW e \in Executions, Stall(e) \/ LoseLock(e) \/ MoveToFailed(e) PROVE Shown
  <2>1. work' = work
    BY <1>4 DEF Stall, LoseLock, MoveToFailed, workVars
  <2>2. \A d \in Executions :
          \/ job'[d] = job[d]
          \/ job[d] = "active" /\ job'[d] \in {"stalled", "cancelled"}
    BY <1>a, <1>4 DEF Stall, LoseLock, MoveToFailed, Turn
  <2> QED
    BY <2>1, <2>2, SameView, SameOffers, BoardStutters DEF Shown
<1>5. ASSUME NEW w \in Workers, NEW e \in Executions, PickUp(w, e) PROVE Shown
  <2>1. /\ job[e] = "waiting" /\ job' = [job EXCEPT ![e] = "active"]
        /\ work' = [work EXCEPT ![w][e] = "loading"]
    BY <1>5 DEF PickUp, Turn
  <2>2. /\ \A v \in Workers : work[v][e] = "none"
        /\ work'[w][e] = "loading"
        /\ \A v \in Workers, d \in Executions : v # w \/ d # e => work'[v][d] = work[v][d]
    BY <1>a, <2>1 DEF WorkIsTaken
  <2>3. OffersShown[e] = "offered" /\ OffersShown' = [OffersShown EXCEPT ![e] = "taken"]
    BY <1>a, <2>1 DEF OffersShown, OfferOf
  <2>4. Taker(e)' = w /\ RunOf(e)' = "no" /\ RunOf(e) = "no"
    <3>1. TakerIn(work', e) = w /\ RunIn(work', e) = RunAt("loading")
      BY <2>2, TakenView
    <3>2. RunIn(work, e) = "no"
      BY <2>2, FreeView
    <3> QED
      BY <3>1, <3>2, ViewsAgree DEF RunAt
  <2>5. \A d \in Executions \ {e} : Taker(d)' = Taker(d) /\ RunOf(d)' = RunOf(d)
    BY <2>2, SameView
  <2>6. TakersShown' = [TakersShown EXCEPT ![e] = w] /\ RunsShown' = RunsShown
    BY <2>4, <2>5 DEF TakersShown, RunsShown
  <2>7. Board!Take(w, e)
    BY <2>3, <2>6 DEF Board!Take, OffersShown, TakersShown, RunsShown
  <2> QED
    BY <2>7 DEF Board!BoardNext, Shown
<1>b. ASSUME NEW w \in Workers, NEW e \in Executions, NEW from, NEW to,
             from # "none", to # "none", Progress(w, e, from, to),
             RunAt(to) = RunAt(from) \/ RunAt(to) = "over",
             \A d \in Executions :
               job'[d] = job[d] \/ (job[d] = "active" /\ job'[d] \in {"completed", "errored"})
      PROVE  Shown
  <2>1. \A d \in Executions : OfferOf(d)' = OfferOf(d)
    BY <1>b, SameOffers
  <2>2. CASE RunAt(to) = RunAt(from)
    BY <1>b, <2>1, <2>2, ProgressView, BoardStutters DEF Shown
  <2>3. CASE RunAt(to) = "over"
    BY <1>b, <2>1, <2>3, ProgressView, BoardFinishes, {e} \in SUBSET Executions DEF Shown
  <2> QED
    BY <1>b, <2>2, <2>3
<1>6. ASSUME NEW w \in Workers, NEW e \in Executions, Load(w, e) PROVE Shown
  <2>1. /\ Progress(w, e, "loading", "leaving") \/ Progress(w, e, "loading", "marking")
        /\ job' = job
    BY <1>6 DEF Load
  <2> QED
    BY <1>b, <2>1 DEF RunAt
<1>7. ASSUME NEW w \in Workers, NEW e \in Executions, MarkRunning(w, e) PROVE Shown
  BY <1>b, <1>7 DEF MarkRunning, RunAt
<1>8. ASSUME NEW w \in Workers, NEW e \in Executions, HasIssues(w, e) PROVE Shown
  BY <1>b, <1>8 DEF HasIssues, RunAt
<1>9. ASSUME NEW w \in Workers, NEW e \in Executions, StartRun(w, e) PROVE Shown
  <2>1. Progress(w, e, "preparing", "running") /\ job' = job
    BY <1>9 DEF StartRun
  <2>2. /\ OfferOf(e) = "taken" /\ RunOf(e) = "no" /\ RunOf(e)' = "going"
        /\ \A d \in Executions : Taker(d)' = Taker(d) /\ (d # e => RunOf(d)' = RunOf(d))
    BY <2>1, ProgressView DEF RunAt
  <2>3. /\ OffersShown' = OffersShown /\ TakersShown' = TakersShown
        /\ RunsShown' = [RunsShown EXCEPT ![e] = "going"]
        /\ OffersShown[e] = "taken" /\ RunsShown[e] = "no"
    BY <2>1, <2>2, SameOffers DEF OffersShown, TakersShown, RunsShown
  <2>4. Board!Begin(e)
    BY <2>3 DEF Board!Begin, OffersShown, TakersShown, RunsShown
  <2> QED
    BY <2>4 DEF Board!BoardNext, Shown
<1>10. ASSUME NEW w \in Workers, NEW e \in Executions, EndRun(w, e) PROVE Shown
  BY <1>b, <1>10 DEF EndRun, RunAt
<1>11. ASSUME NEW w \in Workers, NEW e \in Executions, SaveOutcome(w, e) PROVE Shown
  BY <1>b, <1>11 DEF SaveOutcome, RunAt
<1>12. ASSUME NEW w \in Workers, NEW e \in Executions, NoticeAbort(w, e) PROVE Shown
  BY <1>b, <1>12 DEF NoticeAbort, RunAt
<1>13. ASSUME NEW w \in Workers, NEW e \in Executions, CompleteJob(w, e) PROVE Shown
  <2>1. \A d \in Executions :
          job'[d] = job[d] \/ (job[d] = "active" /\ job'[d] \in {"completed", "errored"})
    BY <1>a, <1>13 DEF CompleteJob
  <2> QED
    BY <1>b, <1>13, <2>1 DEF CompleteJob, RunAt
<1>14. ASSUME NEW w \in Workers, NEW e \in Executions, FailJob(w, e) PROVE Shown
  <2>1. \A d \in Executions :
          job'[d] = job[d] \/ (job[d] = "active" /\ job'[d] \in {"completed", "errored"})
    BY <1>a, <1>14 DEF FailJob
  <2>2. PICK stage \in {"loading", "marking", "preparing"} : Progress(w, e, stage, "done")
    BY <1>14 DEF FailJob
  <2> QED
    BY <1>b, <2>1, <2>2 DEF RunAt
<1>15. ASSUME NEW e \in Executions, HearAbort(e) PROVE Shown
  <2>1. job' = job
    BY <1>15 DEF HearAbort
  <2>2. \A v \in Workers, d \in Executions :
          \/ work'[v][d] = work[v][d]
          \/ d = e /\ work[v][d] = "running" /\ work'[v][d] = "aborted"
    BY <1>a, <1>15 DEF HearAbort
  <2>3. \A d \in Executions \ {e} : Taker(d)' = Taker(d) /\ RunOf(d)' = RunOf(d)
    BY <2>2, SameView
  <2>4. Taker(e)' = Taker(e) /\ RunOf(e)' = RunOf(e)
    <3>1. CASE \A v \in Workers : work'[v][e] = work[v][e]
      BY <3>1, SameView
    <3>2. ASSUME NEW w \in Workers, work[w][e] = "running", work'[w][e] = "aborted"
          PROVE  Taker(e)' = Taker(e) /\ RunOf(e)' = RunOf(e)
      <4>1. \A v \in Workers : work[v][e] # "none" => v = w
        BY <1>a, <3>2 DEF OneTaker
      <4>2. \A v \in Workers : work'[v][e] # "none" => v = w
        BY <2>2, <4>1
      <4>3. TakerIn(work, e) = w /\ RunIn(work, e) = "going"
        BY <3>2, <4>1, TakenView DEF RunAt
      <4>4. TakerIn(work', e) = w /\ RunIn(work', e) = "going"
        BY <3>2, <4>2, TakenView DEF RunAt
      <4> QED
        BY <4>3, <4>4, ViewsAgree
    <3> QED
      BY <2>2, <3>1, <3>2
  <2> QED
    BY <2>1, <2>3, <2>4, SameOffers, BoardStutters DEF Shown
<1>16. ASSUME NEW w \in Workers, CrashWorker(w) PROVE Shown
  <2> DEFINE held == {e \in Executions : work[w][e] \in Handling}
  <2>1. /\ job' = job
        /\ \A e \in held : work'[w][e] = "dead"
        /\ \A v \in Workers, e \in Executions :
             v # w \/ e \notin held => work'[v][e] = work[v][e]
    BY <1>a, <1>16 DEF CrashWorker
  <2>2. ASSUME NEW e \in held
        PROVE  OfferOf(e) = "taken" /\ Taker(e)' = Taker(e) /\ RunOf(e)' = "over"
    <3>1. work[w][e] # "none" /\ work'[w][e] = "dead"
      BY <2>1 DEF Handling
    <3>2. \A v \in Workers : work[v][e] # "none" => v = w
      BY <1>a, <3>1 DEF OneTaker
    <3>3. \A v \in Workers : work'[v][e] # "none" => v = w
      BY <2>1, <3>2
    <3>4. TakerIn(work, e) = w
      BY <3>1, <3>2, TakenView
    <3>5. TakerIn(work', e) = w /\ RunIn(work', e) = "over"
      BY <3>1, <3>3, TakenView DEF RunAt
    <3>6. OfferOf(e) = "taken"
      BY <1>a, <3>1 DEF WorkIsTaken, OfferOf
    <3> QED
      BY <3>4, <3>5, <3>6, ViewsAgree
  <2>3. \A e \in Executions \ held : Taker(e)' = Taker(e) /\ RunOf(e)' = RunOf(e)
    BY <2>1, SameView
  <2>4. held \in SUBSET Executions
    OBVIOUS
  <2>5. \A e \in Executions : OfferOf(e)' = OfferOf(e)
    BY <2>1, SameOffers
  <2> HIDE DEF held
  <2> QED
    BY <2>2, <2>3, <2>4, <2>5, BoardFinishes DEF Shown
<1>17. ASSUME NEW e \in Executions, Enqueue(e) \/ Create(e) \/ EnqueueFails(e) PROVE Shown
  <2>1. AddJob(e) \/ (job' = job /\ work' = work)
    BY <1>17 DEF Enqueue, Create, EnqueueFails, CheckFails, Watch, HearEnd, ProcessError, Bury,
                 Finalize, workVars
  <2> QED
    BY <1>1, <1>2, <2>1
<1>18. ASSUME NEW e \in Executions, Stop(e) \/ Cancel(e) PROVE Shown
  <2>1. RemoveJob(e) \/ MoveToFailed(e) \/ (job' = job /\ work' = work)
    BY <1>18 DEF Stop, Cancel, AskToStop, StopAtHome, StopElsewhere, StoreStopped, CheckActive,
                 workVars
  <2> QED
    BY <1>1, <1>3, <1>4, <2>1
<1>19. ASSUME NEW w \in Workers, NEW e \in Executions, SaveCanceled(w, e) PROVE Shown
  BY <1>1, <1>19 DEF SaveCanceled
<1>20. ASSUME NEW m \in Mains, Lead(m) PROVE Shown
  BY <1>1, <1>20 DEF Lead, Boot, TakeOver, StepDown, RegisterHandlers, SetupQueue, CrashMain,
                     workVars
<1>21. ASSUME NEW m \in Mains, NEW k \in Chains, Recover(m, k) PROVE Shown
  BY <1>1, <1>21 DEF Recover, ReadIds, ReadJobs, MarkAsCrashed, workVars
<1>22. ASSUME UNCHANGED queueVars PROVE Shown
  <2>1. job' = job /\ work' = work
    BY <1>22 DEF queueVars, workVars
  <2> QED
    BY <1>1, <2>1
<1>25. ASSUME NEW w \in Workers, NEW e \in Executions, Deregister(w, e) PROVE Shown
  BY <1>b, <1>25 DEF Deregister, RunAt
<1>23. ASSUME NEW w \in Workers, NEW e \in Executions, Work(w, e) PROVE Shown
  BY <1>6, <1>7, <1>8, <1>9, <1>10, <1>11, <1>12, <1>13, <1>23, <1>25 DEF Work
<1>24. ASSUME QueueNext PROVE Shown
  <2>1. CASE \E e \in Executions :
               Create(e) \/ Enqueue(e) \/ EnqueueFails(e) \/ Stop(e) \/ Cancel(e) \/ HearAbort(e)
                 \/ Stall(e) \/ LoseLock(e)
    BY <1>4, <1>15, <1>17, <1>18, <2>1
  <2>2. CASE \E w \in Workers, e \in Executions :
               PickUp(w, e) \/ Work(w, e) \/ FailJob(w, e) \/ SaveCanceled(w, e)
    BY <1>5, <1>14, <1>19, <1>23, <2>2
  <2>3. CASE \/ \E w \in Workers : CrashWorker(w)
             \/ \E m \in Mains : Lead(m)
             \/ \E m \in Mains, k \in Chains : Recover(m, k)
    BY <1>16, <1>20, <1>21, <2>3
  <2> QED
    BY <1>24, <2>1, <2>2, <2>3 DEF QueueNext
<1> QED
  BY <1>22, <1>24 DEF Shown

\* "maxStalledCount: 0": an execution is taken by one worker at most, once, and
\* its nodes start at most once.
THEOREM TakenOnceHolds == QueueSpec => TakenOnce
<1>1. QueueInit => Board!BoardInit
  <2> SUFFICES ASSUME QueueInit PROVE Board!BoardInit
    OBVIOUS
  <2>1. \A e \in Executions : OfferOf(e) = "absent" /\ \A w \in Workers : work[w][e] = "none"
    BY DEF QueueInit, OfferOf
  <2>2. \A e \in Executions : Taker(e) = Nobody /\ RunOf(e) = "no"
    BY <2>1, FreeView, ViewsAgree
  <2> QED
    BY <2>1, <2>2 DEF Board!BoardInit
<1>2. OnceInv /\ [QueueNext]_queueVars => [Board!BoardNext]_(Board!boardVars)
  BY BoardNextHolds
<1> QED
  BY <1>1, <1>2, OnceInvHolds, PTL DEF QueueSpec, TakenOnce, Board!BoardSpec
=============================================================================

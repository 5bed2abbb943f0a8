---------------------------- MODULE WaitTracking ----------------------------
(***************************************************************************)
(* The wait trackers (wait-tracker.ts) of the mains of LeaderElection.     *)
(* The leader polls the database for executions whose wait ends soon and   *)
(* sets a timer that resumes each; the tracker starts at boot or with the  *)
(* takeover event and stops with the stepdown event or at shutdown.        *)
(*                                                                         *)
(* Left out: how a resumed execution goes on (see ExecutionLifecycle), the *)
(* restart of a parent execution, and users who stop a waiting execution.  *)
(***************************************************************************)
EXTENDS LeaderElection

CONSTANT Waits  \* executions, each of which is put to wait once

VARIABLES
  waiting,    \* the executions the database has a waitTill for
  waited,     \* those that have been put to wait
  tracking,   \* whether the interval mainTimer refers to is set, on each main
  strays,     \* the mains with an earlier interval nothing refers to any more
  found,      \* what getWaitingExecutions has read and not handled yet
  timer,      \* waitingExecutions: the timer of each entry
  uninformed  \* the mains that no handler was told their present role

trackerVars == <<tracking, strays, found, timer>>
waitVars == <<waiting, waited, trackerVars, uninformed>>
trackingVars == <<electionVars, waitVars>>

NoTimers == [x \in Waits |-> "no entry"]

TrackingInit ==
  /\ ElectionInit
  /\ waiting = {}
  /\ waited = {}
  /\ tracking = [m \in Mains |-> FALSE]
  /\ strays = {}
  /\ found = [m \in Mains |-> {}]
  /\ timer = [m \in Mains |-> NoTimers]
  /\ uninformed = {}

-----------------------------------------------------------------------------
(***************************************************************************)
(* The tracker                                                             *)
(***************************************************************************)

\* getWaitingExecutions, up to the answer of the database.
Query(m) == found' = [found EXCEPT ![m] = @ \cup waiting]

\* The interval is set and the first query issued.  An interval that is set
\* already is not cleared: mainTimer refers to the new one.
StartTracking(m) ==
  /\ tracking' = [tracking EXCEPT ![m] = TRUE]
  /\ strays' = IF tracking[m] THEN strays \cup {m} ELSE strays
  /\ Query(m)
  /\ UNCHANGED timer

\* The interval of mainTimer, which stays defined, and every timer is cleared,
\* every entry kept.
StopTracking(m) ==
  /\ tracking' = [tracking EXCEPT ![m] = FALSE]
  /\ timer' = [timer EXCEPT ![m] = [x \in Waits |-> IF @[x] = "set" THEN "cleared" ELSE @[x]]]
  /\ UNCHANGED <<strays, found>>

\* The rest of getWaitingExecutions: a timer for what has no entry.
SetTimers(m) ==
  /\ found[m] # {}
  /\ found' = [found EXCEPT ![m] = {}]
  /\ timer' = [timer EXCEPT ![m] = [x \in Waits |->
       IF x \in found[m] /\ @[x] = "no entry" THEN "set" ELSE @[x]]]
  /\ UNCHANGED <<electionVars, waiting, waited, tracking, strays, uninformed>>

Polls(m) == tracking[m] \/ m \in strays

\* An interval is up.
Poll(m) ==
  /\ Polls(m)
  /\ Query(m)
  /\ UNCHANGED <<electionVars, waiting, waited, tracking, strays, timer, uninformed>>

\* startExecution.  Of several that resume one execution, on whatever mains,
\* the first update of the row succeeds and the others are skipped.
Fire(m, x) ==
  /\ timer[m][x] = "set"
  /\ timer' = [timer EXCEPT ![m][x] = "no entry"]
  /\ waiting' = waiting \ {x}
  /\ UNCHANGED <<electionVars, waited, tracking, strays, found, uninformed>>

\* A run, on any main or worker, saves that its execution waits.
BeginWait(x) ==
  /\ x \notin waited
  /\ waiting' = waiting \cup {x}
  /\ waited' = waited \cup {x}
  /\ UNCHANGED <<electionVars, trackerVars, uninformed>>

-----------------------------------------------------------------------------
(***************************************************************************)
(* The events                                                              *)
(***************************************************************************)

\* registerEventHandlers has been called.
Hears(m) == boot[m] \in {"registered", "up", "leaving", "left"}

\* An event is emitted, and handled at once ...
Heard(m) ==
  /\ Hears(m)
  /\ uninformed' = uninformed \ {m}

\* ... if anybody listens.  Before WaitTracker.init nobody needs to: it will
\* look at the role itself.
Unheard(m) ==
  /\ ~Hears(m)
  /\ uninformed' = IF boot[m] = "tracked" THEN uninformed \cup {m} ELSE uninformed
  /\ UNCHANGED trackerVars

TakeOver(m) ==
  /\ Win(m)
  /\ \/ Heard(m) /\ StartTracking(m)
     \/ Unheard(m)
  /\ UNCHANGED <<waiting, waited>>

\* SLIP: leader-stepdown is emitted only when the key is vacant.
StepDownIfVacant(m) ==
  /\ \/ Compete(m) /\ Heard(m) /\ StopTracking(m)
     \/ Compete(m) /\ Unheard(m)
     \/ Yield(m) /\ role[m] = "leader" /\ UNCHANGED <<trackerVars, uninformed>>
  /\ UNCHANGED <<waiting, waited>>

\* stepdown is emitted to a follower too when the key is vacant.
StepDown(m) ==
  /\ \/ Compete(m)
     \/ Yield(m) /\ role[m] = "leader"
  /\ \/ Heard(m) /\ StopTracking(m)
     \/ Unheard(m)
  /\ UNCHANGED <<waiting, waited>>

\* A main that finds its own id in the key is leader, and no event says so.
Reclaim(m) ==
  /\ Renew(m)
  /\ uninformed' = IF role[m] # "leader" /\ (boot[m] = "tracked" \/ Hears(m))
                   THEN uninformed \cup {m}
                   ELSE uninformed
  /\ UNCHANGED <<waiting, waited, trackerVars>>

\* The steps of a check that emit nothing.
CheckQuietly(m) ==
  /\ \/ ReadKey(m)
     \/ SetKey(m)
     \/ Lose(m)
     \/ Yield(m) /\ role[m] # "leader"
  /\ UNCHANGED waitVars

-----------------------------------------------------------------------------
(***************************************************************************)
(* The process                                                             *)
(***************************************************************************)

BootQuietly(m) ==
  /\ \/ Start(m)
     \/ BootStep(m, "tracked", "registered")
     \/ BootStep(m, "registered", "up")
  /\ UNCHANGED waitVars

\* SLIP: tracking is left to the takeover event.
InitTrackerByEvent(m) ==
  /\ BootStep(m, "elected", "tracked")
  /\ UNCHANGED waitVars

\* WaitTracker.init
InitTracker(m) ==
  /\ BootStep(m, "elected", "tracked")
  /\ IF role[m] = "leader"
     THEN StartTracking(m)
     ELSE UNCHANGED trackerVars
  /\ UNCHANGED <<waiting, waited, uninformed>>

\* stopProcess begins.
Leave(m) ==
  /\ StopProcess(m)
  /\ StopTracking(m)
  /\ UNCHANGED <<waiting, waited, uninformed>>

\* The process is gone, with its intervals and timers.
End(m) ==
  /\ Exit(m) \/ Crash(m)
  /\ tracking' = [tracking EXCEPT ![m] = FALSE]
  /\ strays' = strays \ {m}
  /\ found' = [found EXCEPT ![m] = {}]
  /\ timer' = [timer EXCEPT ![m] = NoTimers]
  /\ uninformed' = uninformed \ {m}
  /\ UNCHANGED <<waiting, waited>>

BootOf(m) == BootQuietly(m) \/ InitTracker(m)

CheckOf(m) == CheckQuietly(m) \/ TakeOver(m) \/ StepDown(m) \/ Reclaim(m)

TrackingNext ==
  \/ \E m \in Mains :
       \/ BootOf(m)
       \/ CheckOf(m)
       \/ Leave(m)
       \/ ClearKey(m) /\ UNCHANGED waitVars
       \/ Stall(m) /\ UNCHANGED waitVars
       \/ End(m)
       \/ Poll(m)
       \/ SetTimers(m)
       \/ \E x \in Waits : Fire(m, x)
  \/ Expire /\ UNCHANGED waitVars
  \/ \E x \in Waits : BeginWait(x)

\* A process that runs goes on, one that is down is started again by its
\* supervisor, intervals and timers fire, and a key nobody renews expires.
TrackingFairness ==
  /\ \A m \in Mains :
       /\ WF_trackingVars(BootOf(m))
       /\ WF_trackingVars(CheckOf(m))
       /\ WF_trackingVars(ClearKey(m) /\ UNCHANGED waitVars)
       /\ WF_trackingVars(boot[m] = "left" /\ End(m))
       /\ WF_trackingVars(Poll(m))
       /\ WF_trackingVars(SetTimers(m))
       /\ \A x \in Waits : WF_trackingVars(Fire(m, x))
  /\ WF_trackingVars(Expire /\ UNCHANGED waitVars)

TrackingSpec == TrackingInit /\ [][TrackingNext]_trackingVars

FairTrackingSpec == TrackingSpec /\ TrackingFairness

-----------------------------------------------------------------------------
(***************************************************************************)
(* Properties                                                              *)
(***************************************************************************)

\* The types of the state.
TrackingTypeOK ==
  /\ ElectionTypeOK
  /\ waited \subseteq Waits
  /\ waiting \subseteq waited
  /\ tracking \in [Mains -> BOOLEAN]
  /\ strays \subseteq Mains
  /\ found \in [Mains -> SUBSET waited]
  /\ timer \in [Mains -> [Waits -> {"no entry", "set", "cleared"}]]
  /\ uninformed \subseteq Mains

\* Whatever order answers of Redis, events, boot steps and expiries come in,
\* the mains that poll for waiting executions are the ones that think they
\* are leader.  There are two exceptions: mains that became leader, or
\* follower, without any handler hearing of it, and mains with a stray
\* interval, which none of them has as long as no leader loses its key.
TracksAsLeader ==
  /\ \A m \in Mains \ uninformed :
       boot[m] \in {"tracked", "registered", "up"} => (tracking[m] <=> role[m] = "leader")
  /\ stalls = 0 => strays = {}

\* One leader emerges for good once mains neither stop nor stall any more,
\* also when the key was left behind by a process that is gone.
LeaderEmerges == <>[](\E m \in Mains : Leaders = {m})

\* Every waiting execution is resumed, as long as no leader loses its key and
\* the handlers of every main know its role.
WaitIsResumedInPeace ==
  [](stalls = 0 /\ uninformed = {}) =>
    \A x \in Waits : x \in waiting ~> x \notin waiting
=============================================================================

------------------------ MODULE LeaderElectionProofs ------------------------
(***************************************************************************)
(* For any set of mains, any number of crashes, shutdowns and late checks: *)
(* there is one leader at a time as long as no leader loses its key        *)
(* (OneLeaderHolds), also with the wait trackers on top, and the interval  *)
(* of mainTimer is set on the leaders (TracksAsLeaderHolds).               *)
(***************************************************************************)
EXTENDS WaitTracking, TLAPS

USE LeaderAssumption

\* A main that has not started has no role and awaits nothing, and one in its
\* first election has no role yet.
FreshOK ==
  \A m \in Mains :
    /\ boot[m] = "down" => role[m] = "unset" /\ check[m] = "none"
    /\ boot[m] = "electing" => role[m] = "unset" /\ check[m] \in {"trying", "won", "lost"}

\* Whoever is leader, or will be once it handles the answer it has, holds
\* the key.  OneLeader alone is not inductive: the answer "won" is as good as
\* the role.
HoldsKey == stalls = 0 => \A m \in Mains : ReliesOnKey(m) => key = m

ElectionInv == ElectionTypeOK /\ FreshOK /\ HoldsKey

\* ElectionInv holds initially.
LEMMA ElectionInvInit == ElectionInit => ElectionInv
<1> SUFFICES ASSUME ElectionInit PROVE ElectionInv
  OBVIOUS
<1>1. ElectionTypeOK
  BY DEF ElectionInit, ElectionTypeOK, BootStages
<1>2. FreshOK
  BY DEF ElectionInit, FreshOK
<1>3. HoldsKey
  BY DEF ElectionInit, HoldsKey, ReliesOnKey, Serving
<1> QED
  BY <1>1, <1>2, <1>3 DEF ElectionInv

\* Two mains that rely on the key are one.
LEMMA KeyOfOne ==
  ASSUME HoldsKey, stalls = 0,
         NEW m \in Mains, ReliesOnKey(m),
         NEW n \in Mains, ReliesOnKey(n)
  PROVE  m = n
BY DEF HoldsKey

\* ElectionInv is kept by every step of the election.
LEMMA ElectionInvNext == ElectionInv /\ [ElectionNext]_electionVars => ElectionInv'
<1> USE DEF ElectionInv, ElectionTypeOK, FreshOK, HoldsKey, ReliesOnKey, Serving, NoOne, FormerMain,
            BootStages
<1> SUFFICES ASSUME ElectionInv, [ElectionNext]_electionVars PROVE ElectionInv'
  OBVIOUS
<1>1. CASE UNCHANGED electionVars
  BY <1>1 DEF electionVars
<1>2. CASE Expire
  BY <1>2 DEF Expire
<1>3. ASSUME NEW m \in Mains, Start(m) PROVE ElectionInv'
  BY <1>3 DEF Start
<1>4. ASSUME NEW m \in Mains,
             \/ BootStep(m, "elected", "tracked")
             \/ BootStep(m, "tracked", "registered")
             \/ BootStep(m, "registered", "up")
      PROVE ElectionInv'
  BY <1>4 DEF BootStep
<1>5. ASSUME NEW m \in Mains, ReadKey(m) PROVE ElectionInv'
  BY <1>5 DEF ReadKey, Checking, Answered
<1>6. ASSUME NEW m \in Mains, Renew(m) PROVE ElectionInv'
  BY <1>6 DEF Renew, Answered, Become
<1>7. ASSUME NEW m \in Mains, Yield(m) PROVE ElectionInv'
  BY <1>7 DEF Yield, Answered, Become
<1>8. ASSUME NEW m \in Mains, Compete(m) PROVE ElectionInv'
  BY <1>8 DEF Compete, Answered, Become
<1>9. ASSUME NEW m \in Mains, SetKey(m) PROVE ElectionInv'
  BY <1>9 DEF SetKey, Answered
<1>10. ASSUME NEW m \in Mains, Win(m) PROVE ElectionInv'
  BY <1>10 DEF Win, Conclude, Answered, Become
<1>11. ASSUME NEW m \in Mains, Lose(m) PROVE ElectionInv'
  BY <1>11 DEF Lose, Conclude, Answered, Become
<1>12. ASSUME NEW m \in Mains, StopProcess(m) PROVE ElectionInv'
  <2>1. stops \in Nat /\ stops' = stops + 1
    BY <1>12 DEF StopProcess
  <2>2. stops' \in Nat
    BY ONLY <2>1
  <2> QED
    BY <1>12, <2>2 DEF StopProcess
<1>13. ASSUME NEW m \in Mains, ClearKey(m) PROVE ElectionInv'
  <2>1. ElectionTypeOK' /\ FreshOK'
    BY <1>13 DEF ClearKey
  <2>2. HoldsKey'
    BY <1>13 DEF ClearKey
  <2> QED
    BY <2>1, <2>2
<1>14. ASSUME NEW m \in Mains, Exit(m) \/ Crash(m) PROVE ElectionInv'
  <2>1. /\ role' = [role EXCEPT ![m] = "unset"]
        /\ boot' = [boot EXCEPT ![m] = "down"]
        /\ check' = [check EXCEPT ![m] = "none"]
        /\ stalls' = stalls
        /\ stops' \in {stops, stops + 1}
    BY <1>14 DEF Exit, Crash, Vanish
  <2>2. /\ key' \in {key, m, FormerMain}
        /\ key' = key \/ key = m \/ key = NoOne
    BY <1>14 DEF Exit, Crash, Vanish
  <2>3. ElectionTypeOK'
    <3>1. stops \in Nat
      OBVIOUS
    <3>2. stops' \in Nat
      BY ONLY <3>1, <2>1
    <3> QED
      BY <2>1, <2>2, <3>2
  <2>4. FreshOK'
    BY <2>1
  <2>5. HoldsKey'
    <3> SUFFICES ASSUME stalls = 0, NEW n \in Mains, ReliesOnKey(n)' PROVE key' = n
      BY <2>1
    <3>1. n # m /\ ReliesOnKey(n)
      BY <2>1
    <3> QED
      BY <3>1, <2>2
  <2> QED
    BY <2>3, <2>4, <2>5
<1>15. ASSUME NEW m \in Mains, Stall(m) PROVE ElectionInv'
  <2>1. stalls \in Nat /\ stalls' = stalls + 1
    BY <1>15 DEF Stall
  <2>2. stalls' \in Nat /\ stalls' # 0
    BY ONLY <2>1
  <2> QED
    BY <1>15, <2>2 DEF Stall
<1> QED
  BY <1>1, <1>2, <1>3, <1>4, <1>5, <1>6, <1>7, <1>8, <1>9, <1>10, <1>11, <1>12, <1>13, <1>14,
     <1>15 DEF ElectionNext, Boots, Checks, Stops

\* Two leaders both rely on the key.
LEMMA OneLeaderFollows == ElectionInv => OneLeader
BY KeyOfOne DEF ElectionInv, OneLeader, Leaders, ReliesOnKey

\* Two mains are never leader at once before a leader loses its key.
THEOREM OneLeaderHolds == ElectionSpec => []OneLeader
<1>1. ElectionSpec => []ElectionInv
  BY ElectionInvInit, ElectionInvNext, PTL DEF ElectionSpec
<1> QED
  BY <1>1, OneLeaderFollows, PTL

-----------------------------------------------------------------------------
(***************************************************************************)
(* The wait trackers                                                       *)
(***************************************************************************)

\* A step of the mains with their trackers is a step of the election, or
\* leaves it alone.
LEMMA TrackingStepIsElectionStep ==
  TrackingNext => [ElectionNext]_electionVars
<1> SUFFICES ASSUME TrackingNext PROVE [ElectionNext]_electionVars
  OBVIOUS
<1> USE DEF ElectionNext, Boots, Checks, Stops
<1>1. ASSUME NEW m \in Mains, BootOf(m) PROVE ElectionNext
  BY <1>1 DEF BootOf, BootQuietly, InitTracker
<1>2. ASSUME NEW m \in Mains, CheckOf(m) PROVE ElectionNext
  BY <1>2 DEF CheckOf, CheckQuietly, TakeOver, StepDown, Reclaim
<1>3. ASSUME NEW m \in Mains, Leave(m) \/ ClearKey(m) \/ Stall(m) \/ End(m) PROVE ElectionNext
  BY <1>3 DEF Leave, End
<1>4. ASSUME NEW m \in Mains, Poll(m) \/ SetTimers(m) \/ \E x \in Waits : Fire(m, x)
      PROVE UNCHANGED electionVars
  BY <1>4 DEF Poll, SetTimers, Fire, electionVars
<1>5. ASSUME NEW x \in Waits, BeginWait(x) PROVE UNCHANGED electionVars
  BY <1>5 DEF BeginWait, electionVars
<1> QED
  BY <1>1, <1>2, <1>3, <1>4, <1>5 DEF TrackingNext

\* Mains with wait trackers run the election, whatever the trackers do.
THEOREM TrackingIsElection == TrackingSpec => ElectionSpec
<1>1. TrackingInit => ElectionInit
  BY DEF TrackingInit
<1>2. [TrackingNext]_trackingVars => [ElectionNext]_electionVars
  BY TrackingStepIsElectionStep DEF trackingVars, electionVars
<1> QED
  BY <1>1, <1>2, PTL DEF TrackingSpec, ElectionSpec

\* A main that still is in an election, or has just lost one, is no leader.
ContenderOK ==
  \A m \in Mains : check[m] \in {"trying", "won", "lost"} => role[m] # "leader"

\* Nothing is tracked before WaitTracker.init.
UntrackedOK ==
  \A m \in Mains : boot[m] \in {"down", "electing", "elected"} => ~tracking[m]

TrackingOK ==
  tracking \in [Mains -> BOOLEAN] /\ strays \subseteq Mains /\ uninformed \subseteq Mains

\* The first half of TracksAsLeader.
FollowsRole ==
  \A m \in Mains \ uninformed :
    boot[m] \in {"tracked", "registered", "up"} => (tracking[m] <=> role[m] = "leader")

\* Before a leader loses its key, none is told that it has, and so no main
\* wins an election while its interval is set.
PeaceOK ==
  stalls = 0 =>
    /\ strays = {}
    /\ \A m \in Mains : tracking[m] => role[m] = "leader"
    /\ \A m \in Mains : role[m] = "leader" => check[m] \in {"none", "mine"}

\* TracksAsLeader is not inductive alone: a leader that loses an election
\* would keep its tracker, as losing emits nothing.  No leader is ever in one.
TrackingInv ==
  /\ ElectionInv
  /\ ContenderOK
  /\ UntrackedOK
  /\ TrackingOK
  /\ FollowsRole
  /\ PeaceOK

\* TrackingInv holds initially.
LEMMA TrackingInvInit == TrackingInit => TrackingInv
<1> SUFFICES ASSUME TrackingInit PROVE TrackingInv
  OBVIOUS
<1>1. ElectionInv
  BY ElectionInvInit DEF TrackingInit
<1>2. ContenderOK /\ UntrackedOK /\ TrackingOK /\ FollowsRole /\ PeaceOK
  BY DEF TrackingInit, ElectionInit, ContenderOK, UntrackedOK, TrackingOK, FollowsRole, PeaceOK
<1> QED
  BY <1>1, <1>2 DEF TrackingInv

\* A leader that has its key finds it, so that it is told neither that the key
\* is vacant nor that it is another's.
LEMMA PeaceOKNext == TrackingInv /\ [TrackingNext]_trackingVars => PeaceOK'
<1> USE DEF PeaceOK, trackerVars
<1> SUFFICES ASSUME TrackingInv, [TrackingNext]_trackingVars, stalls' = 0 PROVE PeaceOK'
  OBVIOUS
<1>1. /\ tracking \in [Mains -> BOOLEAN]
      /\ check \in [Mains -> {"none", "trying", "won", "lost", "mine", "other", "vacant"}]
      /\ role \in [Mains -> {"unset", "leader", "follower"}]
      /\ boot \in [Mains -> BootStages]
  BY DEF TrackingInv, TrackingOK, ElectionInv, ElectionTypeOK
<1>2. /\ \A m \in Mains : check[m] \in {"trying", "won", "lost"} => role[m] # "leader"
      /\ \A m \in Mains : boot[m] \in {"down", "electing", "elected"} => ~tracking[m]
      /\ \A m \in Mains : boot[m] = "down" => role[m] = "unset"
      /\ stalls = 0 => \A m \in Mains : ReliesOnKey(m) => key = m
  BY DEF TrackingInv, ContenderOK, UntrackedOK, ElectionInv, FreshOK, HoldsKey
<1>3. ASSUME stalls = 0
      PROVE  /\ strays = {}
             /\ \A m \in Mains : tracking[m] => role[m] = "leader"
             /\ \A m \in Mains : role[m] = "leader" => check[m] \in {"none", "mine"}
  BY <1>3 DEF TrackingInv
<1>4. CASE UNCHANGED trackingVars
  BY <1>4, <1>3 DEF trackingVars, electionVars, waitVars
<1>5. ASSUME NEW m \in Mains, BootOf(m) PROVE PeaceOK'
  <2>1. CASE Start(m) /\ UNCHANGED waitVars
    <3>1. /\ stalls' = stalls /\ role' = role /\ role[m] # "leader" /\ strays' = strays
          /\ tracking' = tracking /\ check' = [check EXCEPT ![m] = "trying"]
      BY <2>1, <1>2 DEF Start, waitVars
    <3> QED
      BY <3>1, <1>1, <1>3
  <2>2. CASE /\ BootStep(m, "tracked", "registered") \/ BootStep(m, "registered", "up")
             /\ UNCHANGED waitVars
    BY <2>2, <1>3 DEF BootStep, waitVars
  <2>3. CASE InitTracker(m)
    <3>1. /\ stalls' = stalls /\ role' = role /\ check' = check /\ ~tracking[m]
      BY <2>3, <1>2 DEF InitTracker, BootStep
    <3>2. \/ UNCHANGED <<tracking, strays>>
          \/ role[m] = "leader" /\ tracking' = [tracking EXCEPT ![m] = TRUE] /\ strays' = strays
      BY <2>3, <3>1 DEF InitTracker, StartTracking
    <3> QED
      BY <3>1, <3>2, <1>1, <1>3
  <2> QED
    BY <1>5, <2>1, <2>2, <2>3 DEF BootOf, BootQuietly
<1>6. ASSUME NEW m \in Mains, CheckQuietly(m) PROVE PeaceOK'
  <2>1. tracking' = tracking /\ strays' = strays /\ stalls' = stalls
    BY <1>6 DEF CheckQuietly, waitVars, ReadKey, SetKey, Lose, Conclude, Yield
  <2>2. CASE ReadKey(m)
    <3>1. ASSUME stalls = 0, role[m] = "leader" PROVE key = m
      BY <2>2, <3>1, <1>2 DEF ReadKey, Checking, ReliesOnKey, Serving, BootStages
    <3>2. role' = role /\ (key = m => check'[m] = "mine")
      BY <2>2, <1>1 DEF ReadKey, Answered, NoOne
    <3>3. \A n \in Mains \ {m} : check'[n] = check[n]
      BY <2>2, <1>1 DEF ReadKey, Answered
    <3> QED
      BY <2>1, <3>1, <3>2, <3>3, <1>1, <1>3
  <2>3. CASE SetKey(m)
    <3>1. /\ role' = role /\ role[m] # "leader"
          /\ \A n \in Mains \ {m} : check'[n] = check[n]
      BY <2>3, <1>1, <1>2 DEF SetKey, Answered
    <3> QED
      BY <2>1, <3>1, <1>3
  <2>4. CASE Lose(m) \/ (Yield(m) /\ role[m] # "leader")
    <3>1. /\ role' \in {role, [role EXCEPT ![m] = "follower"]}
          /\ check' = [check EXCEPT ![m] = "none"]
          /\ role[m] # "leader"
      BY <2>4, <1>1, <1>2 DEF Lose, Conclude, Yield, Answered, Become
    <3> QED
      BY <2>1, <3>1, <1>1, <1>3
  <2> QED
    BY <1>6, <2>2, <2>3, <2>4 DEF CheckQuietly
<1>7. ASSUME NEW m \in Mains, TakeOver(m) PROVE PeaceOK'
  <2>1. /\ stalls' = stalls /\ role[m] # "leader"
        /\ check' = [check EXCEPT ![m] = "none"]
        /\ role' = [role EXCEPT ![m] = "leader"]
    BY <1>7, <1>2 DEF TakeOver, Win, Conclude, Answered, Become
  <2>2. ~tracking[m]
    BY <2>1, <1>3
  <2>3. /\ tracking' \in {tracking, [tracking EXCEPT ![m] = TRUE]}
        /\ strays' = strays
    BY <1>7, <2>2 DEF TakeOver, StartTracking, Unheard
  <2> QED
    BY <2>1, <2>3, <1>1, <1>3
<1>8. ASSUME NEW m \in Mains, StepDown(m) PROVE PeaceOK'
  <2>1. /\ stalls' = stalls /\ check[m] \in {"vacant", "other"}
        /\ check' \in {[check EXCEPT ![m] = a] : a \in {"none", "trying"}}
        /\ role' = [role EXCEPT ![m] = "follower"]
    BY <1>8 DEF StepDown, Compete, Yield, Answered, Become
  <2>2. ~tracking[m] /\ role[m] # "leader"
    BY <2>1, <1>3
  <2>3. /\ tracking' \in {tracking, [tracking EXCEPT ![m] = FALSE]}
        /\ strays' = strays
    BY <1>8 DEF StepDown, StopTracking, Unheard
  <2> QED
    BY <2>1, <2>2, <2>3, <1>1, <1>3
<1>9. ASSUME NEW m \in Mains, Reclaim(m) PROVE PeaceOK'
  <2>1. /\ stalls' = stalls /\ tracking' = tracking /\ strays' = strays
        /\ check' = [check EXCEPT ![m] = "none"]
        /\ role' = [role EXCEPT ![m] = "leader"]
    BY <1>9 DEF Reclaim, Renew, Answered, Become
  <2> QED
    BY <2>1, <1>1, <1>3
<1>10. ASSUME NEW m \in Mains, Leave(m) \/ End(m) PROVE PeaceOK'
  <2>1. /\ stalls' = stalls
        /\ tracking' = [tracking EXCEPT ![m] = FALSE]
        /\ strays' \in {strays, strays \ {m}}
        /\ \/ role' = role /\ check' = check
           \/ /\ role' = [role EXCEPT ![m] = "unset"]
              /\ check' = [check EXCEPT ![m] = "none"]
    BY <1>10 DEF Leave, StopProcess, StopTracking, End, Exit, Crash, Vanish
  <2> QED
    BY <2>1, <1>1, <1>3
<1>11. ASSUME NEW m \in Mains, ClearKey(m) \/ Stall(m), UNCHANGED waitVars PROVE PeaceOK'
  <2>1. ~Stall(m)
    <3>1. ASSUME Stall(m) PROVE stalls \in Nat /\ stalls' = stalls + 1
      BY <3>1 DEF Stall, TrackingInv, ElectionInv, ElectionTypeOK
    <3>2. stalls \in Nat => stalls + 1 # 0
      BY ONLY SMT
    <3> QED
      BY <3>1, <3>2
  <2>2. stalls' = stalls /\ role' = role /\ check' = check
    BY <1>11, <2>1 DEF ClearKey
  <2> QED
    BY <1>11, <2>2, <1>3 DEF waitVars
<1>12. ASSUME Expire, UNCHANGED waitVars PROVE PeaceOK'
  BY <1>12, <1>3 DEF Expire, waitVars
<1>13. ASSUME NEW m \in Mains, Poll(m) \/ SetTimers(m) \/ \E x \in Waits : Fire(m, x) PROVE PeaceOK'
  <2>1. /\ stalls' = stalls /\ role' = role /\ check' = check
        /\ tracking' = tracking /\ strays' = strays
    BY <1>13 DEF Poll, SetTimers, Fire, electionVars
  <2> QED
    BY <2>1, <1>3
<1>14. ASSUME NEW x \in Waits, BeginWait(x) PROVE PeaceOK'
  BY <1>14, <1>3 DEF BeginWait, electionVars
<1> QED
  BY <1>4, <1>5, <1>6, <1>7, <1>8, <1>9, <1>10, <1>11, <1>12, <1>13, <1>14
     DEF TrackingNext, CheckOf

\* TrackingInv is kept by every step.
LEMMA TrackingInvNext == TrackingInv /\ [TrackingNext]_trackingVars => TrackingInv'
<1> SUFFICES ASSUME TrackingInv, [TrackingNext]_trackingVars PROVE TrackingInv'
  OBVIOUS
<1>1. ElectionInv'
  <2>1. [ElectionNext]_electionVars
    BY TrackingStepIsElectionStep DEF trackingVars, electionVars
  <2> QED
    BY <2>1, ElectionInvNext DEF TrackingInv
<1> DEFINE Rest == ContenderOK /\ UntrackedOK /\ TrackingOK /\ FollowsRole
<1>2. Rest'
  <2> USE DEF TrackingInv, ElectionInv, ElectionTypeOK, FreshOK, ContenderOK, UntrackedOK, TrackingOK,
              FollowsRole, BootStages, trackerVars
  <2>1. CASE UNCHANGED trackingVars
    <3>1. role' = role /\ boot' = boot /\ check' = check
      BY <2>1 DEF trackingVars, electionVars
    <3>2. tracking' = tracking /\ strays' = strays /\ uninformed' = uninformed
      BY <2>1 DEF trackingVars, waitVars
    <3> QED
      BY <3>1, <3>2
  <2>2. ASSUME NEW m \in Mains, BootQuietly(m) PROVE Rest'
    BY <2>2 DEF BootQuietly, Start, BootStep, waitVars
  <2>3. ASSUME NEW m \in Mains, InitTracker(m) PROVE Rest'
    BY <2>3 DEF InitTracker, BootStep, StartTracking
  <2>4. ASSUME NEW m \in Mains, CheckQuietly(m) PROVE Rest'
    <3>1. tracking' = tracking /\ strays' = strays /\ uninformed' = uninformed
      BY <2>4 DEF CheckQuietly, waitVars
    <3>2. CASE ReadKey(m)
      <4>1. /\ role' = role /\ boot' = boot
            /\ check' \in {[check EXCEPT ![m] = a] : a \in {"mine", "vacant", "other"}}
        BY <3>2 DEF ReadKey, Answered
      <4> QED
        BY <3>1, <4>1
    <3>3. CASE SetKey(m)
      <4>1. /\ role' = role /\ boot' = boot
            /\ check[m] = "trying"
            /\ check' \in {[check EXCEPT ![m] = a] : a \in {"won", "lost"}}
        BY <3>3 DEF SetKey, Answered
      <4> QED
        BY <3>1, <4>1
    <3>4. CASE Lose(m)
      BY <3>1, <3>4 DEF Lose, Conclude, Answered, Become
    <3>5. CASE Yield(m) /\ role[m] # "leader"
      <4>1. role' = role /\ boot' = boot /\ check' = [check EXCEPT ![m] = "none"]
        BY <3>5 DEF Yield, Answered, Become
      <4> QED
        BY <3>1, <4>1
    <3> QED
      BY <2>4, <3>2, <3>3, <3>4, <3>5 DEF CheckQuietly
  <2>5. ASSUME NEW m \in Mains, TakeOver(m) PROVE Rest'
    <3>1. /\ check[m] = "won"
          /\ check' = [check EXCEPT ![m] = "none"]
          /\ role' = [role EXCEPT ![m] = "leader"]
          /\ boot' = [boot EXCEPT ![m] = IF @ = "electing" THEN "elected" ELSE @]
      BY <2>5 DEF TakeOver, Win, Conclude, Answered, Become
    <3>2. CASE Hears(m)
      <4>1. /\ tracking' = [tracking EXCEPT ![m] = TRUE]
            /\ strays' \subseteq Mains
            /\ uninformed' = uninformed \ {m}
        BY <2>5, <3>2 DEF TakeOver, Heard, Unheard, StartTracking
      <4> QED
        BY <3>1, <3>2, <4>1 DEF Hears
    <3>3. CASE ~Hears(m)
      <4>1. /\ tracking' = tracking /\ strays' = strays
            /\ uninformed' = IF boot[m] = "tracked" THEN uninformed \cup {m} ELSE uninformed
        BY <2>5, <3>3 DEF TakeOver, Heard, Unheard
      <4> QED
        BY <3>1, <3>3, <4>1 DEF Hears
    <3> QED
      BY <3>2, <3>3
  <2>6. ASSUME NEW m \in Mains, StepDown(m) PROVE Rest'
    <3>1. /\ check' \in {[check EXCEPT ![m] = a] : a \in {"none", "trying"}}
          /\ role' = [role EXCEPT ![m] = "follower"]
          /\ boot' = boot
      BY <2>6 DEF StepDown, Compete, Yield, Answered, Become
    <3>2. CASE Hears(m)
      <4>1. /\ tracking' = [tracking EXCEPT ![m] = FALSE]
            /\ strays' = strays
            /\ uninformed' = uninformed \ {m}
        BY <2>6, <3>2 DEF StepDown, Heard, Unheard, StopTracking
      <4> QED
        BY <3>1, <3>2, <4>1 DEF Hears
    <3>3. CASE ~Hears(m)
      <4>1. /\ tracking' = tracking /\ strays' = strays
            /\ uninformed' = IF boot[m] = "tracked" THEN uninformed \cup {m} ELSE uninformed
        BY <2>6, <3>3 DEF StepDown, Heard, Unheard
      <4> QED
        BY <3>1, <3>3, <4>1 DEF Hears
    <3> QED
      BY <3>2, <3>3
  <2>7. ASSUME NEW m \in Mains, Reclaim(m) PROVE Rest'
    BY <2>7 DEF Reclaim, Renew, Answered, Become, Hears
  <2>8. ASSUME NEW m \in Mains, Leave(m) PROVE Rest'
    BY <2>8 DEF Leave, StopProcess, StopTracking
  <2>9. ASSUME NEW m \in Mains, ClearKey(m) /\ UNCHANGED waitVars PROVE Rest'
    <3>1. role' = role /\ boot' = [boot EXCEPT ![m] = "left"] /\ check' = check
      BY <2>9 DEF ClearKey
    <3>2. tracking' = tracking /\ strays' = strays /\ uninformed' = uninformed
      BY <2>9 DEF waitVars
    <3> QED
      BY <3>1, <3>2
  <2>10. ASSUME NEW m \in Mains, End(m) PROVE Rest'
    <3>1. /\ role' = [role EXCEPT ![m] = "unset"]
          /\ boot' = [boot EXCEPT ![m] = "down"]
          /\ check' = [check EXCEPT ![m] = "none"]
          /\ tracking' = [tracking EXCEPT ![m] = FALSE]
          /\ strays' = strays \ {m}
          /\ uninformed' = uninformed \ {m}
      BY <2>10 DEF End, Exit, Crash, Vanish
    <3> QED
      BY <3>1
  <2>11. ASSUME Expire \/ (\E m \in Mains : Stall(m)), UNCHANGED waitVars PROVE Rest'
    <3>1. role' = role /\ boot' = boot /\ check' = check
      BY <2>11 DEF Expire, Stall
    <3>2. tracking' = tracking /\ strays' = strays /\ uninformed' = uninformed
      BY <2>11 DEF waitVars
    <3> QED
      BY <3>1, <3>2
  <2>12. ASSUME NEW m \in Mains, Poll(m) \/ SetTimers(m) \/ \E x \in Waits : Fire(m, x) PROVE Rest'
    <3>1. role' = role /\ boot' = boot /\ check' = check
      BY <2>12 DEF Poll, SetTimers, Fire, electionVars
    <3>2. tracking' = tracking /\ strays' = strays /\ uninformed' = uninformed
      BY <2>12 DEF Poll, SetTimers, Fire
    <3> QED
      BY <3>1, <3>2
  <2>13. ASSUME NEW x \in Waits, BeginWait(x) PROVE Rest'
    BY <2>13 DEF BeginWait, electionVars
  <2> QED
    BY <2>1, <2>2, <2>3, <2>4, <2>5, <2>6, <2>7, <2>8, <2>9, <2>10, <2>11, <2>12, <2>13
       DEF TrackingNext, BootOf, CheckOf
<1>3. PeaceOK'
  BY PeaceOKNext
<1> QED
  BY <1>1, <1>2, <1>3 DEF TrackingInv

\* The mains that poll for waiting executions are the ones that think they
\* are leader, but for those no handler was told of a change.
THEOREM TracksAsLeaderHolds == TrackingSpec => []TracksAsLeader
<1>1. TrackingInv => TracksAsLeader
  BY DEF TrackingInv, FollowsRole, PeaceOK, TracksAsLeader
<1> QED
  BY <1>1, TrackingInvInit, TrackingInvNext, PTL DEF TrackingSpec

\* The wait trackers do not disturb the election.
THEOREM OneLeaderTracks == TrackingSpec => []OneLeader
BY TrackingIsElection, OneLeaderHolds, PTL

\* The types of what waits, of the answers of the database and of the timers.
TimerStates == {"no entry", "set", "cleared"}

WaitTypes ==
  /\ waited \subseteq Waits /\ waiting \subseteq waited
  /\ found \in [Mains -> SUBSET waited]
  /\ timer \in [Mains -> [Waits -> TimerStates]]

\* The steps of a tracker that change no row.
LEMMA TrackersKeepTypes ==
  ASSUME WaitTypes, waiting' = waiting, waited' = waited, NEW m \in Mains,
         \/ StartTracking(m) \/ StopTracking(m) \/ Poll(m) \/ SetTimers(m) \/ End(m)
         \/ UNCHANGED <<found, timer>>
  PROVE  WaitTypes'
<1>1. /\ \A x \in Waits : timer[m][x] \in TimerStates
      /\ found[m] \cup waiting \in SUBSET waited
  BY DEF WaitTypes
<1>2. CASE StartTracking(m) \/ Poll(m)
  BY <1>1, <1>2 DEF StartTracking, Poll, Query, WaitTypes
<1>3. CASE StopTracking(m)
  <2> DEFINE t == [x \in Waits |-> IF timer[m][x] = "set" THEN "cleared" ELSE timer[m][x]]
  <2>1. t \in [Waits -> TimerStates]
    BY <1>1 DEF TimerStates
  <2>2. timer' = [timer EXCEPT ![m] = t] /\ found' = found
    BY <1>3 DEF StopTracking, WaitTypes
  <2> HIDE DEF t
  <2> QED
    BY <2>1, <2>2 DEF WaitTypes
<1>4. CASE SetTimers(m)
  <2> DEFINE t == [x \in Waits |-> IF x \in found[m] /\ timer[m][x] = "no entry"
                                     THEN "set" ELSE timer[m][x]]
  <2>1. t \in [Waits -> TimerStates]
    BY <1>1 DEF TimerStates
  <2>2. timer' = [timer EXCEPT ![m] = t] /\ found' = [found EXCEPT ![m] = {}]
    BY <1>4 DEF SetTimers, WaitTypes
  <2> HIDE DEF t
  <2> QED
    BY <2>1, <2>2 DEF WaitTypes
<1>5. CASE End(m)
  <2>1. NoTimers \in [Waits -> TimerStates]
    BY DEF NoTimers, TimerStates
  <2> QED
    BY <1>5, <2>1 DEF End, WaitTypes
<1> QED
  BY <1>2, <1>3, <1>4, <1>5 DEF WaitTypes

LEMMA WaitTypesNext == WaitTypes /\ [TrackingNext]_trackingVars => WaitTypes'
<1> SUFFICES ASSUME WaitTypes, [TrackingNext]_trackingVars PROVE WaitTypes'
  OBVIOUS
<1>1. CASE UNCHANGED trackingVars
  BY <1>1 DEF trackingVars, waitVars, trackerVars, WaitTypes
<1>2. ASSUME UNCHANGED waitVars PROVE WaitTypes'
  BY <1>2 DEF waitVars, trackerVars, WaitTypes
<1>3. ASSUME NEW m \in Mains,
             \/ InitTracker(m) \/ TakeOver(m) \/ StepDown(m) \/ Reclaim(m) \/ Leave(m) \/ End(m)
             \/ Poll(m) \/ SetTimers(m)
      PROVE  WaitTypes'
  <2>1. waiting' = waiting /\ waited' = waited
    BY <1>3 DEF InitTracker, TakeOver, StepDown, Reclaim, Leave, End, Poll, SetTimers
  <2>2. \/ StartTracking(m) \/ StopTracking(m) \/ Poll(m) \/ SetTimers(m) \/ End(m)
        \/ UNCHANGED <<found, timer>>
    BY <1>3 DEF InitTracker, TakeOver, StepDown, Reclaim, Leave, Unheard, trackerVars
  <2> QED
    BY <2>1, <2>2, TrackersKeepTypes
<1>4. ASSUME NEW m \in Mains, NEW x \in Waits, Fire(m, x) PROVE WaitTypes'
  <2> DEFINE t == [timer[m] EXCEPT ![x] = "no entry"]
  <2>1. t \in [Waits -> TimerStates]
    BY DEF WaitTypes, TimerStates
  <2>2. timer' = [timer EXCEPT ![m] = t] /\ waiting' = waiting \ {x}
        /\ found' = found /\ waited' = waited
    BY <1>4 DEF Fire
  <2> HIDE DEF t
  <2> QED
    BY <2>1, <2>2 DEF WaitTypes
<1>5. ASSUME NEW x \in Waits, BeginWait(x) PROVE WaitTypes'
  BY <1>5 DEF BeginWait, trackerVars, WaitTypes
<1> QED
  BY <1>1, <1>2, <1>3, <1>4, <1>5 DEF TrackingNext, BootOf, BootQuietly, CheckOf, CheckQuietly

\* Every reachable state of the mains and their wait trackers has the right
\* types; no timer and no answer is about an execution that never waited.
THEOREM TrackingTypesHold == TrackingSpec => []TrackingTypeOK
<1>1. TrackingInit => WaitTypes
  <2>1. NoTimers \in [Waits -> TimerStates]
    BY DEF NoTimers, TimerStates
  <2> QED
    BY <2>1 DEF TrackingInit, WaitTypes
<1>2. TrackingInv /\ WaitTypes => TrackingTypeOK
  BY DEF TrackingInv, ElectionInv, TrackingOK, WaitTypes, TrackingTypeOK, TimerStates
<1> QED
  BY <1>1, <1>2, TrackingInvInit, TrackingInvNext, WaitTypesNext, PTL DEF TrackingSpec
=============================================================================

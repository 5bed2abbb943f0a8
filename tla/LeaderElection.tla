--------------------------- MODULE LeaderElection ---------------------------
(***************************************************************************)
(* Leadership in a multi-main setup (scaling/multi-main-setup.ee.ts): the  *)
(* mains of one n8n deployment contend for a key in Redis that expires     *)
(* unless its holder renews it, and each keeps its own opinion of its role.*)
(*                                                                         *)
(* Redis executes a command at once; its answer is handled by the main in  *)
(* a later step.  Redis is assumed to answer before the next check is due, *)
(* so a main has one check under way.                                      *)
(*                                                                         *)
(* A definition whose comment starts with SLIP is not part of the model:   *)
(* it is a mistake one could make in the code, to see a property fail.     *)
(***************************************************************************)
EXTENDS Naturals, FiniteSets

CONSTANTS
  Mains,
  HostIds,            \* what a restarted main finds its host id to be: "kept"
                      \* (the host name of a container) or "new"
  ChecksWhileBooting, \* whether a check may fall due before the event
                      \* handlers are registered
  MaxUpsets           \* how often a main crashes, is shut down or loses its key

ASSUME LeaderAssumption ==
  /\ HostIds \subseteq {"kept", "new"} /\ HostIds # {}
  /\ ChecksWhileBooting \in BOOLEAN
  /\ MaxUpsets \in Nat
  /\ {"no one", "former main"} \cap Mains = {}

VARIABLES
  key,    \* the value of main_instance_leader, a host id
  role,   \* InstanceSettings.instanceRole
  boot,   \* how far the start or the shutdown of each main is
  check,  \* the answer each main awaits or has to handle
  stalls,
  stops

electionVars == <<key, role, boot, check, stalls, stops>>

NoOne == "no one"

\* The host id of a process that is gone.
FormerMain == "former main"

\* electing: MultiMainSetup.init;       elected: the check interval is set
\* tracked: WaitTracker.init has run;   registered: event handlers registered
\* up: workflows are being activated;   leaving: stopProcess; left: key cleared
BootStages == {"down", "electing", "elected", "tracked", "registered", "up", "leaving", "left"}

Serving(m) == boot[m] \notin {"down", "left"}

\* The check interval is set, and checks fall due.
Checking(m) ==
  \/ boot[m] \in {"registered", "up", "leaving"}
  \/ ChecksWhileBooting /\ boot[m] \in {"elected", "tracked"}

ElectionInit ==
  /\ key = NoOne
  /\ role = [m \in Mains |-> "unset"]
  /\ boot = [m \in Mains |-> "down"]
  /\ check = [m \in Mains |-> "none"]
  /\ stalls = 0
  /\ stops = 0

-----------------------------------------------------------------------------
(***************************************************************************)
(* The process                                                             *)
(***************************************************************************)

\* MultiMainSetup.init, up to its call of tryBecomeLeader.
Start(m) ==
  /\ boot[m] = "down"
  /\ boot' = [boot EXCEPT ![m] = "electing"]
  /\ check' = [check EXCEPT ![m] = "trying"]
  /\ UNCHANGED <<key, role, stalls, stops>>

BootStep(m, from, to) ==
  /\ boot[m] = from
  /\ boot' = [boot EXCEPT ![m] = to]
  /\ UNCHANGED <<key, role, check, stalls, stops>>

\* SIGTERM
StopProcess(m) ==
  /\ stops + stalls < MaxUpsets
  /\ boot[m] = "up"
  /\ boot' = [boot EXCEPT ![m] = "leaving"]
  /\ stops' = stops + 1
  /\ UNCHANGED <<key, role, check, stalls>>

\* MultiMainSetup.shutdown
ClearKey(m) ==
  /\ boot[m] = "leaving"
  /\ boot' = [boot EXCEPT ![m] = "left"]
  /\ key' = IF role[m] = "leader" THEN NoOne ELSE key
  /\ UNCHANGED <<role, check, stalls, stops>>

\* The process ends.  An attempt to become leader that was sent may still
\* reach Redis.
Vanish(m) ==
  /\ \E last \in {key} \cup (IF check[m] = "trying" /\ key = NoOne THEN {m} ELSE {}) :
       key' \in IF last = m THEN {IF h = "kept" THEN m ELSE FormerMain : h \in HostIds} ELSE {last}
  /\ role' = [role EXCEPT ![m] = "unset"]
  /\ boot' = [boot EXCEPT ![m] = "down"]
  /\ check' = [check EXCEPT ![m] = "none"]

Exit(m) ==
  /\ boot[m] = "left"
  /\ Vanish(m)
  /\ UNCHANGED <<stalls, stops>>

Crash(m) ==
  /\ boot[m] # "down"
  /\ stops + stalls < MaxUpsets
  /\ stops' = stops + 1
  /\ Vanish(m)
  /\ UNCHANGED stalls

-----------------------------------------------------------------------------
(***************************************************************************)
(* tryBecomeLeader and checkLeader                                         *)
(***************************************************************************)

Answered(m, answer) == check' = [check EXCEPT ![m] = answer]

Become(m, newRole) == role' = [role EXCEPT ![m] = newRole]

\* SLIP: the key is taken from whoever holds it.
SetKeyAnyway(m) ==
  /\ check[m] = "trying"
  /\ key' = m
  /\ Answered(m, "won")
  /\ UNCHANGED <<role, boot, stalls, stops>>

\* SET key hostId EX ttl NX
SetKey(m) ==
  /\ check[m] = "trying"
  /\ \/ key = NoOne /\ key' = m /\ Answered(m, "won")
     \/ key # NoOne /\ Answered(m, "lost") /\ UNCHANGED key
  /\ UNCHANGED <<role, boot, stalls, stops>>

\* The rest of tryBecomeLeader.  In init it ends the election, and the check
\* interval is set.
Conclude(m, answer, newRole) ==
  /\ check[m] = answer
  /\ Answered(m, "none")
  /\ Become(m, newRole)
  /\ boot' = [boot EXCEPT ![m] = IF @ = "electing" THEN "elected" ELSE @]
  /\ UNCHANGED <<key, stalls, stops>>

\* leader-takeover is emitted
Win(m) == Conclude(m, "won", "leader")

Lose(m) == Conclude(m, "lost", "follower")

\* checkLeader: GET key
ReadKey(m) ==
  /\ Checking(m)
  /\ check[m] = "none"
  /\ Answered(m, CASE key = m -> "mine" [] key = NoOne -> "vacant" [] OTHER -> "other")
  /\ UNCHANGED <<key, role, boot, stalls, stops>>

\* The key is mine: become leader, without an event, and renew it.
Renew(m) ==
  /\ check[m] = "mine"
  /\ Answered(m, "none")
  /\ Become(m, "leader")
  /\ UNCHANGED <<key, boot, stalls, stops>>

\* SLIP: a leader that lost the key stays leader.
YieldToNobody(m) ==
  /\ check[m] = "other"
  /\ Answered(m, "none")
  /\ UNCHANGED <<key, role, boot, stalls, stops>>

\* Another main holds the key.  leader-stepdown is emitted by a leader.
Yield(m) ==
  /\ check[m] = "other"
  /\ Answered(m, "none")
  /\ Become(m, IF role[m] = "leader" THEN "follower" ELSE role[m])
  /\ UNCHANGED <<key, boot, stalls, stops>>

\* The key is vacant: leader-stepdown is emitted, whatever the role was.
Compete(m) ==
  /\ check[m] = "vacant"
  /\ Answered(m, "trying")
  /\ Become(m, "follower")
  /\ UNCHANGED <<key, boot, stalls, stops>>

\* A main relies on the key: it is leader, or about to be.
ReliesOnKey(m) ==
  /\ Serving(m)
  /\ role[m] = "leader" \/ check[m] \in {"won", "mine"}

\* The time to live of the key runs out; it outlasts three check intervals.
Expire ==
  /\ \A m \in Mains : m = key => ~ReliesOnKey(m)
  /\ key # NoOne
  /\ key' = NoOne
  /\ UNCHANGED <<role, boot, check, stalls, stops>>

\* A leader is too late to renew its key, or takes over a key its former
\* process has left just when it runs out.
Stall(m) ==
  /\ stops + stalls < MaxUpsets
  /\ key = m
  /\ ReliesOnKey(m)
  /\ key' = NoOne
  /\ stalls' = stalls + 1
  /\ UNCHANGED <<role, boot, check, stops>>

-----------------------------------------------------------------------------

Boots(m) ==
  \/ Start(m)
  \/ BootStep(m, "elected", "tracked")
  \/ BootStep(m, "tracked", "registered")
  \/ BootStep(m, "registered", "up")

Checks(m) == ReadKey(m) \/ Renew(m) \/ Yield(m) \/ Compete(m) \/ SetKey(m) \/ Win(m) \/ Lose(m)

Stops(m) == StopProcess(m) \/ ClearKey(m) \/ Exit(m) \/ Crash(m)

ElectionNext ==
  \/ \E m \in Mains : Boots(m) \/ Checks(m) \/ Stops(m) \/ Stall(m)
  \/ Expire

ElectionSpec == ElectionInit /\ [][ElectionNext]_electionVars

-----------------------------------------------------------------------------
(***************************************************************************)
(* Properties                                                              *)
(***************************************************************************)

\* The types of the state.
ElectionTypeOK ==
  /\ key \in Mains \cup {NoOne, FormerMain}
  /\ role \in [Mains -> {"unset", "leader", "follower"}]
  /\ boot \in [Mains -> BootStages]
  /\ check \in [Mains -> {"none", "trying", "won", "lost", "mine", "other", "vacant"}]
  /\ stalls \in Nat
  /\ stops \in Nat

Leaders == {m \in Mains : role[m] = "leader" /\ Serving(m)}

\* As long as leaders renew the key in time, no two mains that serve think
\* they are the leader, whatever crashes, restarts and shutdowns there are
\* and however old the answers are that they act on.
OneLeader == stalls = 0 => \A m, n \in Leaders : m = n
=============================================================================

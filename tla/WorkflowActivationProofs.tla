---------------------- MODULE WorkflowActivationProofs ----------------------
(***************************************************************************)
(* For any set of mains and any number of upsets: the trigger of a         *)
(* workflow listens where the leader is and in the version that is active, *)
(* but for activations that are crossed by something (SilentElsewhereHolds) *)
(***************************************************************************)
EXTENDS WorkflowActivation, SequenceTheorems, TLAPS

USE ActivationAssumption

Commands == {"add", "remove"}
AddCalls == [at : {"idle", "read", "webhooks", "trigger"}, version : Nat]
UserRequests == [at : {"idle", "remove", "removing", "store", "add", "adding"}, goal : Nat]
Queues == [version : Nat, timer : BOOLEAN]

\* Types.  Of listeners, which are sets of any records, it says no more than
\* that they are kept by main.
ActivationTypeOK ==
  /\ multi \in BOOLEAN
  /\ leader \in Mains \cup {NoLeader}
  /\ row \in Nat
  /\ user \in UserRequests
  /\ inbox \in [Mains -> Seq(Commands)]
  /\ add \in [Mains -> [Adding -> AddCalls]]
  /\ queued \in [Mains -> Queues]
  /\ entry = [m \in Mains |-> entry[m]]
  /\ listening = [m \in Mains |-> listening[m]]
  /\ remove = [m \in Mains |-> [k \in Removing |->
                 [at |-> remove[m][k].at, closing |-> remove[m][k].closing]]]
  /\ \A m \in Mains, k \in Removing : remove[m][k].at \in {"idle", "wait", "closing"}

\* Nothing is activated in version 0, which is no version.
VersionsAt(m) ==
  /\ \A k \in Adding : InFlight(m, k) => add[m][k].version # 0
  /\ \A l \in listening[m] : l.version \in Nat \ {0}
  /\ queued[m].timer => queued[m].version # 0
  /\ queued[m].version = 0 => queued[m] = NoQueue

\* Without several mains nothing happens but on the leader, and no commands
\* are sent.
AloneAt(m) ==
  ~multi =>
    /\ leader \in Mains
    /\ inbox[m] = <<>>
    /\ leader # m =>
         /\ listening[m] = {} /\ ~queued[m].timer
         /\ \A k \in Adding : add[m][k].at = "idle"
         /\ \A k \in Removing : remove[m][k] = NoRemoval

CrossedAt(m) == Crossed(m) => m \in astray

Removed(m) == \E k \in Removing : remove[m][k] # NoRemoval

\* A main that is not astray knows its listeners, whoever closes them closes
\* all of them, and it starts one only as leader.  The listeners it has are
\* being closed, or will be when the command comes, or listen in the active
\* version; while a change of the version is about to be stored, the last of
\* these does not do.
KeptAt(m) ==
  m \notin astray =>
    /\ entry[m] = listening[m]
    /\ \A k \in Removing : remove[m][k].at = "closing" => listening[m] \subseteq remove[m][k].closing
    /\ \A k \in Adding : add[m][k].at = "trigger" => leader = m
    /\ \A l \in listening[m] :
        \/ Removed(m)
        \/ leader = m /\ Contains(inbox[m], "remove")
        \/ leader = m /\ l.version = row /\ user.at # "store"

MainInv(m) == VersionsAt(m) /\ AloneAt(m) /\ CrossedAt(m) /\ KeptAt(m)

ActivationInv == ActivationTypeOK /\ \A m \in Mains : MainInv(m)

-----------------------------------------------------------------------------
\* A command that is on its way still is when others follow it.
LEMMA StillOnItsWay ==
  ASSUME NEW s \in Seq(Commands), NEW c \in Commands
  PROVE  /\ Append(s, c) \in Seq(Commands)
         /\ Contains(s, "remove") => Contains(Append(s, c), "remove")
         /\ Contains(Append(s, "remove"), "remove")
BY DEF Contains

\* It also is when another one has been delivered.
LEMMA StillAfterAnother ==
  ASSUME NEW s \in Seq(Commands), s # <<>>
  PROVE  /\ Tail(s) \in Seq(Commands) /\ Head(s) \in Commands
         /\ Contains(s, "remove") /\ Head(s) # "remove" => Contains(Tail(s), "remove")
<1>1. Tail(s) \in Seq(Commands) /\ Head(s) \in Commands
  OBVIOUS
<1>2. ASSUME Contains(s, "remove"), Head(s) # "remove" PROVE Contains(Tail(s), "remove")
  <2>1. PICK i \in 1 .. Len(s) : s[i] = "remove"
    BY <1>2 DEF Contains
  <2>2. i # 1 /\ i - 1 \in 1 .. Len(Tail(s)) /\ Tail(s)[i - 1] = s[i]
    BY <1>2, <2>1
  <2> QED
    BY <2>1, <2>2 DEF Contains
<1> QED
  BY <1>1, <1>2

\* Mark only adds mains that are astray, all that are crossed among them.
LEMMA MarkAdds ==
  ASSUME NEW M, Mark(M)
  PROVE  astray \subseteq astray' /\ M \subseteq astray' /\ \A m \in Mains : CrossedAt(m)'
BY DEF Mark, CrossedAt

\* What is under way on a main that is not astray meets nothing.
LEMMA AlikeAndAlone ==
  ASSUME ActivationInv, NEW m \in Mains, m \notin astray, NEW k \in Adding, InFlight(m, k)
  PROVE  add[m][k].version = row /\ row # 0 /\ ~Removed(m) /\ user.at # "store"
BY DEF ActivationInv, ActivationTypeOK, MainInv, VersionsAt, CrossedAt, Crossed, Removed

\* A call that begins, and one that has read the row.
LEMMA AddCallsOf ==
  /\ NoAdd = [at |-> "idle", version |-> 0]
  /\ [NoAdd EXCEPT !.at = "read"] = [at |-> "read", version |-> 0]
  /\ \A a \in {"idle", "read", "webhooks", "trigger"}, v \in Nat : [at |-> a, version |-> v] \in AddCalls
<1>1. NoAdd = [at |-> "idle", version |-> 0]
  BY DEF NoAdd
<1>2. [NoAdd EXCEPT !.at = "read"] = [at |-> "read", version |-> 0]
  BY DEF NoAdd
<1>4. \A a \in {"idle", "read", "webhooks", "trigger"}, v \in Nat : [at |-> a, version |-> v] \in AddCalls
  BY DEF AddCalls
<1> QED
  BY <1>1, <1>2, <1>4

-----------------------------------------------------------------------------
\* ActivationInv holds initially.
LEMMA ActivationInvInit == ActivationInit => ActivationInv
<1> SUFFICES ASSUME ActivationInit PROVE ActivationInv
  OBVIOUS
<1>1. ActivationTypeOK
  <2>1. add \in [Mains -> [Adding -> AddCalls]]
    <3>1. \A m \in Mains, k \in Adding :
            add[m][k] = [at |-> "idle", version |-> 0] \/ add[m][k] = [at |-> "read", version |-> 0]
      BY AddCallsOf DEF ActivationInit
    <3>2. \A m \in Mains, k \in Adding : add[m][k] \in AddCalls
      <4>1. [at |-> "idle", version |-> 0] \in AddCalls /\ [at |-> "read", version |-> 0] \in AddCalls
        BY AddCallsOf
      <4> QED
        BY <3>1, <4>1
    <3>3. add = [m \in Mains |-> [k \in Adding |-> add[m][k]]]
      BY DEF ActivationInit
    <3> QED
      BY <3>2, <3>3
  <2>2. /\ \A m \in Mains, k \in Removing : remove[m][k] = [at |-> "idle", closing |-> {}]
        /\ remove = [m \in Mains |-> [k \in Removing |->
                       [at |-> remove[m][k].at, closing |-> remove[m][k].closing]]]
    BY DEF ActivationInit, NoRemoval
  <2>3. /\ multi \in BOOLEAN
        /\ leader \in Mains \cup {NoLeader}
        /\ row \in Nat
    BY DEF ActivationInit
  <2>4. /\ user \in UserRequests
        /\ queued \in [Mains -> Queues]
    BY DEF ActivationInit, NoQueue, UserRequests, Queues
  <2>5. /\ inbox \in [Mains -> Seq(Commands)]
        /\ entry = [m \in Mains |-> entry[m]]
        /\ listening = [m \in Mains |-> listening[m]]
    BY DEF ActivationInit
  <2> QED
    BY <2>1, <2>2, <2>3, <2>4, <2>5 DEF ActivationTypeOK
<1>2. ASSUME NEW m \in Mains PROVE MainInv(m)
  <2>1. VersionsAt(m) /\ AloneAt(m) /\ CrossedAt(m)
    BY DEF ActivationInit, VersionsAt, AloneAt, CrossedAt, Crossed, InFlight, NoAdd, NoQueue, NoRemoval
  <2>2. KeptAt(m)
    BY DEF ActivationInit, KeptAt, NoAdd, NoRemoval
  <2> QED
    BY <2>1, <2>2 DEF MainInv
<1> QED
  BY <1>1, <1>2 DEF ActivationInv

-----------------------------------------------------------------------------
\* What a step does to the calls of add() and of those that remove.
AddIs(m, k, to) ==
  \A n \in Mains, j \in Adding : add'[n][j] = IF n = m /\ j = k THEN to ELSE add[n][j]

RemoveIs(m, k, to) ==
  \A n \in Mains, j \in Removing : remove'[n][j] = IF n = m /\ j = k THEN to ELSE remove[n][j]

\* SetAdd changes one call.
LEMMA SetAddDoes ==
  ASSUME ActivationTypeOK, NEW m \in Mains, NEW k \in Adding, NEW to \in AddCalls, SetAdd(m, k, to)
  PROVE  AddIs(m, k, to) /\ add' \in [Mains -> [Adding -> AddCalls]]
BY DEF ActivationTypeOK, SetAdd, AddIs

\* BeginPass begins a pass or does nothing.
LEMMA BeginPassDoes ==
  ASSUME ActivationTypeOK, NEW m \in Mains, BeginPass(m)
  PROVE  /\ add' \in [Mains -> [Adding -> AddCalls]]
         /\ \/ AddIs(m, "pass", [at |-> "read", version |-> 0])
            \/ UNCHANGED add
<1>1. CASE UNCHANGED add
  BY <1>1 DEF ActivationTypeOK
<1>2. CASE SetAdd(m, "pass", [at |-> "read", version |-> 0])
  <2>1. "pass" \in Adding /\ [at |-> "read", version |-> 0] \in AddCalls
    BY AddCallsOf DEF Adding
  <2> QED
    BY <1>2, <2>1, SetAddDoes
<1> QED
  BY <1>1, <1>2, AddCallsOf DEF BeginPass

\* Go activates as the role is.
LEMMA GoDoes ==
  ASSUME ActivationTypeOK, NEW m \in Mains, NEW k \in Adding, NEW v \in Nat, Go(m, k, v)
  PROVE  /\ add' \in [Mains -> [Adding -> AddCalls]]
         /\ \E a \in {"trigger", "webhooks"} :
              AddIs(m, k, [at |-> a, version |-> v]) /\ (a = "trigger" => leader = m)
<1> DEFINE a == IF leader = m THEN "trigger" ELSE "webhooks"
<1>1. SetAdd(m, k, [at |-> a, version |-> v])
  BY DEF Go
<1>2. a \in {"trigger", "webhooks"} /\ (a = "trigger" => leader = m)
  OBVIOUS
<1> HIDE DEF a
<1>3. [at |-> a, version |-> v] \in AddCalls
  BY <1>2, AddCallsOf
<1> QED
  BY <1>1, <1>2, <1>3, SetAddDoes

-----------------------------------------------------------------------------
\* The leader is the same, or there was none.
LeaderKept ==
  leader' = leader \/ (multi /\ leader = NoLeader /\ leader' \in Mains)

\* A command to remove the workflow that the leader is sent is still on its way.
InboxKept ==
  /\ inbox' \in [Mains -> Seq(Commands)]
  /\ \A n \in Mains :
       /\ leader = n /\ Contains(inbox[n], "remove") => Contains(inbox'[n], "remove")
       /\ ~multi => inbox'[n] = inbox[n]

\* All are on their way if nothing is sent or delivered.
LEMMA SameInbox ==
  ASSUME ActivationInv, UNCHANGED inbox
  PROVE  InboxKept
BY DEF InboxKept, ActivationInv, ActivationTypeOK

\* What no property speaks of may change, and commands for others be delivered.
LEMMA OthersKeep ==
  ASSUME ActivationInv, LeaderKept, InboxKept,
         UNCHANGED <<multi, row, user, add, remove, entry, listening, queued>>,
         NEW M, Mark(M)
  PROVE  ActivationInv'
<1>1. ActivationTypeOK'
  BY DEF ActivationInv, ActivationTypeOK, LeaderKept, InboxKept
<1>2. astray \subseteq astray' /\ \A n \in Mains : CrossedAt(n)'
  BY MarkAdds
<1>3. ASSUME NEW n \in Mains PROVE MainInv(n)'
  <2>1. VersionsAt(n)' /\ AloneAt(n)'
    BY DEF ActivationInv, MainInv, VersionsAt, AloneAt, InFlight, LeaderKept, InboxKept
  <2>2. leader = n => leader' = n
    BY ActivationAssumption DEF LeaderKept
  <2>3. KeptAt(n)'
    BY <1>2, <2>2 DEF ActivationInv, MainInv, KeptAt, Removed, InboxKept
  <2> QED
    BY <1>2, <2>1, <2>3 DEF MainInv
<1> QED
  BY <1>1, <1>3 DEF ActivationInv

\* All mains are sent a command.
Sends(c) == inbox' = [n \in Mains |-> Append(inbox[n], c)]

\* A command takes nothing away, and the one to remove the workflow lets it be
\* stored.
LEMMA SendingKeeps ==
  ASSUME ActivationInv, multi, NEW c \in Commands, Sends(c),
         UNCHANGED <<multi, leader, row, add, remove, entry, listening>>,
         user' \in UserRequests, user'.at = "store" => user.at = "store" \/ c = "remove",
         queued' \in [Mains -> Queues],
         \A n \in Mains : /\ queued'[n].timer => queued'[n].version # 0
                          /\ queued'[n].version = 0 => queued'[n] = NoQueue,
         NEW M, Mark(M)
  PROVE  ActivationInv'
<1>1. \A n \in Mains : inbox[n] \in Seq(Commands) /\ inbox'[n] = Append(inbox[n], c)
  BY DEF Sends, ActivationInv, ActivationTypeOK
<1>2. /\ \A n \in Mains : inbox'[n] \in Seq(Commands)
      /\ \A n \in Mains : Contains(inbox[n], "remove") \/ c = "remove" => Contains(inbox'[n], "remove")
  BY <1>1, StillOnItsWay
<1>3. ActivationTypeOK'
  <2>1. inbox' \in [Mains -> Seq(Commands)]
    BY <1>2 DEF Sends
  <2> QED
    BY <2>1 DEF ActivationInv, ActivationTypeOK
<1>4. astray \subseteq astray' /\ \A n \in Mains : CrossedAt(n)'
  BY MarkAdds
<1>5. ASSUME NEW n \in Mains PROVE MainInv(n)'
  <2>1. VersionsAt(n)' /\ AloneAt(n)'
    BY DEF ActivationInv, MainInv, VersionsAt, AloneAt, InFlight
  <2>2. KeptAt(n)'
    BY <1>2, <1>4 DEF ActivationInv, MainInv, KeptAt, Removed
  <2> QED
    BY <1>4, <2>1, <2>2 DEF MainInv
<1> QED
  BY <1>3, <1>5 DEF ActivationInv

\* The parts of ActivationInv that speak of one main only change with what
\* that main does.  Here it is a call of add() that changes, and no listener.
LEMMA AddingKeeps ==
  ASSUME ActivationInv, NEW m \in Mains, NEW k \in Adding, NEW to \in AddCalls,
         AddIs(m, k, to), add' \in [Mains -> [Adding -> AddCalls]],
         to.at \in {"webhooks", "trigger"} => to.version # 0,
         to.at = "trigger" => leader = m,
         to.at # "idle" => Runs(m),
         LeaderKept, InboxKept,
         UNCHANGED <<multi, remove, entry, listening>>,
         row' = row \/ \A n \in Mains : listening[n] # {} => n \in astray',
         row' \in Nat,
         user' \in UserRequests,
         user'.at = "store" => user.at = "store",
         queued' \in [Mains -> Queues],
         \A n \in Mains \ {m} : queued'[n] = queued[n],
         queued'[m].timer => queued'[m].version # 0 /\ Runs(m),
         queued'[m].version = 0 => queued'[m] = NoQueue,
         NEW M, Mark(M)
  PROVE  ActivationInv'
<1> USE DEF ActivationInv
<1>1. ActivationTypeOK'
  BY DEF ActivationTypeOK, LeaderKept, InboxKept
<1>2. astray \subseteq astray' /\ \A n \in Mains : CrossedAt(n)'
  BY MarkAdds
<1>3. ASSUME NEW n \in Mains PROVE MainInv(n)'
  <2>1. VersionsAt(n)'
    <3>1. \A j \in Adding : InFlight(n, j)' => add'[n][j].version # 0
      BY DEF AddIs, MainInv, VersionsAt, InFlight
    <3>2. /\ queued'[n].timer => queued'[n].version # 0
          /\ queued'[n].version = 0 => queued'[n] = NoQueue
      BY DEF MainInv, VersionsAt
    <3> QED
      BY <3>1, <3>2 DEF MainInv, VersionsAt
  <2>2. AloneAt(n)'
    <3>1. AloneAt(n) /\ AloneAt(m)
      BY DEF MainInv
    <3>2. CASE n = m
      BY <3>1, <3>2 DEF AloneAt, AddIs, Runs, LeaderKept, InboxKept
    <3>3. CASE n # m
      BY <3>1, <3>3 DEF AloneAt, AddIs, LeaderKept, InboxKept
    <3> QED
      BY <3>2, <3>3
  <2>3. KeptAt(n)'
    <3> SUFFICES ASSUME n \notin astray' PROVE KeptAt(n)'
      BY DEF KeptAt
    <3>1. n \notin astray /\ KeptAt(n)
      BY <1>2 DEF MainInv
    <3>2. \A j \in Adding : add'[n][j].at = "trigger" => leader = n
      BY <3>1 DEF AddIs, KeptAt
    <3>3. \A l \in listening[n] : row' = row
      OBVIOUS
    <3>4. leader = n => leader' = n
      BY ActivationAssumption DEF LeaderKept
    <3> QED
      BY <3>1, <3>2, <3>3, <3>4 DEF KeptAt, Removed, InboxKept
  <2> QED
    BY <1>2, <2>1, <2>2, <2>3 DEF MainInv
<1> QED
  BY <1>1, <1>3

\* A pass begins, or does not because there is one.
LEMMA PassKeeps ==
  ASSUME ActivationInv, NEW m \in Mains, BeginPass(m), Runs(m), LeaderKept,
         UNCHANGED <<multi, row, user, inbox, remove, entry, listening, queued>>,
         NEW M, Mark(M)
  PROVE  ActivationInv'
<1> DEFINE to == [at |-> "read", version |-> 0]
<1>1. to \in AddCalls /\ "pass" \in Adding /\ to.at = "read"
  BY AddCallsOf DEF Adding
<1>2. add' \in [Mains -> [Adding -> AddCalls]] /\ (AddIs(m, "pass", to) \/ UNCHANGED add)
  BY BeginPassDoes DEF ActivationInv
<1> HIDE DEF to
<1>3. CASE AddIs(m, "pass", to)
  <2>1. /\ queued[m].timer => queued[m].version # 0
        /\ queued[m].version = 0 => queued[m] = NoQueue
    BY DEF ActivationInv, MainInv, VersionsAt
  <2>2. row \in Nat /\ user \in UserRequests /\ queued \in [Mains -> Queues]
    BY DEF ActivationInv, ActivationTypeOK
  <2> QED
    BY <1>1, <1>2, <1>3, <2>1, <2>2, SameInbox, AddingKeeps
<1>4. CASE UNCHANGED add
  BY <1>4, SameInbox, OthersKeep
<1> QED
  BY <1>2, <1>3, <1>4

\* ActivationInv is kept by the start of a main, and by one that becomes leader.
LEMMA StartUpKeeps ==
  ASSUME ActivationInv, NEW m \in Mains, StartUp(m) \/ TakeOver(m)
  PROVE  ActivationInv'
<1>1. BeginPass(m) /\ Runs(m) /\ LeaderKept /\ Mark({})
  BY DEF StartUp, TakeOver, Runs, LeaderKept
<1>2. UNCHANGED <<multi, row, user, inbox, remove, entry, listening, queued>>
  BY DEF StartUp, TakeOver, userVars, memory
<1> QED
  BY <1>1, <1>2, PassKeeps

\* The requests of users that UserAdded leaves.
LEMMA UserAddedDoes ==
  ASSUME ActivationInv, NEW k, UserAdded(k)
  PROVE  user' \in UserRequests /\ (user'.at = "store" => user.at = "store")
BY DEF UserAdded, ActivationInv, ActivationTypeOK, UserRequests

\* What ActivationInv says of a call that has begun.
LEMMA CallsRun ==
  ASSUME ActivationInv, NEW m \in Mains
  PROVE  /\ \A k \in Adding : add[m][k].at # "idle" => Runs(m)
         /\ \A k \in Removing : remove[m][k] # NoRemoval => Runs(m)
         /\ listening[m] # {} \/ queued[m].timer => Runs(m)
         /\ queued[m].timer => queued[m].version # 0
         /\ queued[m].version = 0 => queued[m] = NoQueue
         /\ NoAdd \in AddCalls /\ NoQueue \in Queues
         /\ row \in Nat /\ user \in UserRequests
         /\ queued \in [Mains -> Queues]
         /\ add \in [Mains -> [Adding -> AddCalls]]
         /\ UNCHANGED leader => LeaderKept
         /\ UNCHANGED inbox => InboxKept
<1>1. NoAdd \in AddCalls /\ NoQueue \in Queues
  BY AddCallsOf DEF Queues, NoQueue
<1> QED
  BY <1>1, SameInbox DEF ActivationInv, ActivationTypeOK, MainInv, VersionsAt, AloneAt, Runs, LeaderKept

\* ActivationInv is kept when the row is read.
LEMMA ReadKeeps ==
  ASSUME ActivationInv, NEW m \in Mains, NEW k \in Adding, Read(m, k)
  PROVE  ActivationInv'
<1>1. /\ add[m][k].at = "read" /\ Mark({})
      /\ UNCHANGED <<multi, leader, row, inbox, remove, entry, listening, queued>>
  BY DEF Read, mainVars, memory
<1>2. Runs(m)
  BY <1>1, CallsRun
<1>3. CASE row # 0 /\ Go(m, k, row) /\ UNCHANGED user
  <2>1. PICK a \in {"trigger", "webhooks"} :
          /\ AddIs(m, k, [at |-> a, version |-> row]) /\ (a = "trigger" => leader = m)
          /\ add' \in [Mains -> [Adding -> AddCalls]]
    BY <1>3, CallsRun, GoDoes DEF ActivationInv
  <2> DEFINE to == [at |-> a, version |-> row]
  <2>2. to \in AddCalls /\ to.at = a /\ to.version = row /\ AddIs(m, k, to)
    BY <2>1, CallsRun, AddCallsOf
  <2> HIDE DEF to
  <2> QED
    BY <1>1, <1>2, <1>3, <2>1, <2>2, CallsRun, AddingKeeps
<1>4. CASE row = 0 /\ SetAdd(m, k, NoAdd) /\ UserAdded(k)
  <2>1. AddIs(m, k, NoAdd) /\ add' \in [Mains -> [Adding -> AddCalls]] /\ NoAdd \in AddCalls /\ NoAdd.at = "idle"
    BY <1>4, CallsRun, SetAddDoes, AddCallsOf DEF ActivationInv
  <2> QED
    BY <1>1, <1>2, <1>4, <2>1, CallsRun, UserAddedDoes, AddingKeeps
<1> QED
  BY <1>3, <1>4 DEF Read

\* ActivationInv is kept by the end of an activation without the trigger.
LEMMA AddWebhooksKeeps ==
  ASSUME ActivationInv, NEW m \in Mains, NEW k \in Adding, AddWebhooks(m, k)
  PROVE  ActivationInv'
<1>1. /\ SetAdd(m, k, NoAdd) /\ UserAdded(k) /\ Mark({})
      /\ queued' = [queued EXCEPT ![m] = NoQueue]
      /\ UNCHANGED <<multi, leader, row, inbox, remove, entry, listening>>
  BY DEF AddWebhooks, Activated, mainVars
<1>2. AddIs(m, k, NoAdd) /\ add' \in [Mains -> [Adding -> AddCalls]] /\ NoAdd \in AddCalls /\ NoAdd.at = "idle"
  BY <1>1, CallsRun, SetAddDoes, AddCallsOf DEF ActivationInv
<1>3. /\ queued' \in [Mains -> Queues] /\ queued'[m] = NoQueue /\ ~NoQueue.timer
      /\ \A n \in Mains \ {m} : queued'[n] = queued[n]
  BY <1>1, CallsRun DEF NoQueue
<1> QED
  BY <1>1, <1>2, <1>3, CallsRun, UserAddedDoes, AddingKeeps

\* ActivationInv is kept by an activation that fails.
LEMMA FailAddKeeps ==
  ASSUME ActivationInv, NEW m \in Mains, NEW k \in Adding, FailAdd(m, k)
  PROVE  ActivationInv'
<1> DEFINE M == IF k = "request" THEN {n \in Mains : listening[n] # {}} ELSE {}
           q == CASE k = "pass" -> [version |-> add[m][k].version, timer |-> TRUE]
                  [] k = "retry" /\ queued[m] # NoQueue -> [queued[m] EXCEPT !.timer = TRUE]
                  [] OTHER -> queued[m]
<1>1. /\ SetAdd(m, k, NoAdd) /\ UserAdded(k) /\ Mark(M)
      /\ queued' = [queued EXCEPT ![m] = q]
      /\ row' = IF k = "request" THEN 0 ELSE row
      /\ UNCHANGED <<multi, leader, inbox, remove, entry, listening>>
      /\ InFlight(m, k)
  BY DEF FailAdd, mainVars, InFlight
<1>2. AddIs(m, k, NoAdd) /\ add' \in [Mains -> [Adding -> AddCalls]] /\ NoAdd \in AddCalls /\ NoAdd.at = "idle"
  BY <1>1, CallsRun, SetAddDoes, AddCallsOf DEF ActivationInv
<1>3. add[m][k].version \in Nat \ {0} /\ Runs(m)
  BY <1>1, CallsRun DEF ActivationInv, MainInv, VersionsAt, InFlight, AddCalls
<1>4. q \in Queues /\ (q.version = 0 => q = NoQueue) /\ (q.timer => q.version # 0)
  <2>1. queued[m] \in Queues
    BY CallsRun
  <2>2. CASE k = "pass"
    BY <1>3, <2>2 DEF Queues
  <2>3. CASE k = "retry" /\ queued[m] # NoQueue
    BY <2>1, <2>3, CallsRun DEF Queues
  <2>4. CASE k # "pass" /\ ~(k = "retry" /\ queued[m] # NoQueue)
    BY <2>1, <2>4, CallsRun
  <2> QED
    BY <2>2, <2>3, <2>4
<1>5. row' = row \/ \A n \in Mains : listening[n] # {} => n \in astray'
  <2>1. M \subseteq astray'
    BY <1>1, MarkAdds
  <2> QED
    BY <1>1, <2>1
<1>6. row' \in Nat
  BY <1>1, CallsRun
<1> HIDE DEF M, q
<1>7. /\ queued' \in [Mains -> Queues] /\ queued'[m] = q
      /\ \A n \in Mains \ {m} : queued'[n] = queued[n]
  BY <1>1, <1>4, CallsRun
<1>8. LeaderKept /\ InboxKept
  BY <1>1, CallsRun
<1> QED
  BY <1>1, <1>2, <1>3, <1>4, <1>5, <1>6, <1>7, <1>8, UserAddedDoes, AddingKeeps

\* ActivationInv is kept by a retry.
LEMMA RetryKeeps ==
  ASSUME ActivationInv, NEW m \in Mains, Retry(m)
  PROVE  ActivationInv'
<1>1. /\ queued[m].timer /\ Mark({}) /\ Runs(m)
      /\ queued' = [queued EXCEPT ![m].timer = FALSE]
      /\ UNCHANGED <<multi, leader, row, user, remove, entry, listening>>
  BY CallsRun DEF Retry, mainVars, userVars
<1>2. /\ queued' \in [Mains -> Queues] /\ queued[m].version \in Nat \ {0}
      /\ ~queued'[m].timer /\ queued'[m].version = queued[m].version
      /\ \A n \in Mains \ {m} : queued'[n] = queued[n]
  BY <1>1, CallsRun DEF Queues
<1>3. CASE ~multi
  <2>1. Go(m, "retry", queued[m].version) /\ UNCHANGED inbox /\ "retry" \in Adding
    BY <1>3 DEF Retry, Adding
  <2>2. PICK a \in {"trigger", "webhooks"} :
          /\ AddIs(m, "retry", [at |-> a, version |-> queued[m].version]) /\ (a = "trigger" => leader = m)
          /\ add' \in [Mains -> [Adding -> AddCalls]]
    BY <1>2, <2>1, GoDoes DEF ActivationInv
  <2> DEFINE to == [at |-> a, version |-> queued[m].version]
  <2>3. to \in AddCalls /\ to.at = a /\ to.version = queued[m].version /\ AddIs(m, "retry", to)
    BY <1>2, <2>2, AddCallsOf
  <2> HIDE DEF to
  <2> QED
    BY <1>1, <1>2, <2>1, <2>2, <2>3, CallsRun, AddingKeeps
<1>4. CASE multi
  <2>1. Sends("add") /\ UNCHANGED add /\ "add" \in Commands
    BY <1>4 DEF Retry, Sends, Commands
  <2>2. \A n \in Mains : /\ queued'[n].timer => queued'[n].version # 0
                         /\ queued'[n].version = 0 => queued'[n] = NoQueue
    BY <1>2, CallsRun
  <2> QED
    BY <1>1, <1>2, <1>4, <2>1, <2>2, CallsRun, SendingKeeps
<1> QED
  BY <1>3, <1>4, CallsRun DEF ActivationInv, ActivationTypeOK

\* ActivationInv is kept by the start of the trigger: it is alone if the main
\* is not astray.
LEMMA RegisterKeeps ==
  ASSUME ActivationInv, NEW m \in Mains, NEW k \in Adding, Register(m, k)
  PROVE  ActivationInv'
<1>1. PICK new : /\ listening' = [listening EXCEPT ![m] = @ \cup {new}]
                 /\ entry' = [entry EXCEPT ![m] = {new}]
                 /\ new.version = add[m][k].version
  <2> DEFINE free == {i \in 1 .. MaxListeners : \A l \in listening[m] : l.id # i}
             one  == [id |-> Min(free), version |-> add[m][k].version]
  <2>1. /\ listening' = [listening EXCEPT ![m] = @ \cup {one}]
        /\ entry' = [entry EXCEPT ![m] = {one}]
    BY DEF Register
  <2>2. one.version = add[m][k].version
    OBVIOUS
  <2> HIDE DEF one
  <2> QED
    BY <2>1, <2>2
<1>2. /\ SetAdd(m, k, NoAdd) /\ UserAdded(k) /\ queued' = [queued EXCEPT ![m] = NoQueue]
      /\ UNCHANGED <<multi, leader, row, inbox, remove>>
      /\ Mark(IF entry[m] = {} THEN {} ELSE {m})
      /\ add[m][k].at = "trigger" /\ InFlight(m, k)
  BY DEF Register, Activated, mainVars, InFlight
<1>3. AddIs(m, k, NoAdd) /\ add' \in [Mains -> [Adding -> AddCalls]] /\ NoAdd.at = "idle"
  BY <1>2, CallsRun, SetAddDoes, AddCallsOf DEF ActivationInv
<1>4. /\ queued' \in [Mains -> Queues] /\ queued'[m] = NoQueue /\ ~NoQueue.timer
      /\ \A n \in Mains \ {m} : queued'[n] = queued[n]
  BY <1>2, CallsRun DEF NoQueue
<1>5. /\ entry'[m] = {new} /\ listening'[m] = listening[m] \cup {new}
      /\ \A n \in Mains \ {m} : entry'[n] = entry[n] /\ listening'[n] = listening[n]
      /\ entry' = [n \in Mains |-> entry'[n]]
      /\ listening' = [n \in Mains |-> listening'[n]]
  BY <1>1 DEF ActivationInv, ActivationTypeOK
<1>6. ActivationTypeOK'
  BY <1>2, <1>3, <1>4, <1>5, UserAddedDoes DEF ActivationInv, ActivationTypeOK
<1>7. /\ \A n \in Mains : CrossedAt(n)'
      /\ astray \subseteq astray' /\ (m \notin astray' => entry[m] = {})
  BY <1>2, MarkAdds
<1>8. m \notin astray => new.version = row /\ row # 0 /\ ~Removed(m) /\ user.at # "store"
  BY <1>1, <1>2, AlikeAndAlone
<1>9. new.version \in Nat \ {0} /\ Runs(m)
  BY <1>1, <1>2, CallsRun DEF ActivationInv, MainInv, VersionsAt, AddCalls
<1>10. ASSUME NEW n \in Mains PROVE MainInv(n)'
  <2>1. VersionsAt(n)'
    <3>1. \A j \in Adding : InFlight(n, j)' => add'[n][j].version # 0
      BY <1>3 DEF AddIs, ActivationInv, MainInv, VersionsAt, InFlight
    <3>2. /\ queued'[n].timer => queued'[n].version # 0
          /\ queued'[n].version = 0 => queued'[n] = NoQueue
      BY <1>4, CallsRun
    <3>3. \A l \in listening'[n] : l.version \in Nat \ {0}
      BY <1>5, <1>9 DEF ActivationInv, MainInv, VersionsAt
    <3> QED
      BY <3>1, <3>2, <3>3 DEF VersionsAt
  <2>2. AloneAt(n)'
    <3>1. CASE n = m
      BY <1>2, <1>9, <3>1 DEF AloneAt, Runs, ActivationInv, MainInv
    <3>2. CASE n # m
      BY <1>2, <1>3, <1>4, <1>5, <3>2 DEF AloneAt, AddIs, ActivationInv, MainInv
    <3> QED
      BY <3>1, <3>2
  <2>3. KeptAt(n)'
    <3> SUFFICES ASSUME n \notin astray' PROVE KeptAt(n)'
      BY DEF KeptAt
    <3>1. n \notin astray /\ KeptAt(n)
      BY <1>7 DEF ActivationInv, MainInv
    <3>2. user'.at = "store" => user.at = "store"
      BY <1>2, UserAddedDoes
    <3>3. \A j \in Adding : add'[n][j].at = "trigger" => leader = n
      BY <1>3, <3>1 DEF AddIs, KeptAt
    <3>4. CASE n = m
      <4>1. entry[m] = {} /\ listening[m] = {}
        BY <1>7, <3>1, <3>4 DEF KeptAt
      <4>2. \A j \in Removing : remove[m][j].at # "closing"
        BY <1>8, <3>1, <3>4 DEF Removed, NoRemoval
      <4>3. leader = m
        BY <1>2, <3>1, <3>4 DEF KeptAt
      <4> QED
        BY <1>2, <1>5, <1>8, <3>1, <3>2, <3>3, <3>4, <4>1, <4>2, <4>3 DEF KeptAt
    <3>5. CASE n # m
      BY <1>2, <1>5, <3>1, <3>2, <3>3, <3>5 DEF KeptAt, Removed
    <3> QED
      BY <3>4, <3>5
  <2> QED
    BY <1>7, <2>1, <2>2, <2>3 DEF MainInv
<1> QED
  BY <1>6, <1>10 DEF ActivationInv

-----------------------------------------------------------------------------
\* The calls that remove the workflow, changed in one place.
LEMMA RemoveDoes ==
  ASSUME ActivationInv, NEW m \in Mains, NEW k \in Removing, NEW a \in {"idle", "wait", "closing"}, NEW c,
         remove' = [remove EXCEPT ![m][k] = [at |-> a, closing |-> c]]
  PROVE  /\ RemoveIs(m, k, [at |-> a, closing |-> c])
         /\ remove' = [n \in Mains |-> [j \in Removing |->
                         [at |-> remove'[n][j].at, closing |-> remove'[n][j].closing]]]
         /\ \A n \in Mains, j \in Removing : remove'[n][j].at \in {"idle", "wait", "closing"}
<1>1. RemoveIs(m, k, [at |-> a, closing |-> c])
  BY DEF RemoveIs, ActivationInv, ActivationTypeOK
<1>2. remove' = [n \in Mains |-> [j \in Removing |-> remove'[n][j]]]
  BY DEF ActivationInv, ActivationTypeOK
<1>3. \A n \in Mains, j \in Removing :
        /\ remove'[n][j] = [at |-> remove'[n][j].at, closing |-> remove'[n][j].closing]
        /\ remove'[n][j].at \in {"idle", "wait", "closing"}
  <2>1. \A n \in Mains, j \in Removing :
          /\ remove[n][j] = [at |-> remove[n][j].at, closing |-> remove[n][j].closing]
          /\ remove[n][j].at \in {"idle", "wait", "closing"}
    BY DEF ActivationInv, ActivationTypeOK
  <2> QED
    BY <1>1, <2>1 DEF RemoveIs
<1>4. \A n \in Mains :
        [j \in Removing |-> remove'[n][j]] =
          [j \in Removing |-> [at |-> remove'[n][j].at, closing |-> remove'[n][j].closing]]
  BY <1>3
<1>5. [n \in Mains |-> [j \in Removing |-> remove'[n][j]]] =
        [n \in Mains |-> [j \in Removing |->
          [at |-> remove'[n][j].at, closing |-> remove'[n][j].closing]]]
  BY <1>4
<1> QED
  BY <1>1, <1>2, <1>3, <1>5

\* A removal begins on a main, which may step down by it.  If there is nothing
\* to close there is nothing that listens, unless the main is astray.
LEMMA ClosingKeeps ==
  ASSUME ActivationInv, NEW m \in Mains, NEW k \in Removing, Runs(m),
         remove' = [remove EXCEPT ![m][k] = Closing(m)],
         UNCHANGED <<multi, row, inbox, add, entry, listening>>,
         \/ leader' = leader
         \/ /\ multi /\ leader = m /\ leader' = NoLeader
            /\ \A j \in Adding : add[m][j].at = "trigger" => m \in astray',
         user' \in UserRequests,
         user'.at = "store" => user.at = "store" \/ (~multi /\ entry[m] = {}),
         queued' \in [Mains -> Queues],
         \A n \in Mains : /\ queued'[n].timer => queued'[n].version # 0 /\ Runs(n)
                          /\ queued'[n].version = 0 => queued'[n] = NoQueue,
         NEW M, Mark(M)
  PROVE  ActivationInv'
<1> DEFINE a == IF entry[m] = {} THEN "idle" ELSE "closing"
<1>1. PICK c : Closing(m) = [at |-> a, closing |-> c] /\ (entry[m] # {} => c = entry[m])
  BY DEF Closing, NoRemoval
<1>2. a \in {"idle", "closing"} /\ (a = "idle" <=> entry[m] = {})
  OBVIOUS
<1> HIDE DEF a
<1>3. /\ RemoveIs(m, k, [at |-> a, closing |-> c])
      /\ remove' = [n \in Mains |-> [j \in Removing |->
                      [at |-> remove'[n][j].at, closing |-> remove'[n][j].closing]]]
      /\ \A n \in Mains, j \in Removing : remove'[n][j].at \in {"idle", "wait", "closing"}
  BY <1>1, <1>2, RemoveDoes
<1>4. ActivationTypeOK'
  BY <1>3 DEF ActivationInv, ActivationTypeOK
<1>5. astray \subseteq astray' /\ \A n \in Mains : CrossedAt(n)'
  BY MarkAdds
<1>6. ASSUME NEW n \in Mains PROVE MainInv(n)'
  <2>1. VersionsAt(n)'
    BY DEF ActivationInv, MainInv, VersionsAt, InFlight
  <2>2. AloneAt(n)'
    <3>1. CASE n = m
      BY <3>1 DEF AloneAt, Runs, ActivationInv, MainInv
    <3>2. CASE n # m
      BY <1>3, <3>2 DEF AloneAt, RemoveIs, ActivationInv, MainInv, Runs
    <3> QED
      BY <3>1, <3>2
  <2>3. KeptAt(n)'
    <3> SUFFICES ASSUME n \notin astray' PROVE KeptAt(n)'
      BY DEF KeptAt
    <3>1. n \notin astray /\ KeptAt(n)
      BY <1>5 DEF ActivationInv, MainInv
    <3>2. \A j \in Adding : add[n][j].at = "trigger" => leader' = n
      BY <3>1, ActivationAssumption DEF KeptAt
    <3>3. \A j \in Removing : remove'[n][j].at = "closing" => listening[n] \subseteq remove'[n][j].closing
      BY <1>1, <1>2, <1>3, <3>1 DEF RemoveIs, KeptAt
    <3>4. CASE n = m
      <4>1. listening[m] # {} => Removed(m)'
        BY <1>2, <1>3, <3>1, <3>4 DEF KeptAt, Removed, RemoveIs, NoRemoval
      <4> QED
        BY <3>1, <3>2, <3>3, <3>4, <4>1 DEF KeptAt
    <3>5. CASE n # m
      <4>1. Removed(n)' <=> Removed(n)
        BY <1>3, <3>5 DEF Removed, RemoveIs
      <4>2. leader = n => leader' = n
        BY <3>5
      <4>3. user'.at = "store" /\ listening[n] # {} => user.at = "store"
        BY <3>5 DEF Runs, ActivationInv, MainInv, AloneAt
      <4> QED
        BY <3>1, <3>2, <3>3, <4>1, <4>2, <4>3 DEF KeptAt
    <3> QED
      BY <3>4, <3>5
  <2> QED
    BY <1>5, <2>1, <2>2, <2>3 DEF MainInv
<1> QED
  BY <1>4, <1>6 DEF ActivationInv

\* ActivationInv is kept by removals that begin to close, and by a stepdown.
LEMMA BeginKeeps ==
  ASSUME ActivationInv, NEW m \in Mains, BeginRemoval(m) \/ EmitError(m) \/ StepDown(m)
  PROVE  ActivationInv'
<1>1. \A n \in Mains : /\ queued[n].timer => queued[n].version # 0 /\ Runs(n)
                       /\ queued[n].version = 0 => queued[n] = NoQueue
  BY CallsRun
<1>2. CASE BeginRemoval(m)
  <2>1. Runs(m) /\ "request" \in Removing
    BY <1>2, CallsRun DEF BeginRemoval, NoRemoval, Removing
  <2>2. /\ remove' = [remove EXCEPT ![m]["request"] = Closing(m)] /\ Mark({})
        /\ UNCHANGED <<multi, leader, row, inbox, add, entry, listening>>
    BY <1>2 DEF BeginRemoval, mainVars
  <2>3. /\ user' \in UserRequests
        /\ user'.at = "store" => user.at = "store" \/ (~multi /\ entry[m] = {})
    BY <1>2, CallsRun DEF BeginRemoval, UserRequests
  <2>4. queued' = queued \/ queued' = [queued EXCEPT ![m] = NoQueue]
    BY <1>2 DEF BeginRemoval
  <2>5. /\ queued' \in [Mains -> Queues]
        /\ \A n \in Mains : queued'[n] = queued[n] \/ queued'[n] = NoQueue
    BY <2>4, CallsRun
  <2>6. \A n \in Mains : /\ queued'[n].timer => queued'[n].version # 0 /\ Runs(n)
                         /\ queued'[n].version = 0 => queued'[n] = NoQueue
    BY <1>1, <2>5 DEF NoQueue
  <2> QED
    BY <2>1, <2>2, <2>3, <2>5, <2>6, ClosingKeeps
<1>3. CASE EmitError(m)
  <2>1. PICK l \in listening[m] : queued' = [queued EXCEPT ![m] = [version |-> l.version, timer |-> TRUE]]
    BY <1>3 DEF EmitError
  <2>2. Runs(m) /\ "error" \in Removing /\ l.version \in Nat \ {0}
    BY CallsRun DEF Removing, ActivationInv, MainInv, VersionsAt
  <2>3. /\ remove' = [remove EXCEPT ![m]["error"] = Closing(m)] /\ Mark({})
        /\ UNCHANGED <<multi, leader, row, user, inbox, add, entry, listening>>
    BY <1>3 DEF EmitError, mainVars, userVars
  <2>4. /\ queued' \in [Mains -> Queues]
        /\ \A n \in Mains : /\ queued'[n].timer => queued'[n].version # 0 /\ Runs(n)
                            /\ queued'[n].version = 0 => queued'[n] = NoQueue
    <3> DEFINE q == [version |-> l.version, timer |-> TRUE]
    <3>1. q \in Queues /\ q.version # 0
      BY <2>2 DEF Queues
    <3> HIDE DEF q
    <3> QED
      BY <1>1, <2>1, <2>2, <3>1, CallsRun DEF q
  <2> QED
    BY <2>2, <2>3, <2>4, CallsRun, ClosingKeeps
<1>4. CASE StepDown(m)
  <2> DEFINE M == IF \E k \in Adding : add[m][k].at = "trigger" THEN {m} ELSE {}
  <2>1. /\ multi /\ leader = m /\ leader' = NoLeader /\ "stepdown" \in Removing /\ Mark(M)
        /\ remove' = [remove EXCEPT ![m]["stepdown"] = Closing(m)]
        /\ UNCHANGED <<multi, row, user, inbox, add, entry, listening, queued>>
    BY <1>4 DEF StepDown, Removing, userVars, memory
  <2>2. Runs(m) /\ \A n \in Mains : Runs(n)' = Runs(n)
    BY <2>1 DEF Runs
  <2>3. \A j \in Adding : add[m][j].at = "trigger" => m \in astray'
    BY <2>1, MarkAdds
  <2> HIDE DEF M
  <2> QED
    BY <1>1, <2>1, <2>2, <2>3, CallsRun, ClosingKeeps
<1> QED
  BY <1>2, <1>3, <1>4

\* A removal that is about to begin is as good as one that closes.
LEMMA WaitingKeeps ==
  ASSUME ActivationInv, NEW m \in Mains, Runs(m),
         remove' = [remove EXCEPT ![m]["request"] = Waiting],
         UNCHANGED <<multi, leader, row, add, entry, listening, queued>>,
         inbox' \in [Mains -> Seq(Commands)],
         \A n \in Mains : n # m \/ ~multi => inbox'[n] = inbox[n],
         user' \in UserRequests, user'.at = "store" => user.at = "store",
         NEW M, Mark(M)
  PROVE  ActivationInv'
<1> DEFINE to == [at |-> "wait", closing |-> {}]
<1>1. Waiting = to /\ to # NoRemoval /\ "request" \in Removing
  <2>1. Waiting = to
    BY DEF Waiting
  <2>2. to # NoRemoval
    <3>1. to.at = "wait" /\ NoRemoval.at = "idle"
      BY DEF NoRemoval
    <3> QED
      BY <3>1
  <2> QED
    BY <2>1, <2>2 DEF Removing
<1>2. /\ RemoveIs(m, "request", to)
      /\ remove' = [n \in Mains |-> [j \in Removing |->
                      [at |-> remove'[n][j].at, closing |-> remove'[n][j].closing]]]
      /\ \A n \in Mains, j \in Removing : remove'[n][j].at \in {"idle", "wait", "closing"}
  BY <1>1, RemoveDoes
<1>3. ActivationTypeOK'
  BY <1>2 DEF ActivationInv, ActivationTypeOK
<1>4. astray \subseteq astray' /\ \A n \in Mains : CrossedAt(n)'
  BY MarkAdds
<1>5. Removed(m)'
  BY <1>1, <1>2 DEF Removed, RemoveIs
<1>6. to.at = "wait"
  OBVIOUS
<1> HIDE DEF to
<1>7. ASSUME NEW n \in Mains PROVE MainInv(n)'
  <2>1. VersionsAt(n)'
    BY DEF ActivationInv, MainInv, VersionsAt, InFlight
  <2>2. AloneAt(n)'
    BY <1>2 DEF ActivationInv, MainInv, AloneAt, RemoveIs, Runs
  <2>3. KeptAt(n)'
    <3> SUFFICES ASSUME n \notin astray' PROVE KeptAt(n)'
      BY DEF KeptAt
    <3>1. n \notin astray /\ KeptAt(n)
      BY <1>4 DEF ActivationInv, MainInv
    <3>2. \A j \in Removing : remove'[n][j].at = "closing" => listening[n] \subseteq remove'[n][j].closing
      BY <1>2, <1>6, <3>1 DEF RemoveIs, KeptAt
    <3>3. CASE n = m
      BY <1>5, <3>1, <3>2, <3>3 DEF KeptAt
    <3>4. CASE n # m
      <4>1. Removed(n) => Removed(n)'
        BY <1>2, <3>4 DEF Removed, RemoveIs
      <4> QED
        BY <3>1, <3>2, <3>4, <4>1 DEF KeptAt
    <3> QED
      BY <3>3, <3>4
  <2> QED
    BY <1>4, <2>1, <2>2, <2>3 DEF MainInv
<1> QED
  BY <1>3, <1>7 DEF ActivationInv

\* ActivationInv is kept by a removal that closes what listens: on a main that is
\* not astray, all of it.
LEMMA CloseKeeps ==
  ASSUME ActivationInv, NEW m \in Mains, NEW k \in Removing, Close(m, k)
  PROVE  ActivationInv'
<1>1. /\ remove[m][k].at = "closing"
      /\ remove' = [remove EXCEPT ![m][k] = [at |-> "idle", closing |-> {}]]
      /\ user' = IF k = "request" /\ ~multi THEN [user EXCEPT !.at = "store"] ELSE user
      /\ UNCHANGED <<multi, leader, row, inbox, add, queued>>
      /\ Mark({}) /\ Runs(m)
  BY CallsRun DEF Close, NoRemoval, mainVars
<1>2. /\ entry'[m] = {} /\ listening'[m] = listening[m] \ remove[m][k].closing
      /\ \A n \in Mains \ {m} : entry'[n] = entry[n] /\ listening'[n] = listening[n]
      /\ entry' = [n \in Mains |-> entry'[n]]
      /\ listening' = [n \in Mains |-> listening'[n]]
  BY DEF Close, ActivationInv, ActivationTypeOK
<1>3. /\ RemoveIs(m, k, [at |-> "idle", closing |-> {}])
      /\ remove' = [n \in Mains |-> [j \in Removing |->
                      [at |-> remove'[n][j].at, closing |-> remove'[n][j].closing]]]
      /\ \A n \in Mains, j \in Removing : remove'[n][j].at \in {"idle", "wait", "closing"}
  BY <1>1, RemoveDoes
<1>4. user' \in UserRequests
  BY <1>1, CallsRun DEF UserRequests
<1>5. ActivationTypeOK'
  BY <1>1, <1>2, <1>3, <1>4 DEF ActivationInv, ActivationTypeOK
<1>6. astray \subseteq astray' /\ \A n \in Mains : CrossedAt(n)'
  BY <1>1, MarkAdds
<1>7. ASSUME NEW n \in Mains PROVE MainInv(n)'
  <2>1. VersionsAt(n)'
    BY <1>1, <1>2 DEF ActivationInv, MainInv, VersionsAt, InFlight
  <2>2. AloneAt(n)'
    <3>1. CASE n = m
      BY <1>1, <3>1 DEF ActivationInv, MainInv, AloneAt, Runs
    <3>2. CASE n # m
      <4>1. \A j \in Removing : remove'[n][j] = remove[n][j]
        BY <1>3, <3>2 DEF RemoveIs
      <4>2. AloneAt(n) /\ listening'[n] = listening[n]
        BY <1>2, <3>2 DEF ActivationInv, MainInv
      <4> QED
        BY <1>1, <4>1, <4>2 DEF AloneAt
    <3> QED
      BY <3>1, <3>2
  <2>3. KeptAt(n)'
    <3> SUFFICES ASSUME n \notin astray' PROVE KeptAt(n)'
      BY DEF KeptAt
    <3>1. n \notin astray /\ KeptAt(n)
      BY <1>6 DEF ActivationInv, MainInv
    <3>2. CASE n = m
      <4>1. listening'[m] = {} /\ entry'[m] = {}
        BY <1>1, <1>2, <3>1, <3>2 DEF KeptAt
      <4> QED
        BY <1>1, <3>1, <3>2, <4>1 DEF KeptAt
    <3>3. CASE n # m
      <4>1. \A j \in Removing : remove'[n][j] = remove[n][j]
        BY <1>3, <3>3 DEF RemoveIs
      <4>2. user'.at = "store" /\ listening[n] # {} => user.at = "store"
        BY <1>1, <3>3 DEF Runs, ActivationInv, MainInv, AloneAt
      <4> QED
        BY <1>1, <1>2, <3>1, <3>3, <4>1, <4>2 DEF KeptAt, Removed
    <3> QED
      BY <3>2, <3>3
  <2> QED
    BY <1>6, <2>1, <2>2, <2>3 DEF MainInv
<1> QED
  BY <1>5, <1>7 DEF ActivationInv

-----------------------------------------------------------------------------
\* ActivationInv is kept when a user asks for a change and when it is stored:
\* whatever listens is removed by then.
LEMMA RequestKeeps ==
  ASSUME ActivationInv, Ask \/ Store
  PROVE  ActivationInv'
<1>1. UNCHANGED <<multi, leader, inbox, add, remove, entry, listening, queued>> /\ Mark({})
  BY DEF Ask, Store, mainVars, memory
<1>2. astray \subseteq astray' /\ \A n \in Mains : CrossedAt(n)'
  BY <1>1, MarkAdds
<1>3. /\ row' \in Nat /\ user' \in UserRequests
      /\ row' = row \/ user.at = "store"
      /\ user'.at = "store" => row = 0
  <2>1. row \in Nat /\ user \in UserRequests
    BY CallsRun
  <2>2. CASE Ask
    <3>1. PICK goal \in {0, row + 1} :
            user' = [at |-> IF row = 0 THEN "store" ELSE "remove", goal |-> goal]
      BY <2>2 DEF Ask
    <3>2. row' = row
      BY <2>2 DEF Ask
    <3> QED
      BY <2>1, <3>1, <3>2 DEF UserRequests
  <2>3. CASE Store
    BY <2>1, <2>3 DEF Store, UserRequests
  <2> QED
    BY <2>2, <2>3
<1>4. ActivationTypeOK'
  BY <1>1, <1>3 DEF ActivationInv, ActivationTypeOK
<1>5. ASSUME NEW n \in Mains PROVE MainInv(n)'
  <2>1. VersionsAt(n)' /\ AloneAt(n)'
    BY <1>1 DEF ActivationInv, MainInv, VersionsAt, AloneAt, InFlight
  <2>2. \A l \in listening[n] : l.version # 0
    BY DEF ActivationInv, MainInv, VersionsAt
  <2>3. KeptAt(n)'
    BY <1>1, <1>2, <1>3, <2>2 DEF ActivationInv, MainInv, KeptAt, Removed
  <2> QED
    BY <1>2, <2>1, <2>3 DEF MainInv
<1> QED
  BY <1>4, <1>5 DEF ActivationInv

\* ActivationInv is kept by what a user's request sends or begins.
LEMMA AskToRemoveKeeps ==
  ASSUME ActivationInv, AskToRemove
  PROVE  ActivationInv'
<1>1. /\ user.at = "remove" /\ Mark({})
      /\ UNCHANGED <<multi, leader, row, add, entry, listening, queued>>
  BY DEF AskToRemove, mainVars, memory
<1>2. row \in Nat /\ user \in UserRequests /\ queued \in [Mains -> Queues]
  BY CallsRun
<1>3. CASE multi
  <2>1. Sends("remove") /\ user' = [user EXCEPT !.at = "store"] /\ UNCHANGED remove
    BY <1>3 DEF AskToRemove, Sends
  <2>2. user' \in UserRequests /\ "remove" \in Commands
    BY <1>2, <2>1 DEF UserRequests, Commands
  <2>3. \A n \in Mains : /\ queued[n].timer => queued[n].version # 0
                         /\ queued[n].version = 0 => queued[n] = NoQueue
    BY CallsRun
  <2> QED
    BY <1>1, <1>2, <1>3, <2>1, <2>2, <2>3, SendingKeeps
<1>4. CASE ~multi
  <2>1. /\ remove' = [remove EXCEPT ![leader]["request"] = Waiting]
        /\ user' = [user EXCEPT !.at = "removing"] /\ UNCHANGED inbox
    BY <1>4 DEF AskToRemove
  <2>2. leader \in Mains /\ Runs(leader)
    BY <1>4 DEF ActivationInv, MainInv, AloneAt, Runs
  <2>3. user' \in UserRequests /\ user'.at # "store"
    BY <1>2, <2>1 DEF UserRequests
  <2>4. inbox' \in [Mains -> Seq(Commands)]
    BY <2>1 DEF ActivationInv, ActivationTypeOK
  <2> QED
    BY <1>1, <2>1, <2>2, <2>3, <2>4, WaitingKeeps
<1> QED
  BY <1>3, <1>4

\* The same for the end of the request.
LEMMA AskToAddKeeps ==
  ASSUME ActivationInv, AskToAdd
  PROVE  ActivationInv'
<1>1. /\ user.at = "add" /\ Mark({})
      /\ UNCHANGED <<multi, leader, row, remove, entry, listening, queued>>
  BY DEF AskToAdd, mainVars, memory
<1>2. row \in Nat /\ user \in UserRequests /\ queued \in [Mains -> Queues]
  BY CallsRun
<1>3. \A n \in Mains : /\ queued[n].timer => queued[n].version # 0
                       /\ queued[n].version = 0 => queued[n] = NoQueue
  BY CallsRun
<1>4. CASE multi /\ row # 0
  <2>1. Sends("add") /\ user' = [user EXCEPT !.at = "idle"] /\ UNCHANGED add
    BY <1>4 DEF AskToAdd, Sends
  <2>2. user' \in UserRequests /\ user'.at # "store" /\ "add" \in Commands
    BY <1>2, <2>1 DEF UserRequests, Commands
  <2> QED
    BY <1>1, <1>2, <1>3, <1>4, <2>1, <2>2, SendingKeeps
<1>5. CASE multi /\ row = 0
  <2>1. user' = [user EXCEPT !.at = "idle"] /\ UNCHANGED <<inbox, add>>
    BY <1>5 DEF AskToAdd
  <2>2. user' \in UserRequests /\ user'.at # "store"
    BY <1>2, <2>1 DEF UserRequests
  <2>3. ActivationTypeOK'
    BY <1>1, <2>1, <2>2 DEF ActivationInv, ActivationTypeOK
  <2>4. astray \subseteq astray' /\ \A n \in Mains : CrossedAt(n)'
    BY <1>1, MarkAdds
  <2>5. ASSUME NEW n \in Mains PROVE MainInv(n)'
    BY <1>1, <2>1, <2>2, <2>4
    DEF ActivationInv, MainInv, VersionsAt, AloneAt, KeptAt, InFlight, Removed
  <2> QED
    BY <2>3, <2>5 DEF ActivationInv
<1>6. CASE ~multi
  <2> DEFINE to == [at |-> "read", version |-> 0]
  <2>1. SetAdd(leader, "request", to) /\ user' = [user EXCEPT !.at = "adding"] /\ UNCHANGED inbox
    BY <1>6, AddCallsOf DEF AskToAdd
  <2>2. leader \in Mains /\ Runs(leader)
    BY <1>6 DEF ActivationInv, MainInv, AloneAt, Runs
  <2>3. user' \in UserRequests /\ user'.at # "store"
    BY <1>2, <2>1 DEF UserRequests
  <2>4. to \in AddCalls /\ to.at = "read" /\ "request" \in Adding
    BY AddCallsOf DEF Adding
  <2> HIDE DEF to
  <2>5. AddIs(leader, "request", to) /\ add' \in [Mains -> [Adding -> AddCalls]]
    BY <2>1, <2>2, <2>4, SetAddDoes DEF ActivationInv
  <2>6. LeaderKept /\ InboxKept
    BY <1>1, <2>1, <2>2, CallsRun
  <2> QED
    BY <1>1, <1>2, <1>3, <2>2, <2>3, <2>4, <2>5, <2>6, AddingKeeps
<1> QED
  BY <1>4, <1>5, <1>6 DEF ActivationInv, ActivationTypeOK

\* ActivationInv is kept by the delivery of a command.
LEMMA DeliverKeeps ==
  ASSUME ActivationInv, NEW m \in Mains, Deliver(m)
  PROVE  ActivationInv'
<1>1. /\ inbox[m] # <<>> /\ inbox' = [inbox EXCEPT ![m] = Tail(@)] /\ Mark({})
      /\ UNCHANGED <<multi, leader, row, user, entry, listening, queued>>
  BY DEF Deliver, mainVars, userVars, memory
<1>2. multi /\ Runs(m) /\ LeaderKept
  BY <1>1, CallsRun DEF ActivationInv, ActivationTypeOK, MainInv, AloneAt, Runs
<1>3. inbox[m] \in Seq(Commands)
  BY DEF ActivationInv, ActivationTypeOK
<1>4. /\ Tail(inbox[m]) \in Seq(Commands)
      /\ Contains(inbox[m], "remove") /\ Head(inbox[m]) # "remove" => Contains(Tail(inbox[m]), "remove")
  BY <1>1, <1>3, StillAfterAnother
<1>5. /\ inbox' \in [Mains -> Seq(Commands)]
      /\ inbox'[m] = Tail(inbox[m])
      /\ \A n \in Mains \ {m} : inbox'[n] = inbox[n]
  BY <1>1, <1>4 DEF ActivationInv, ActivationTypeOK
<1>6. leader # m \/ Head(inbox[m]) # "remove" => InboxKept
  BY <1>2, <1>4, <1>5 DEF InboxKept
<1>7. CASE leader # m /\ UNCHANGED <<add, remove>>
  BY <1>1, <1>2, <1>6, <1>7, OthersKeep
<1>8. CASE Head(inbox[m]) = "add" /\ SetAdd(m, "request", [NoAdd EXCEPT !.at = "read"]) /\ UNCHANGED remove
  <2> DEFINE to == [at |-> "read", version |-> 0]
  <2>1. SetAdd(m, "request", to) /\ UNCHANGED remove
    BY <1>8, AddCallsOf
  <2>2. to \in AddCalls /\ to.at = "read" /\ "request" \in Adding
    BY AddCallsOf DEF Adding
  <2> HIDE DEF to
  <2>3. AddIs(m, "request", to) /\ add' \in [Mains -> [Adding -> AddCalls]]
    BY <2>1, <2>2, SetAddDoes DEF ActivationInv
  <2>4. InboxKept
    BY <1>6, <1>8
  <2>5. /\ row \in Nat /\ user \in UserRequests /\ queued \in [Mains -> Queues]
        /\ queued[m].timer => queued[m].version # 0
        /\ queued[m].version = 0 => queued[m] = NoQueue
    BY CallsRun
  <2> QED
    BY <1>1, <1>2, <2>1, <2>2, <2>3, <2>4, <2>5, AddingKeeps
<1>9. CASE remove' = [remove EXCEPT ![m]["request"] = Waiting] /\ UNCHANGED add
  <2>1. user \in UserRequests
    BY CallsRun
  <2> QED
    BY <1>1, <1>2, <1>5, <1>9, <2>1, WaitingKeeps
<1> QED
  BY <1>7, <1>8, <1>9 DEF Deliver

-----------------------------------------------------------------------------
\* ActivationInv is kept by a crash, after which nothing is left of the main.
LEMMA CrashKeeps ==
  ASSUME ActivationInv, NEW m \in Mains, Crash(m)
  PROVE  ActivationInv'
<1>1. /\ Runs(m)
      /\ leader' = IF multi /\ leader = m THEN NoLeader ELSE leader
      /\ user' = IF multi THEN user ELSE [user EXCEPT !.at = "idle"]
      /\ UNCHANGED <<multi, row>>
      /\ astray' = (astray \ {m}) \cup {n \in Mains : Crossed(n)'}
  BY DEF Crash
<1>2. /\ inbox' = [inbox EXCEPT ![m] = <<>>]
      /\ add' = [add EXCEPT ![m] = [k \in Adding |-> NoAdd]]
      /\ remove' = [remove EXCEPT ![m] = [k \in Removing |-> NoRemoval]]
      /\ entry' = [entry EXCEPT ![m] = {}]
      /\ listening' = [listening EXCEPT ![m] = {}]
      /\ queued' = [queued EXCEPT ![m] = NoQueue]
  BY DEF Crash
<1>3. user \in UserRequests /\ NoAdd \in AddCalls /\ NoQueue \in Queues
  BY CallsRun
<1>4. user' \in UserRequests /\ (user'.at = "store" => user.at = "store")
  BY <1>1, <1>3 DEF UserRequests
<1>5. /\ inbox'[m] = <<>> /\ entry'[m] = {} /\ listening'[m] = {} /\ queued'[m] = NoQueue
      /\ \A k \in Adding : add'[m][k] = NoAdd
      /\ \A k \in Removing : remove'[m][k] = NoRemoval
      /\ \A n \in Mains \ {m} :
           /\ inbox'[n] = inbox[n] /\ entry'[n] = entry[n] /\ listening'[n] = listening[n]
           /\ queued'[n] = queued[n] /\ add'[n] = add[n] /\ remove'[n] = remove[n]
  BY <1>2 DEF ActivationInv, ActivationTypeOK
<1>6. ActivationTypeOK'
  <2>1. inbox' \in [Mains -> Seq(Commands)] /\ queued' \in [Mains -> Queues]
    BY <1>2, <1>3 DEF ActivationInv, ActivationTypeOK
  <2>2. add' \in [Mains -> [Adding -> AddCalls]]
    BY <1>2, <1>3 DEF ActivationInv, ActivationTypeOK
  <2>3. entry' = [n \in Mains |-> entry'[n]] /\ listening' = [n \in Mains |-> listening'[n]]
    BY <1>2 DEF ActivationInv, ActivationTypeOK
  <2>4. /\ \A n \in Mains, j \in Removing : remove'[n][j].at \in {"idle", "wait", "closing"}
        /\ remove' = [n \in Mains |-> [j \in Removing |->
                       [at |-> remove'[n][j].at, closing |-> remove'[n][j].closing]]]
    <3>1. \A n \in Mains, j \in Removing :
            remove[n][j] = [at |-> remove[n][j].at, closing |-> remove[n][j].closing]
      BY DEF ActivationInv, ActivationTypeOK
    <3>2. \A n \in Mains, j \in Removing :
            /\ remove'[n][j].at \in {"idle", "wait", "closing"}
            /\ remove'[n][j] = [at |-> remove'[n][j].at, closing |-> remove'[n][j].closing]
      <4>1. NoRemoval.at = "idle" /\ NoRemoval = [at |-> NoRemoval.at, closing |-> NoRemoval.closing]
        BY DEF NoRemoval
      <4>2. \A n \in Mains, j \in Removing : remove[n][j].at \in {"idle", "wait", "closing"}
        BY DEF ActivationInv, ActivationTypeOK
      <4> QED
        BY <1>5, <3>1, <4>1, <4>2
    <3>3. remove' = [n \in Mains |-> [j \in Removing |-> remove'[n][j]]]
      BY <1>2 DEF ActivationInv, ActivationTypeOK
    <3>4. \A n \in Mains :
            [j \in Removing |-> remove'[n][j]] =
              [j \in Removing |-> [at |-> remove'[n][j].at, closing |-> remove'[n][j].closing]]
      BY <3>2
    <3>5. [n \in Mains |-> [j \in Removing |-> remove'[n][j]]] =
            [n \in Mains |-> [j \in Removing |->
              [at |-> remove'[n][j].at, closing |-> remove'[n][j].closing]]]
      BY <3>4
    <3> QED
      BY <3>2, <3>3, <3>5
  <2>5. leader' \in Mains \cup {NoLeader} /\ row' \in Nat /\ multi' \in BOOLEAN
    BY <1>1 DEF ActivationInv, ActivationTypeOK
  <2> QED
    BY <1>4, <2>1, <2>2, <2>3, <2>4, <2>5 DEF ActivationTypeOK
<1>7. ASSUME NEW n \in Mains PROVE MainInv(n)'
  <2>1. CrossedAt(n)'
    BY <1>1 DEF CrossedAt
  <2>2. CASE n = m
    <3>1. AloneAt(n)'
      BY <1>1, <1>5, <2>2 DEF ActivationInv, MainInv, AloneAt, Runs
    <3>2. NoAdd.at = "idle" /\ NoRemoval.at = "idle" /\ ~NoQueue.timer
      BY DEF NoAdd, NoRemoval, NoQueue
    <3>3. VersionsAt(n)'
      BY <1>5, <2>2, <3>2 DEF VersionsAt, InFlight
    <3>4. KeptAt(n)'
      BY <1>5, <2>2, <3>2 DEF KeptAt
    <3> QED
      BY <2>1, <2>2, <3>1, <3>3, <3>4 DEF MainInv
  <2>3. CASE n # m
    <3>1. VersionsAt(n)' /\ AloneAt(n)'
      BY <1>1, <1>5, <2>3 DEF ActivationInv, MainInv, VersionsAt, AloneAt, InFlight
    <3>2. KeptAt(n)'
      BY <1>1, <1>4, <1>5, <2>3 DEF ActivationInv, MainInv, KeptAt, Removed
    <3> QED
      BY <2>1, <3>1, <3>2 DEF MainInv
  <2> QED
    BY <2>2, <2>3
<1> QED
  BY <1>6, <1>7 DEF ActivationInv

-----------------------------------------------------------------------------
\* ActivationInv is kept by every step.
LEMMA ActivationInvNext == ActivationInv /\ [Next]_vars => ActivationInv'
<1> SUFFICES ASSUME ActivationInv, [Next]_vars PROVE ActivationInv'
  OBVIOUS
<1>1. CASE UNCHANGED vars
  BY <1>1 DEF vars, mainVars, userVars, memory, history, ActivationInv, ActivationTypeOK,
              MainInv, VersionsAt, AloneAt, CrossedAt, Crossed, KeptAt, InFlight, Removed
<1>2. CASE Ask \/ AskToRemove \/ Store \/ AskToAdd
  BY <1>2, RequestKeeps, AskToRemoveKeeps, AskToAddKeeps
<1>3. ASSUME NEW m \in Mains, StartUp(m) \/ TakeOver(m) PROVE ActivationInv'
  BY <1>3, StartUpKeeps
<1>4. ASSUME NEW m \in Mains, Activate(m) PROVE ActivationInv'
  BY <1>4, ReadKeeps, AddWebhooksKeeps, RegisterKeeps DEF Activate
<1>5. ASSUME NEW m \in Mains, NEW k \in Adding, FailAdd(m, k) PROVE ActivationInv'
  BY <1>5, FailAddKeeps
<1>6. ASSUME NEW m \in Mains, Retry(m) PROVE ActivationInv'
  BY <1>6, RetryKeeps
<1>7. ASSUME NEW m \in Mains, Deactivate(m) \/ EmitError(m) \/ StepDown(m) PROVE ActivationInv'
  BY <1>7, BeginKeeps, CloseKeeps DEF Deactivate
<1>8. ASSUME NEW m \in Mains, Deliver(m) PROVE ActivationInv'
  BY <1>8, DeliverKeeps
<1>9. ASSUME NEW m \in Mains, Crash(m) PROVE ActivationInv'
  BY <1>9, CrashKeeps
<1> QED
  BY <1>1, <1>2, <1>3, <1>4, <1>5, <1>6, <1>7, <1>8, <1>9 DEF Next

\* The types hold (core/.../active-workflows.ts, active-workflow-manager.ts).
THEOREM ActivationTypesHold == ActivationSpec => []ActivationTypeOK
<1>1. ActivationInv => ActivationTypeOK
  BY DEF ActivationInv
<1> QED
  BY <1>1, ActivationInvInit, ActivationInvNext, PTL DEF ActivationSpec

\* A main that is not leader has a listener only while it is closing it, and one
\* that is leader has none of another version than the active one unless it is
\* closing it or the command to do so is on its way, but for mains where an
\* activation was crossed (shouldAddTriggersAndPollers looks at the role once).
THEOREM SilentElsewhereHolds == ActivationSpec => []SilentElsewhere
<1>1. ActivationInv => SilentElsewhere
  BY DEF ActivationInv, MainInv, KeptAt, Removed, SilentElsewhere
<1> QED
  BY <1>1, ActivationInvInit, ActivationInvNext, PTL DEF ActivationSpec
=============================================================================

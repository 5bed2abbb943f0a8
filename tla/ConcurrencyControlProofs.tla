----------------------- MODULE ConcurrencyControlProofs -----------------------
(***************************************************************************)
(* Proofs that, for every set of calls, every assignment of execution ids  *)
(* and modes and every pair of limits, concurrency control keeps its       *)
(* accounts: the invariants of ConcurrencyControl that the runs check on   *)
(* six calls, and that it implements AdmissionControl (AdmissionHolds).    *)
(***************************************************************************)
EXTENDS ConcurrencyControl, FiniteSetTheorems, SequenceTheorems, TLAPS

Holding == {"granted", "held"}

\* Holders and Orphans of a state of the calls that is not the current one.
HoldersIn(states, t) == {c \in Calls : QueueOf(c) = t /\ states[c] \in Holding}

OrphansIn(states, t) == {c \in Calls : QueueOf(c) = t /\ states[c] = "orphaned"}

QueuedIn(states, t) == {c \in Calls : QueueOf(c) = t /\ states[c] = "queued"}

Elements(items) == {items[i] : i \in DOMAIN items}

\* The queue of type t holds `items` while the calls are in `states`.
WellQueued(t, items, states) ==
  /\ items \in Seq(Calls)
  /\ \A i, j \in DOMAIN items : items[i] = items[j] => i = j
  /\ Elements(items) = QueuedIn(states, t)

\* A queue is never longer than the capacity it lacks ...
QueueWithinDebt ==
  enabled => \A t \in QueueTypes :
    Len(queue[t]) <= (IF capacity[t] < 0 THEN -capacity[t] ELSE 0)

\* ... and lacks as many items as were removed, at the most.
DebtIsQueuedOrOrphaned ==
  enabled => \A t \in QueueTypes :
    Limit[t] > 0 => capacity[t] + Len(queue[t]) + Cardinality(Orphans(t)) >= 0

\* The inductive invariant.  CapacityAccounting alone is not inductive: a
\* grant must be known to move a call that is queued, once, in that queue;
\* the two bounds relate the length of the queue to the sign of capacity,
\* which is all that enqueue looks at.
CCInv ==
  /\ TypeOK
  /\ QueuedOnce
  /\ CapacityAccounting
  /\ QueueWithinDebt
  /\ DebtIsQueuedOrOrphaned

-----------------------------------------------------------------------------
\* Facts about the configuration: limits are never zero, and only a positive
\* limit has a queue.
LEMMA ConfigFacts ==
  /\ Limit \in [QueueTypes -> Int]
  /\ \A t \in QueueTypes : Limit[t] = -1 \/ Limit[t] > 0
  /\ \A c \in Calls : QueueOf(c) \in QueueTypes \cup {NoQueue}
  /\ \A c \in Calls : QueueOf(c) # NoQueue => Limit[QueueOf(c)] > 0
  /\ NoQueue \notin QueueTypes
  BY ConfigAssumption DEF Limit, Normalised, QueueTypes, QueueOf, QueueOfMode, ExistingQueue,
     NoQueue, Modes, UnthrottledModes, ProductionModes

\* The sets of calls that the accounts count are finite.
LEMMA FiniteCalls ==
  ASSUME NEW states, NEW t
  PROVE  /\ IsFiniteSet(HoldersIn(states, t)) /\ Cardinality(HoldersIn(states, t)) \in Nat
         /\ IsFiniteSet(OrphansIn(states, t)) /\ Cardinality(OrphansIn(states, t)) \in Nat
<1>1. HoldersIn(states, t) \subseteq Calls /\ OrphansIn(states, t) \subseteq Calls
  BY DEF HoldersIn, OrphansIn
<1> QED
  BY <1>1, FS_Subset, FS_CardinalityType, ConfigAssumption

\* A call of queue t that does not hold capacity and is granted it adds one
\* holder to t and changes no other account.
LEMMA GrantAddsHolder ==
  ASSUME NEW t \in QueueTypes, NEW states \in [Calls -> CallStates], NEW c \in Calls,
         QueueOf(c) = t, states[c] \notin Holding, states[c] # "orphaned"
  PROVE  LET after == [states EXCEPT ![c] = "granted"] IN
         /\ Cardinality(HoldersIn(after, t)) = Cardinality(HoldersIn(states, t)) + 1
         /\ \A u \in QueueTypes \ {t} : HoldersIn(after, u) = HoldersIn(states, u)
         /\ \A u \in QueueTypes : OrphansIn(after, u) = OrphansIn(states, u)
<1> DEFINE after == [states EXCEPT ![c] = "granted"]
<1>1. HoldersIn(after, t) = HoldersIn(states, t) \cup {c} /\ c \notin HoldersIn(states, t)
  BY DEF HoldersIn, Holding
<1>2. Cardinality(HoldersIn(after, t)) = Cardinality(HoldersIn(states, t)) + 1
  BY <1>1, FiniteCalls, FS_AddElement
<1>3. \A u \in QueueTypes \ {t} : HoldersIn(after, u) = HoldersIn(states, u)
  BY DEF HoldersIn, Holding
<1>4. \A u \in QueueTypes : OrphansIn(after, u) = OrphansIn(states, u)
  BY DEF OrphansIn
<1> QED
  BY <1>2, <1>3, <1>4

\* resolveNext moves one call, if there is one, from the queue to the
\* holders: the two together count as many calls as before.
LEMMA ResolveNextMovesOne ==
  ASSUME NEW t \in QueueTypes, NEW states \in [Calls -> CallStates], NEW items,
         WellQueued(t, items, states), queue \in [QueueTypes -> Seq(Calls)],
         ResolveNext(t, items, states)
  PROVE  /\ call' \in [Calls -> CallStates]
         /\ queue' \in [QueueTypes -> Seq(Calls)]
         /\ WellQueued(t, queue'[t], call')
         /\ Len(queue'[t]) = (IF Len(items) = 0 THEN 0 ELSE Len(items) - 1)
         /\ Cardinality(HoldersIn(call', t)) + Len(queue'[t])
              = Cardinality(HoldersIn(states, t)) + Len(items)
         /\ \A u \in QueueTypes \ {t} : /\ queue'[u] = queue[u]
                                        /\ HoldersIn(call', u) = HoldersIn(states, u)
                                        /\ QueuedIn(call', u) = QueuedIn(states, u)
         /\ \A u \in QueueTypes : OrphansIn(call', u) = OrphansIn(states, u)
<1>0. items \in Seq(Calls)
  BY DEF WellQueued
<1>1. CASE items = <<>>
  BY <1>0, <1>1, FiniteCalls DEF ResolveNext, WellQueued
<1>2. CASE items # <<>>
  <2>1. /\ queue' = [queue EXCEPT ![t] = Tail(items)]
        /\ call' = [states EXCEPT ![Head(items)] = "granted"]
    BY <1>2 DEF ResolveNext
  <2>2. Head(items) \in Calls /\ Head(items) = items[1] /\ 1 \in DOMAIN items
    BY <1>0, <1>2
  <2>3. QueueOf(Head(items)) = t /\ states[Head(items)] = "queued"
    BY <2>2 DEF WellQueued, Elements, QueuedIn
  <2>4. Tail(items) \in Seq(Calls) /\ Len(Tail(items)) = Len(items) - 1 /\ Len(items) \in Nat \ {0}
        /\ \A i \in DOMAIN Tail(items) : Tail(items)[i] = items[i + 1] /\ i + 1 \in DOMAIN items
    BY <1>0, <1>2
  <2>5. call' \in [Calls -> CallStates] /\ queue' \in [QueueTypes -> Seq(Calls)]
        /\ queue'[t] = Tail(items)
    BY <2>1, <2>2, <2>4 DEF CallStates
  <2>6. WellQueued(t, Tail(items), call')
    <3>1. \A i, j \in DOMAIN Tail(items) : Tail(items)[i] = Tail(items)[j] => i = j
      <4>1. SUFFICES ASSUME NEW i \in DOMAIN Tail(items), NEW j \in DOMAIN Tail(items),
                            Tail(items)[i] = Tail(items)[j]
                     PROVE  i = j
        OBVIOUS
      <4>2. i \in Int /\ j \in Int
        BY <2>4
      <4>3. i + 1 = j + 1
        BY <4>1, <2>4 DEF WellQueued
      <4> QED
        BY <4>2, <4>3
    <3>2. \A k \in DOMAIN items : k = 1 \/ (k - 1 \in DOMAIN Tail(items) /\ Tail(items)[k - 1] = items[k])
      BY <1>0, <2>4
    <3>3. \A i \in DOMAIN Tail(items) : items[i + 1] # Head(items)
      <4>1. SUFFICES ASSUME NEW i \in DOMAIN Tail(items), items[i + 1] = items[1] PROVE FALSE
        BY <2>2
      <4>2. i + 1 = 1
        BY <4>1, <2>2, <2>4 DEF WellQueued
      <4> QED
        BY <4>2, <2>4
    <3>4. Elements(Tail(items)) = Elements(items) \ {Head(items)}
      <4>1. Elements(Tail(items)) \subseteq Elements(items) \ {Head(items)}
        <5>1. SUFFICES ASSUME NEW i \in DOMAIN Tail(items)
                       PROVE  Tail(items)[i] \in Elements(items) \ {Head(items)}
          BY DEF Elements
        <5> QED
          BY <2>4, <3>3 DEF Elements
      <4>2. Elements(items) \ {Head(items)} \subseteq Elements(Tail(items))
        <5>1. SUFFICES ASSUME NEW k \in DOMAIN items, items[k] # Head(items)
                       PROVE  items[k] \in Elements(Tail(items))
          BY DEF Elements
        <5> QED
          BY <2>2, <3>2, <5>1 DEF Elements
      <4> QED
        BY <4>1, <4>2
    <3>5. QueuedIn(call', t) = QueuedIn(states, t) \ {Head(items)}
      BY <2>1, <2>2 DEF QueuedIn
    <3> QED
      BY <2>4, <3>1, <3>4, <3>5 DEF WellQueued
  <2>7. /\ Cardinality(HoldersIn(call', t)) = Cardinality(HoldersIn(states, t)) + 1
        /\ \A u \in QueueTypes \ {t} : HoldersIn(call', u) = HoldersIn(states, u)
        /\ \A u \in QueueTypes : OrphansIn(call', u) = OrphansIn(states, u)
    BY <2>1, <2>2, <2>3, GrantAddsHolder DEF Holding
  <2>8. \A u \in QueueTypes \ {t} : queue'[u] = queue[u] /\ QueuedIn(call', u) = QueuedIn(states, u)
    BY <2>1, <2>2, <2>3 DEF QueuedIn
  <2>9. Cardinality(HoldersIn(states, t)) \in Nat
    BY FiniteCalls
  <2> QED
    BY <2>4, <2>5, <2>6, <2>7, <2>8, <2>9
<1> QED
  BY <1>1, <1>2

-----------------------------------------------------------------------------
\* The configuration starts with all capacity free and nobody queued.
LEMMA InitEstablishesInv == CCInit => CCInv
<1> SUFFICES ASSUME CCInit PROVE CCInv
  OBVIOUS
<1> USE ConfigFacts DEF CCInit
<1>1. TypeOK
  BY DEF TypeOK, CallStates
<1>2. QueuedOnce
  BY DEF QueuedOnce
<1>3. \A t \in QueueTypes : Holders(t) = {} /\ Orphans(t) = {}
  BY DEF Holders, Orphans
<1>4. CapacityAccounting
  <2>1. SUFFICES ASSUME NEW t \in QueueTypes
                 PROVE  capacity[t] = Limit[t] - Cardinality(Holders(t)) - Len(queue[t])
    BY DEF CapacityAccounting
  <2>2. Holders(t) = {} /\ Cardinality({}) = 0 /\ queue[t] = <<>> /\ capacity[t] = Limit[t]
    BY <1>3, FS_EmptySet
  <2>3. Limit[t] \in Int
    OBVIOUS
  <2> QED
    BY <2>2, <2>3
<1>5. QueueWithinDebt
  BY DEF QueueWithinDebt
<1>6. DebtIsQueuedOrOrphaned
  BY <1>3, FS_EmptySet DEF DebtIsQueuedOrOrphaned
<1> QED
  BY <1>1, <1>2, <1>4, <1>5, <1>6 DEF CCInv

\* The invariant, in the terms of the lemmas above.
LEMMA InvInOtherWords ==
  CCInv <=>
    /\ enabled \in BOOLEAN
    /\ capacity \in [QueueTypes -> Int]
    /\ queue \in [QueueTypes -> Seq(Calls)]
    /\ call \in [Calls -> CallStates]
    /\ \A t \in QueueTypes : WellQueued(t, queue[t], call)
    /\ enabled => \A t \in QueueTypes :
         /\ capacity[t] = Limit[t] - Cardinality(HoldersIn(call, t)) - Len(queue[t])
         /\ Len(queue[t]) <= (IF capacity[t] < 0 THEN -capacity[t] ELSE 0)
         /\ Limit[t] > 0 => capacity[t] + Len(queue[t]) + Cardinality(OrphansIn(call, t)) >= 0
  BY DEF CCInv, TypeOK, QueuedOnce, CapacityAccounting, QueueWithinDebt, DebtIsQueuedOrOrphaned,
     WellQueued, Elements, QueuedIn, HoldersIn, OrphansIn, Holders, Orphans, Holding

\* The same, of the state after a step.
LEMMA InvAfterwards ==
  CCInv' <=>
    /\ enabled' \in BOOLEAN
    /\ capacity' \in [QueueTypes -> Int]
    /\ queue' \in [QueueTypes -> Seq(Calls)]
    /\ call' \in [Calls -> CallStates]
    /\ \A t \in QueueTypes : WellQueued(t, queue'[t], call')
    /\ enabled' => \A t \in QueueTypes :
         /\ capacity'[t] = Limit[t] - Cardinality(HoldersIn(call', t)) - Len(queue'[t])
         /\ Len(queue'[t]) <= (IF capacity'[t] < 0 THEN -capacity'[t] ELSE 0)
         /\ Limit[t] > 0 => capacity'[t] + Len(queue'[t]) + Cardinality(OrphansIn(call', t)) >= 0
  BY DEF CCInv, TypeOK, QueuedOnce, CapacityAccounting, QueueWithinDebt, DebtIsQueuedOrOrphaned,
     WellQueued, Elements, QueuedIn, HoldersIn, OrphansIn, Holders, Orphans, Holding

\* No step that leaves the queues alone and changes one call that is neither
\* queued before nor after disturbs what the queues hold.
LEMMA QueuesUndisturbed ==
  ASSUME NEW states \in [Calls -> CallStates], NEW c \in Calls, NEW s \in CallStates,
         states[c] # "queued", s # "queued"
  PROVE  LET after == [states EXCEPT ![c] = s] IN
         /\ after \in [Calls -> CallStates]
         /\ \A t \in QueueTypes : QueuedIn(after, t) = QueuedIn(states, t)
  BY DEF QueuedIn

LEMMA ThrottleKeepsInv ==
  ASSUME CCInv, NEW c \in Calls, Throttle(c)
  PROVE  CCInv'
<1>0. call[c] = "idle" /\ enabled' = enabled
  BY DEF Throttle
<1>1. CASE ~Limited(c) /\ call' = [call EXCEPT ![c] = "granted"] /\ UNCHANGED <<capacity, queue>>
  <2>1. call' \in [Calls -> CallStates] /\ \A t \in QueueTypes : QueuedIn(call', t) = QueuedIn(call, t)
    BY <1>0, <1>1, InvInOtherWords DEF CallStates, QueuedIn
  <2>2. enabled => \A t \in QueueTypes : /\ HoldersIn(call', t) = HoldersIn(call, t)
                                         /\ OrphansIn(call', t) = OrphansIn(call, t)
    BY <1>1, ConfigFacts DEF Limited, HoldersIn, OrphansIn, NoQueue
  <2> QED
    BY <1>0, <1>1, <2>1, <2>2, InvInOtherWords, InvAfterwards DEF WellQueued
<1>2. CASE Limited(c) /\ Enqueue(QueueOf(c), c)
  <2>0. PICK t \in QueueTypes : t = QueueOf(c)
    BY <1>2, ConfigFacts DEF Limited
  <2>1. t \in QueueTypes /\ QueueOf(c) = t /\ enabled /\ Limit[t] > 0
    BY <1>2, <2>0, ConfigFacts DEF Limited
  <2>2. capacity' = [capacity EXCEPT ![t] = @ - 1]
    BY <1>2, <2>0 DEF Enqueue
  <2>3. CASE capacity[t] - 1 < 0
    <3>1. /\ queue' = [queue EXCEPT ![t] = Append(queue[t], c)]
          /\ call' = [call EXCEPT ![c] = "queued"]
      BY <1>2, <2>0, <2>3, InvInOtherWords DEF Enqueue
    <3>2. call' \in [Calls -> CallStates] /\ queue' \in [QueueTypes -> Seq(Calls)]
      BY <2>1, <3>1, InvInOtherWords DEF CallStates
    <3>3. \A u \in QueueTypes : /\ HoldersIn(call', u) = HoldersIn(call, u)
                                /\ OrphansIn(call', u) = OrphansIn(call, u)
      BY <1>0, <3>1, InvInOtherWords DEF HoldersIn, OrphansIn, Holding
    <3>4. \A u \in QueueTypes \ {t} : queue'[u] = queue[u] /\ QueuedIn(call', u) = QueuedIn(call, u)
      BY <1>0, <2>1, <3>1, InvInOtherWords DEF QueuedIn
    <3>5. WellQueued(t, queue'[t], call')
      <4>1. queue'[t] = Append(queue[t], c) /\ queue[t] \in Seq(Calls) /\ WellQueued(t, queue[t], call)
        BY <2>1, <3>1, InvInOtherWords
      <4>2. c \notin Elements(queue[t])
        BY <1>0, <4>1 DEF WellQueued, QueuedIn
      <4>3. Len(queue[t]) \in Nat /\ Append(queue[t], c) \in Seq(Calls)
            /\ DOMAIN Append(queue[t], c) = 1..(Len(queue[t]) + 1)
            /\ DOMAIN queue[t] = 1..Len(queue[t])
            /\ \A i \in DOMAIN queue[t] : Append(queue[t], c)[i] = queue[t][i]
            /\ Append(queue[t], c)[Len(queue[t]) + 1] = c
        BY <4>1
      <4>4. \A i, j \in DOMAIN Append(queue[t], c) :
               Append(queue[t], c)[i] = Append(queue[t], c)[j] => i = j
        <5>1. \A i \in DOMAIN queue[t] : queue[t][i] # c
          BY <4>2 DEF Elements
        <5>2. \A i \in DOMAIN Append(queue[t], c) : i \in DOMAIN queue[t] \/ i = Len(queue[t]) + 1
          BY <4>3
        <5> QED
          BY <4>1, <4>3, <5>1, <5>2 DEF WellQueued
      <4>5. Elements(Append(queue[t], c)) = Elements(queue[t]) \cup {c}
        <5>1. Elements(Append(queue[t], c)) \subseteq Elements(queue[t]) \cup {c}
          BY <4>3 DEF Elements
        <5>2. c \in Elements(Append(queue[t], c))
          BY <4>3 DEF Elements
        <5>3. Elements(queue[t]) \subseteq Elements(Append(queue[t], c))
          BY <4>3 DEF Elements
        <5> QED
          BY <5>1, <5>2, <5>3
      <4>6. QueuedIn(call', t) = QueuedIn(call, t) \cup {c}
        BY <2>1, <3>1, InvInOtherWords DEF QueuedIn
      <4> QED
        BY <4>1, <4>3, <4>4, <4>5, <4>6 DEF WellQueued
    <3>6. Len(queue'[t]) = Len(queue[t]) + 1 /\ Len(queue[t]) \in Nat
      BY <2>1, <3>1, InvInOtherWords
    <3>7. \A u \in QueueTypes : WellQueued(u, queue'[u], call')
      BY <3>4, <3>5, InvInOtherWords DEF WellQueued
    <3>8. capacity' \in [QueueTypes -> Int] /\ capacity'[t] = capacity[t] - 1
          /\ \A u \in QueueTypes \ {t} : capacity'[u] = capacity[u]
      BY <2>1, <2>2, InvInOtherWords
    <3>9. ASSUME NEW u \in QueueTypes
          PROVE  /\ capacity'[u] = Limit[u] - Cardinality(HoldersIn(call', u)) - Len(queue'[u])
                 /\ Len(queue'[u]) <= (IF capacity'[u] < 0 THEN -capacity'[u] ELSE 0)
                 /\ Limit[u] > 0 => capacity'[u] + Len(queue'[u]) + Cardinality(OrphansIn(call', u)) >= 0
      <4>1. CASE u # t
        BY <2>1, <3>3, <3>4, <3>8, <4>1, InvInOtherWords
      <4>2. CASE u = t
        <5>1. /\ capacity[t] = Limit[t] - Cardinality(HoldersIn(call, t)) - Len(queue[t])
              /\ Len(queue[t]) <= (IF capacity[t] < 0 THEN -capacity[t] ELSE 0)
              /\ capacity[t] + Len(queue[t]) + Cardinality(OrphansIn(call, t)) >= 0
              /\ capacity[t] \in Int /\ Limit[t] \in Int
          BY <2>1, InvInOtherWords, ConfigFacts
        <5>2. Cardinality(HoldersIn(call, t)) \in Nat /\ Cardinality(OrphansIn(call, t)) \in Nat
          BY FiniteCalls
        <5>3. Cardinality(HoldersIn(call', t)) = Cardinality(HoldersIn(call, t))
              /\ Cardinality(OrphansIn(call', t)) = Cardinality(OrphansIn(call, t))
          BY <2>1, <3>3
        <5>4. /\ capacity'[t] = Limit[t] - Cardinality(HoldersIn(call', t)) - Len(queue'[t])
              /\ Len(queue'[t]) <= (IF capacity'[t] < 0 THEN -capacity'[t] ELSE 0)
              /\ capacity'[t] + Len(queue'[t]) + Cardinality(OrphansIn(call', t)) >= 0
          <6>1. capacity'[t] = Limit[t] - Cardinality(HoldersIn(call', t)) - Len(queue'[t])
            BY <2>3, <3>6, <3>8, <5>1, <5>2, <5>3
          <6>2. Len(queue'[t]) <= (IF capacity'[t] < 0 THEN -capacity'[t] ELSE 0)
            BY <2>3, <3>6, <3>8, <5>1, <5>2, <5>3
          <6>3. capacity'[t] + Len(queue'[t]) + Cardinality(OrphansIn(call', t)) >= 0
            BY <2>3, <3>6, <3>8, <5>1, <5>2, <5>3
          <6> QED
            BY <6>1, <6>2, <6>3
        <5> QED
          BY <4>2, <5>4
      <4> QED
        BY <4>1, <4>2
    <3> QED
      BY <1>0, <2>1, <3>2, <3>7, <3>8, <3>9, InvInOtherWords, InvAfterwards
  <2>4. CASE ~(capacity[t] - 1 < 0)
    <3>1. call' = [call EXCEPT ![c] = "granted"] /\ queue' = queue
      BY <1>2, <2>0, <2>4 DEF Enqueue
    <3>2. call' \in [Calls -> CallStates] /\ \A u \in QueueTypes : QueuedIn(call', u) = QueuedIn(call, u)
      BY <1>0, <3>1, InvInOtherWords DEF CallStates, QueuedIn
    <3>3. /\ Cardinality(HoldersIn(call', t)) = Cardinality(HoldersIn(call, t)) + 1
          /\ \A u \in QueueTypes \ {t} : HoldersIn(call', u) = HoldersIn(call, u)
          /\ \A u \in QueueTypes : OrphansIn(call', u) = OrphansIn(call, u)
      BY <1>0, <2>1, <3>1, InvInOtherWords, GrantAddsHolder DEF Holding
    <3>4. \A u \in QueueTypes : WellQueued(u, queue'[u], call')
      BY <3>1, <3>2, InvInOtherWords DEF WellQueued
    <3>5. capacity' \in [QueueTypes -> Int] /\ capacity'[t] = capacity[t] - 1
          /\ \A u \in QueueTypes \ {t} : capacity'[u] = capacity[u]
      BY <2>1, <2>2, InvInOtherWords
    <3>6. ASSUME NEW u \in QueueTypes
          PROVE  /\ capacity'[u] = Limit[u] - Cardinality(HoldersIn(call', u)) - Len(queue'[u])
                 /\ Len(queue'[u]) <= (IF capacity'[u] < 0 THEN -capacity'[u] ELSE 0)
                 /\ Limit[u] > 0 => capacity'[u] + Len(queue'[u]) + Cardinality(OrphansIn(call', u)) >= 0
      <4>1. CASE u # t
        BY <2>1, <3>1, <3>3, <3>5, <4>1, InvInOtherWords
      <4>2. CASE u = t
        <5>0. /\ capacity[t] = Limit[t] - Cardinality(HoldersIn(call, t)) - Len(queue[t])
              /\ Limit[t] \in Int /\ Len(queue[t]) \in Nat
          BY <2>1, InvInOtherWords, ConfigFacts
        <5>1. /\ capacity[t] = Limit[t] - Cardinality(HoldersIn(call, t)) - Len(queue[t])
              /\ Len(queue[t]) <= (IF capacity[t] < 0 THEN -capacity[t] ELSE 0)
              /\ capacity[t] + Len(queue[t]) + Cardinality(OrphansIn(call, t)) >= 0
              /\ capacity[t] \in Int /\ Limit[t] \in Int /\ Len(queue[t]) \in Nat
          BY <2>1, InvInOtherWords, ConfigFacts
        <5>2. Cardinality(HoldersIn(call, t)) \in Nat /\ Cardinality(OrphansIn(call, t)) \in Nat
          BY FiniteCalls
        <5>3. Cardinality(HoldersIn(call', t)) = Cardinality(HoldersIn(call, t)) + 1
              /\ Cardinality(OrphansIn(call', t)) = Cardinality(OrphansIn(call, t))
              /\ Len(queue'[t]) = Len(queue[t])
          BY <2>1, <3>1, <3>3
        <5>4. /\ capacity'[t] = Limit[t] - Cardinality(HoldersIn(call', t)) - Len(queue'[t])
              /\ Len(queue'[t]) <= (IF capacity'[t] < 0 THEN -capacity'[t] ELSE 0)
              /\ capacity'[t] + Len(queue'[t]) + Cardinality(OrphansIn(call', t)) >= 0
          <6>1. capacity'[t] = Limit[t] - Cardinality(HoldersIn(call', t)) - Len(queue'[t])
            <7>1. capacity'[t] = capacity[t] - 1
              BY <3>5
            <7>2. capacity[t] - 1 = Limit[t] - (Cardinality(HoldersIn(call, t)) + 1) - Len(queue[t])
              BY <5>0, <5>2
            <7>3. Cardinality(HoldersIn(call', t)) = Cardinality(HoldersIn(call, t)) + 1
              BY <5>3
            <7>4. Len(queue'[t]) = Len(queue[t])
              BY <5>3
            <7> QED
              BY <7>1, <7>2, <7>3, <7>4
          <6>2. Len(queue'[t]) <= (IF capacity'[t] < 0 THEN -capacity'[t] ELSE 0)
            BY <2>4, <3>5, <5>1, <5>2, <5>3
          <6>3. capacity'[t] + Len(queue'[t]) + Cardinality(OrphansIn(call', t)) >= 0
            BY <2>4, <3>5, <5>1, <5>2, <5>3
          <6> QED
            BY <6>1, <6>2, <6>3
        <5> QED
          BY <4>2, <5>4
      <4> QED
        BY <4>1, <4>2
    <3> QED
      BY <1>0, <2>1, <3>1, <3>2, <3>4, <3>5, <3>6, InvInOtherWords, InvAfterwards
  <2> QED
    BY <2>3, <2>4
<1> QED
  BY <1>1, <1>2 DEF Throttle

\* What dequeue and remove have in common: a unit is given back and the next
\* item is resolved, from a queue that lost at most one item to the orphans.
LEMMA UnitReturned ==
  ASSUME CCInv, enabled, enabled' = enabled,
         NEW t \in QueueTypes, Limit[t] > 0,
         NEW states \in [Calls -> CallStates], NEW items, WellQueued(t, items, states),
         \A u \in QueueTypes \ {t} : /\ QueuedIn(states, u) = QueuedIn(call, u)
                                     /\ HoldersIn(states, u) = HoldersIn(call, u)
                                     /\ OrphansIn(states, u) = OrphansIn(call, u),
         Cardinality(HoldersIn(states, t)) + Len(items) = Cardinality(HoldersIn(call, t)) + Len(queue[t]) - 1,
         Len(items) <= Len(queue[t]),
         Cardinality(OrphansIn(states, t)) + Len(items) >= Cardinality(OrphansIn(call, t)) + Len(queue[t]),
         capacity' = [capacity EXCEPT ![t] = @ + 1],
         ResolveNext(t, items, states)
  PROVE  CCInv'
<1>1. /\ call' \in [Calls -> CallStates]
      /\ queue' \in [QueueTypes -> Seq(Calls)]
      /\ WellQueued(t, queue'[t], call')
      /\ Len(queue'[t]) = (IF Len(items) = 0 THEN 0 ELSE Len(items) - 1)
      /\ Cardinality(HoldersIn(call', t)) + Len(queue'[t])
           = Cardinality(HoldersIn(states, t)) + Len(items)
      /\ \A u \in QueueTypes \ {t} : /\ queue'[u] = queue[u]
                                     /\ HoldersIn(call', u) = HoldersIn(states, u)
                                     /\ QueuedIn(call', u) = QueuedIn(states, u)
      /\ \A u \in QueueTypes : OrphansIn(call', u) = OrphansIn(states, u)
  BY InvInOtherWords, ResolveNextMovesOne
<1>2. /\ capacity \in [QueueTypes -> Int] /\ capacity' \in [QueueTypes -> Int]
      /\ capacity'[t] = capacity[t] + 1
      /\ \A u \in QueueTypes \ {t} : capacity'[u] = capacity[u]
  BY InvInOtherWords
<1>3. \A u \in QueueTypes : WellQueued(u, queue'[u], call')
  BY <1>1, InvInOtherWords DEF WellQueued
<1>4. ASSUME NEW u \in QueueTypes \ {t}
      PROVE  /\ capacity'[u] = Limit[u] - Cardinality(HoldersIn(call', u)) - Len(queue'[u])
             /\ Len(queue'[u]) <= (IF capacity'[u] < 0 THEN -capacity'[u] ELSE 0)
             /\ Limit[u] > 0 => capacity'[u] + Len(queue'[u]) + Cardinality(OrphansIn(call', u)) >= 0
  <2>1. /\ capacity[u] = Limit[u] - Cardinality(HoldersIn(call, u)) - Len(queue[u])
        /\ Len(queue[u]) <= (IF capacity[u] < 0 THEN -capacity[u] ELSE 0)
        /\ Limit[u] > 0 => capacity[u] + Len(queue[u]) + Cardinality(OrphansIn(call, u)) >= 0
    BY InvInOtherWords
  <2>2. /\ HoldersIn(call', u) = HoldersIn(call, u) /\ OrphansIn(call', u) = OrphansIn(call, u)
        /\ queue'[u] = queue[u] /\ capacity'[u] = capacity[u]
    BY <1>1, <1>2
  <2> QED
    BY <2>1, <2>2
<1>5. /\ capacity'[t] = Limit[t] - Cardinality(HoldersIn(call', t)) - Len(queue'[t])
      /\ Len(queue'[t]) <= (IF capacity'[t] < 0 THEN -capacity'[t] ELSE 0)
      /\ capacity'[t] + Len(queue'[t]) + Cardinality(OrphansIn(call', t)) >= 0
  <2> DEFINE cap == capacity[t]
             lim == Limit[t]
             h == Cardinality(HoldersIn(call, t))
             hs == Cardinality(HoldersIn(states, t))
             ha == Cardinality(HoldersIn(call', t))
             o == Cardinality(OrphansIn(call, t))
             os == Cardinality(OrphansIn(states, t))
             n == Len(queue[t])
             ns == Len(items)
             na == Len(queue'[t])
  <2>1. /\ cap \in Int /\ lim \in Int /\ h \in Nat /\ hs \in Nat /\ ha \in Nat
        /\ o \in Nat /\ os \in Nat
    BY <1>2, ConfigFacts, FiniteCalls
  <2>2. n \in Nat /\ ns \in Nat /\ na \in Nat
    BY <1>1, InvInOtherWords DEF WellQueued
  <2>3. cap = lim - h - n /\ n <= (IF cap < 0 THEN -cap ELSE 0) /\ cap + n + o >= 0
    BY InvInOtherWords
  <2>4. hs + ns = h + n - 1 /\ ns <= n /\ os + ns >= o + n
    OBVIOUS
  <2>5. na = (IF ns = 0 THEN 0 ELSE ns - 1) /\ ha + na = hs + ns
    BY <1>1
  <2>6. Cardinality(OrphansIn(call', t)) = os /\ capacity'[t] = cap + 1
    BY <1>1, <1>2
  <2> HIDE DEF cap, lim, h, hs, ha, o, os, n, ns, na
  <2>7. cap + 1 = lim - ha - na
    BY <2>1, <2>2, <2>3, <2>4, <2>5
  <2>8. na <= (IF cap + 1 < 0 THEN -(cap + 1) ELSE 0)
    BY <2>1, <2>2, <2>3, <2>4, <2>5
  <2>9. cap + 1 + na + os >= 0
    BY <2>1, <2>2, <2>3, <2>4, <2>5
  <2> QED
    BY <2>6, <2>7, <2>8, <2>9 DEF lim, ha, na
<1> QED
  BY <1>1, <1>2, <1>3, <1>4, <1>5, InvInOtherWords, InvAfterwards

LEMMA AcquireKeepsInv ==
  ASSUME CCInv, NEW c \in Calls, Acquire(c)
  PROVE  CCInv'
<1>1. call[c] = "granted" /\ call' = [call EXCEPT ![c] = "held"] /\ UNCHANGED <<enabled, capacity, queue>>
  BY DEF Acquire
<1>2. call' \in [Calls -> CallStates]
  BY <1>1, InvInOtherWords DEF CallStates
<1>3. \A t \in QueueTypes : /\ QueuedIn(call', t) = QueuedIn(call, t)
                            /\ HoldersIn(call', t) = HoldersIn(call, t)
                            /\ OrphansIn(call', t) = OrphansIn(call, t)
  BY <1>1, InvInOtherWords DEF QueuedIn, HoldersIn, OrphansIn, Holding
<1> QED
  BY <1>1, <1>2, <1>3, InvInOtherWords, InvAfterwards DEF WellQueued

LEMMA DisableKeepsInv ==
  ASSUME CCInv, Disable
  PROVE  CCInv'
  BY InvInOtherWords, InvAfterwards DEF Disable, WellQueued

LEMMA ReleaseKeepsInv ==
  ASSUME CCInv, NEW c \in Calls, Release(c)
  PROVE  CCInv'
<1> DEFINE released == [call EXCEPT ![c] = "released"]
<1>0. call[c] = "held" /\ enabled' = enabled
  BY DEF Release
<1>1. released \in [Calls -> CallStates]
  BY InvInOtherWords DEF CallStates
<1>2. \A t \in QueueTypes : /\ QueuedIn(released, t) = QueuedIn(call, t)
                            /\ OrphansIn(released, t) = OrphansIn(call, t)
                            /\ QueueOf(c) # t => HoldersIn(released, t) = HoldersIn(call, t)
  BY <1>0, InvInOtherWords DEF QueuedIn, OrphansIn, HoldersIn, Holding
<1>3. CASE ~Limited(c) /\ call' = released /\ UNCHANGED <<capacity, queue>>
  <2>1. enabled => \A t \in QueueTypes : HoldersIn(call', t) = HoldersIn(call, t)
    BY <1>2, <1>3, ConfigFacts DEF Limited
  <2> QED
    BY <1>0, <1>1, <1>2, <1>3, <2>1, InvInOtherWords, InvAfterwards DEF WellQueued
<1>4. CASE Limited(c) /\ Dequeue(QueueOf(c), released)
  <2>0. PICK t \in QueueTypes : t = QueueOf(c)
    BY <1>4, ConfigFacts DEF Limited
  <2>1. enabled /\ Limit[t] > 0
    BY <1>4, <2>0, ConfigFacts DEF Limited
  <2>2. capacity' = [capacity EXCEPT ![t] = @ + 1] /\ ResolveNext(t, queue[t], released)
    BY <1>4, <2>0 DEF Dequeue
  <2>3. WellQueued(t, queue[t], released)
    BY <1>2, InvInOtherWords DEF WellQueued
  <2>4. Cardinality(HoldersIn(released, t)) = Cardinality(HoldersIn(call, t)) - 1
    <3>1. c \in HoldersIn(call, t) /\ HoldersIn(released, t) = HoldersIn(call, t) \ {c}
      BY <1>0, <2>0, InvInOtherWords DEF HoldersIn, Holding
    <3> QED
      BY <3>1, FiniteCalls, FS_RemoveElement
  <2>5. /\ Cardinality(HoldersIn(call, t)) \in Nat /\ Cardinality(OrphansIn(call, t)) \in Nat
        /\ Len(queue[t]) \in Nat
    BY FiniteCalls, InvInOtherWords
  <2>6. Cardinality(HoldersIn(released, t)) + Len(queue[t])
          = Cardinality(HoldersIn(call, t)) + Len(queue[t]) - 1
    BY <2>4, <2>5
  <2>7. Cardinality(OrphansIn(released, t)) + Len(queue[t])
          >= Cardinality(OrphansIn(call, t)) + Len(queue[t])
    <3>1. Cardinality(OrphansIn(released, t)) = Cardinality(OrphansIn(call, t))
      BY <1>2
    <3> HIDE DEF released
    <3> QED
      BY <2>5, <3>1
  <2>8. \A u \in QueueTypes \ {t} : /\ QueuedIn(released, u) = QueuedIn(call, u)
                                     /\ HoldersIn(released, u) = HoldersIn(call, u)
                                     /\ OrphansIn(released, u) = OrphansIn(call, u)
    BY <1>2, <2>0
  <2>9. Len(queue[t]) <= Len(queue[t])
    BY <2>5
  <2> HIDE DEF released
  <2> QED
    BY <1>0, <1>1, <2>1, <2>2, <2>3, <2>6, <2>7, <2>8, <2>9, UnitReturned
<1> QED
  BY <1>3, <1>4 DEF Release

\* What is left of a queue whose i-th item is spliced out.
LEMMA DropAtFacts ==
  ASSUME NEW items \in Seq(Calls), NEW i \in DOMAIN items
  PROVE  /\ DropAt(items, i) \in Seq(Calls)
         /\ Len(DropAt(items, i)) = Len(items) - 1
         /\ \A j \in DOMAIN DropAt(items, i) :
              /\ j \in Nat \ {0}
              /\ j < i => j \in DOMAIN items /\ DropAt(items, i)[j] = items[j]
              /\ j >= i => j + 1 \in DOMAIN items /\ DropAt(items, i)[j] = items[j + 1]
         /\ \A k \in DOMAIN items :
              /\ k < i => k \in DOMAIN DropAt(items, i)
              /\ k > i => k - 1 \in DOMAIN DropAt(items, i)
<1>1. i \in 1..Len(items) /\ Len(items) \in Nat /\ DOMAIN items = 1..Len(items)
  OBVIOUS
<1>2. /\ SubSeq(items, 1, i - 1) \in Seq(Calls)
      /\ Len(SubSeq(items, 1, i - 1)) = i - 1
      /\ \A j \in 1..(i - 1) : SubSeq(items, 1, i - 1)[j] = items[j]
  BY <1>1
<1>3. /\ SubSeq(items, i + 1, Len(items)) \in Seq(Calls)
      /\ Len(SubSeq(items, i + 1, Len(items))) = Len(items) - i
      /\ \A j \in 1..(Len(items) - i) : SubSeq(items, i + 1, Len(items))[j] = items[i + j]
  BY <1>1
<1> DEFINE front == SubSeq(items, 1, i - 1)
           back == SubSeq(items, i + 1, Len(items))
<1> HIDE DEF front, back
<1>4. DropAt(items, i) = front \o back
  BY DEF DropAt, front, back
<1>5. /\ front \o back \in Seq(Calls)
      /\ Len(front \o back) = Len(items) - 1
      /\ \A j \in 1..(Len(items) - 1) : (front \o back)[j] = IF j < i THEN items[j] ELSE items[j + 1]
  <2>1. /\ front \in Seq(Calls) /\ back \in Seq(Calls)
        /\ Len(front) = i - 1 /\ Len(back) = Len(items) - i
        /\ \A j \in 1..(i - 1) : front[j] = items[j]
        /\ \A j \in 1..(Len(items) - i) : back[j] = items[i + j]
    BY <1>2, <1>3 DEF front, back
  <2>2. front \o back \in Seq(Calls) /\ Len(front \o back) = Len(items) - 1
    <3>1. front \o back \in Seq(Calls)
      BY <2>1
    <3>2. Len(front \o back) = Len(front) + Len(back)
      BY <2>1, ConcatProperties
    <3>3. Len(front) + Len(back) = Len(items) - 1
      BY <1>1, <2>1
    <3> QED
      BY <3>1, <3>2, <3>3
  <2>3. ASSUME NEW j \in 1..(Len(items) - 1)
        PROVE  (front \o back)[j] = IF j < i THEN items[j] ELSE items[j + 1]
    <3>1. CASE j < i
      BY <1>1, <2>1, <3>1
    <3>2. CASE ~(j < i)
      <4>1. j - (i - 1) \in 1..(Len(items) - i) /\ i + (j - (i - 1)) = j + 1
        BY <1>1, <3>2
      <4>2. (front \o back)[j] = back[j - (i - 1)]
        BY <1>1, <2>1, <3>2, <4>1
      <4> QED
        BY <2>1, <3>2, <4>1, <4>2
    <3> QED
      BY <3>1, <3>2
  <2> QED
    BY <2>2, <2>3
<1>6. DOMAIN (front \o back) = 1..(Len(items) - 1)
  <2>1. \A s \in Seq(Calls) : DOMAIN s = 1..Len(s)
    OBVIOUS
  <2> QED
    BY <1>5, <2>1
<1>7. ASSUME NEW j \in 1..(Len(items) - 1)
      PROVE  /\ j \in Nat \ {0}
             /\ j < i => j \in DOMAIN items /\ (front \o back)[j] = items[j]
             /\ j >= i => j + 1 \in DOMAIN items /\ (front \o back)[j] = items[j + 1]
  BY <1>1, <1>5
<1>8. ASSUME NEW k \in DOMAIN items
      PROVE  /\ k < i => k \in 1..(Len(items) - 1)
             /\ k > i => k - 1 \in 1..(Len(items) - 1)
  BY <1>1
<1> QED
  BY <1>4, <1>5, <1>6, <1>7, <1>8

LEMMA RemoveKeepsInv ==
  ASSUME CCInv, NEW id, Remove(id)
  PROVE  CCInv'
<1>0. PICK t \in QueueTypes : \E i \in DOMAIN queue[t] : RemoveItem(t, i)
  BY DEF Remove
<1>1. PICK i \in DOMAIN queue[t] : RemoveItem(t, i)
  BY <1>0
<1> DEFINE c == queue[t][i]
           items == DropAt(queue[t], i)
           states == [call EXCEPT ![c] = "orphaned"]
<1>2. enabled /\ enabled' = enabled
  BY DEF Remove
<1>3. capacity' = [capacity EXCEPT ![t] = @ + 1] /\ ResolveNext(t, items, states)
  BY <1>1 DEF RemoveItem
<1>4. queue[t] \in Seq(Calls) /\ c \in Calls /\ c \in Elements(queue[t])
  BY <1>1, InvInOtherWords DEF Elements
<1>5. call[c] = "queued" /\ QueueOf(c) = t /\ Limit[t] > 0
  <2>1. call[c] = "queued" /\ QueueOf(c) = t
    BY <1>4, InvInOtherWords DEF WellQueued, QueuedIn
  <2> QED
    BY <1>4, <2>1, ConfigFacts
<1>6. states \in [Calls -> CallStates]
  BY <1>4, InvInOtherWords DEF CallStates
<1>7. /\ \A u \in QueueTypes : HoldersIn(states, u) = HoldersIn(call, u)
      /\ \A u \in QueueTypes \ {t} : /\ QueuedIn(states, u) = QueuedIn(call, u)
                                     /\ OrphansIn(states, u) = OrphansIn(call, u)
      /\ QueuedIn(states, t) = QueuedIn(call, t) \ {c}
      /\ OrphansIn(states, t) = OrphansIn(call, t) \cup {c} /\ c \notin OrphansIn(call, t)
  BY <1>4, <1>5, InvInOtherWords DEF QueuedIn, HoldersIn, OrphansIn, Holding
<1>8. Cardinality(OrphansIn(states, t)) = Cardinality(OrphansIn(call, t)) + 1
  BY <1>7, FiniteCalls, FS_AddElement
<1>9. WellQueued(t, items, states)
  <2>1. /\ items \in Seq(Calls)
        /\ \A j \in DOMAIN items :
              /\ j \in Nat \ {0}
              /\ j < i => j \in DOMAIN queue[t] /\ items[j] = queue[t][j]
              /\ j >= i => j + 1 \in DOMAIN queue[t] /\ items[j] = queue[t][j + 1]
        /\ \A k \in DOMAIN queue[t] :
              /\ k < i => k \in DOMAIN items
              /\ k > i => k - 1 \in DOMAIN items
    BY <1>1, <1>4, DropAtFacts
  <2>2. \A j, k \in DOMAIN queue[t] : queue[t][j] = queue[t][k] => j = k
    BY <1>1, InvInOtherWords DEF WellQueued
  <2>3. i \in Nat \ {0} /\ DOMAIN queue[t] \subseteq Nat
    BY <1>1, <1>4
  <2>4. Elements(queue[t]) = QueuedIn(call, t)
    BY InvInOtherWords DEF WellQueued
  <2> HIDE DEF items, states
  <2>5. \A j, k \in DOMAIN items : items[j] = items[k] => j = k
    <3>1. SUFFICES ASSUME NEW j \in DOMAIN items, NEW k \in DOMAIN items, items[j] = items[k]
                   PROVE  j = k
      OBVIOUS
    <3>2. CASE j < i /\ k < i
      BY <2>1, <2>2, <3>1, <3>2
    <3>3. CASE j >= i /\ k >= i
      <4>1. j + 1 = k + 1
        BY <2>1, <2>2, <3>1, <3>3
      <4> QED
        BY <2>1, <4>1
    <3>4. CASE j < i /\ k >= i
      <4>1. j = k + 1
        BY <2>1, <2>2, <3>1, <3>4
      <4> QED
        BY <2>1, <2>3, <3>4, <4>1
    <3>5. CASE j >= i /\ k < i
      <4>1. k = j + 1
        BY <2>1, <2>2, <3>1, <3>5
      <4> QED
        BY <2>1, <2>3, <3>5, <4>1
    <3> QED
      BY <2>1, <2>3, <3>2, <3>3, <3>4, <3>5
  <2>6. Elements(items) = Elements(queue[t]) \ {c}
    <3>1. ASSUME NEW j \in DOMAIN items
          PROVE  items[j] \in Elements(queue[t]) \ {c}
      <4>1. CASE j < i
        BY <1>1, <2>1, <2>2, <2>3, <4>1 DEF Elements
      <4>2. CASE j >= i
        <5>1. j + 1 \in DOMAIN queue[t] /\ items[j] = queue[t][j + 1] /\ j + 1 # i
          BY <2>1, <2>3, <4>2
        <5> QED
          BY <1>1, <2>2, <5>1 DEF Elements
      <4> QED
        BY <2>1, <2>3, <4>1, <4>2
    <3>2. ASSUME NEW k \in DOMAIN queue[t], k # i
          PROVE  queue[t][k] \in Elements(items)
      <4>0. k \in Nat /\ i \in Nat
        BY <2>3
      <4>1. CASE k < i
        <5>1. k \in DOMAIN items
          BY <2>1, <4>1
        <5>2. items[k] = queue[t][k]
          BY <2>1, <4>1, <5>1
        <5> QED
          BY <5>1, <5>2 DEF Elements
      <4>2. CASE k > i
        <5>1. k - 1 \in DOMAIN items
          BY <2>1, <4>2
        <5>2. k - 1 >= i /\ (k - 1) + 1 = k
          BY <4>0, <4>2
        <5>3. items[k - 1] = queue[t][k]
          BY <2>1, <5>1, <5>2
        <5> QED
          BY <5>1, <5>3 DEF Elements
      <4>3. k < i \/ k > i
        BY <3>2, <4>0
      <4> QED
        BY <4>1, <4>2, <4>3
    <3>3. Elements(items) \subseteq Elements(queue[t]) \ {c}
      BY <3>1 DEF Elements
    <3>4. Elements(queue[t]) \ {c} \subseteq Elements(items)
      <4>1. SUFFICES ASSUME NEW k \in DOMAIN queue[t], queue[t][k] # c
                     PROVE  queue[t][k] \in Elements(items)
        BY DEF Elements
      <4> QED
        BY <3>2, <4>1
    <3> QED
      BY <3>3, <3>4
  <2> QED
    BY <1>7, <2>1, <2>4, <2>5, <2>6 DEF WellQueued
<1>10. /\ Cardinality(HoldersIn(call, t)) \in Nat /\ Cardinality(OrphansIn(call, t)) \in Nat
       /\ Len(queue[t]) \in Nat \ {0} /\ Len(items) = Len(queue[t]) - 1
  <2>1. Len(queue[t]) \in Nat \ {0}
    BY <1>1, <1>4
  <2>2. Len(items) = Len(queue[t]) - 1
    BY <1>1, <1>4, DropAtFacts
  <2> HIDE DEF items
  <2> QED
    BY <2>1, <2>2, FiniteCalls
<1>11. Cardinality(HoldersIn(states, t)) = Cardinality(HoldersIn(call, t))
  BY <1>7
<1> HIDE DEF items, states
<1>12. /\ Cardinality(HoldersIn(states, t)) + Len(items) = Cardinality(HoldersIn(call, t)) + Len(queue[t]) - 1
       /\ Len(items) <= Len(queue[t])
       /\ Cardinality(OrphansIn(states, t)) + Len(items) >= Cardinality(OrphansIn(call, t)) + Len(queue[t])
  BY <1>8, <1>10, <1>11
<1> QED
  BY <1>2, <1>3, <1>5, <1>6, <1>7, <1>9, <1>12, UnitReturned

-----------------------------------------------------------------------------
\* The invariant is inductive.
LEMMA NextKeepsInv == CCInv /\ [CCNext]_ccVars => CCInv'
<1> SUFFICES ASSUME CCInv, [CCNext]_ccVars PROVE CCInv'
  OBVIOUS
<1>1. CASE \E c \in Calls : Throttle(c) \/ Acquire(c) \/ Release(c)
  BY <1>1, ThrottleKeepsInv, AcquireKeepsInv, ReleaseKeepsInv
<1>2. CASE \E id \in {IdOf[c] : c \in Calls} : Remove(id)
  BY <1>2, RemoveKeepsInv
<1>3. CASE Disable
  BY <1>3, DisableKeepsInv
<1>4. CASE UNCHANGED ccVars
  BY <1>4, InvInOtherWords, InvAfterwards DEF ccVars
<1> QED
  BY <1>1, <1>2, <1>3, <1>4 DEF CCNext

\* CCInv holds in every reachable state of concurrency control, for any
\* number of calls, any limits and any interleaving of throttle, release,
\* stop and shutdown.
THEOREM InvHolds == CCSpec => []CCInv
<1>1. CCInit => CCInv
  BY InitEstablishesInv
<1>2. CCInv /\ [CCNext]_ccVars => CCInv'
  BY NextKeepsInv
<1> QED
  BY <1>1, <1>2, PTL DEF CCSpec

\* The state of the queues and of the calls keeps its types.
THEOREM TypesHold == CCSpec => []TypeOK
  BY InvHolds, PTL DEF CCInv

\* Every waiting execution stands once in its queue: no promise of enqueue()
\* is forgotten, and none is resolved for a call that does not wait.
THEOREM QueuedOnceHolds == CCSpec => []QueuedOnce
  BY InvHolds, PTL DEF CCInv

\* The capacity counter agrees with the calls it counts.
THEOREM AccountingHolds == CCSpec => []CapacityAccounting
  BY InvHolds, PTL DEF CCInv

\* No execution is left waiting while there is room for it.
THEOREM NoIdleCapacityHolds == CCSpec => []NoIdleCapacity
<1>1. CCInv => NoIdleCapacity
  <2>1. SUFFICES ASSUME CCInv, enabled, NEW t \in QueueTypes, queue[t] # <<>>
                 PROVE  Cardinality(Holders(t)) >= Limit[t]
    BY DEF NoIdleCapacity
  <2>2. Holders(t) = HoldersIn(call, t)
    BY DEF Holders, HoldersIn, Holding
  <2>3. /\ capacity[t] = Limit[t] - Cardinality(HoldersIn(call, t)) - Len(queue[t])
        /\ Len(queue[t]) <= (IF capacity[t] < 0 THEN -capacity[t] ELSE 0)
        /\ capacity[t] \in Int /\ Limit[t] \in Int /\ Cardinality(HoldersIn(call, t)) \in Nat
        /\ queue[t] \in Seq(Calls)
    BY <2>1, InvInOtherWords, ConfigFacts, FiniteCalls
  <2>4. Len(queue[t]) \in Nat \ {0}
    BY <2>1, <2>3
  <2> QED
    BY <2>2, <2>3, <2>4
<1> QED
  BY <1>1, InvHolds, PTL

\* The number of executions beyond the limit never exceeds the number of
\* queued executions that were removed.
THEOREM OverrunOnlyByRemovalHolds == CCSpec => []OverrunOnlyByRemoval
<1>1. CCInv => OverrunOnlyByRemoval
  <2>1. SUFFICES ASSUME CCInv, enabled, NEW t \in QueueTypes
                 PROVE  Cardinality(Holders(t))
                          <= (IF Limit[t] > 0 THEN Limit[t] ELSE 0) + Cardinality(Orphans(t))
    BY DEF OverrunOnlyByRemoval
  <2>2. Holders(t) = HoldersIn(call, t) /\ Orphans(t) = OrphansIn(call, t)
    BY DEF Holders, HoldersIn, Orphans, OrphansIn, Holding
  <2>3. /\ Cardinality(HoldersIn(call, t)) \in Nat /\ Cardinality(OrphansIn(call, t)) \in Nat
        /\ Limit[t] \in Int
    BY FiniteCalls, ConfigFacts
  <2>4. CASE Limit[t] > 0
    <3>1. /\ capacity[t] = Limit[t] - Cardinality(HoldersIn(call, t)) - Len(queue[t])
          /\ capacity[t] + Len(queue[t]) + Cardinality(OrphansIn(call, t)) >= 0
          /\ capacity[t] \in Int /\ Len(queue[t]) \in Nat
      BY <2>1, <2>4, InvInOtherWords
    <3> QED
      BY <2>2, <2>3, <2>4, <3>1
  <2>5. CASE ~(Limit[t] > 0)
    <3>1. HoldersIn(call, t) = {}
      BY <2>5, ConfigFacts DEF HoldersIn
    <3> QED
      BY <2>2, <2>3, <2>5, <3>1, FS_EmptySet
  <2> QED
    BY <2>4, <2>5
<1> QED
  BY <1>1, InvHolds, PTL

\* Once shutdown() called disable(), no release and no stop resolves the
\* promise of an execution that still waits for capacity.
THEOREM FrozenAfterDisableHolds == CCSpec => FrozenAfterDisable
<1>1. CCInv /\ [CCNext]_ccVars =>
        [~enabled => \A c \in Calls : call[c] = "queued" => call'[c] = "queued"]_ccVars
  <2>1. SUFFICES ASSUME CCInv, CCNext, ~enabled, NEW c \in Calls, call[c] = "queued"
                 PROVE  call'[c] = "queued"
    BY DEF ccVars
  <2>2. call \in [Calls -> CallStates]
    BY <2>1, InvInOtherWords
  <2>3. ASSUME NEW d \in Calls, Throttle(d) \/ Acquire(d) \/ Release(d)
        PROVE  call'[c] = "queued"
    BY <2>1, <2>2, <2>3 DEF Throttle, Acquire, Release, Limited
  <2>4. ~Disable /\ \A id : ~Remove(id)
    BY <2>1 DEF Disable, Remove
  <2> QED
    BY <2>1, <2>3, <2>4 DEF CCNext
<1> QED
  BY <1>1, InvHolds, PTL DEF CCSpec, FrozenAfterDisable

-----------------------------------------------------------------------------
(***************************************************************************)
(* The refinement of AdmissionControl                                      *)
(***************************************************************************)

Inside == [t \in QueueTypes |-> Holders(t)]

AdmissionVars == <<enabled, queue, Inside>>

LEMMA HoldersAreInside ==
  ASSUME call \in [Calls -> CallStates]
  PROVE  /\ \A t \in QueueTypes : Holders(t) = HoldersIn(call, t) /\ Holders(t)' = HoldersIn(call', t)
         /\ Inside \in [QueueTypes -> SUBSET Calls]
BY DEF Holders, HoldersIn, Holding, Inside

\* resolveNext calls the next client of the lane.
LEMMA ResolveNextCallsNext ==
  ASSUME NEW t \in QueueTypes, NEW states \in [Calls -> CallStates], NEW items \in Seq(Calls),
         \A i \in DOMAIN items : QueueOf(items[i]) = t,
         \A u \in QueueTypes \ {t} : HoldersIn(states, u) = HoldersIn(call, u),
         call \in [Calls -> CallStates],
         ResolveNext(t, items, states)
  PROVE  Admission!CallNext(t, items, HoldersIn(states, t))
<1>1. CASE items = <<>>
  <2>1. \A u \in QueueTypes : HoldersIn(call', u) = HoldersIn(states, u)
    BY <1>1 DEF ResolveNext
  <2>2. Inside' = [Inside EXCEPT ![t] = HoldersIn(states, t)]
    BY <2>1, HoldersAreInside DEF Inside
  <2> QED
    BY <1>1, <2>2 DEF Admission!CallNext, ResolveNext, Inside
<1>2. CASE items # <<>>
  <2>1. Head(items) \in Calls /\ QueueOf(Head(items)) = t
    BY <1>2
  <2>2. call' = [states EXCEPT ![Head(items)] = "granted"]
    BY <1>2 DEF ResolveNext
  <2>3. /\ HoldersIn(call', t) = HoldersIn(states, t) \cup {Head(items)}
        /\ \A u \in QueueTypes \ {t} : HoldersIn(call', u) = HoldersIn(states, u)
    BY <2>1, <2>2 DEF HoldersIn, Holding
  <2>4. Inside' = [Inside EXCEPT ![t] = HoldersIn(states, t) \cup {Head(items)}]
    BY <2>3, HoldersAreInside DEF Inside
  <2> QED
    BY <1>2, <2>4 DEF Admission!CallNext, ResolveNext, Inside
<1> QED
  BY <1>1, <1>2

LEMMA SameCount == ASSUME NEW S PROVE Admission!Cardinality(S) = Cardinality(S)
BY DEF Admission!Cardinality, Cardinality

LEMMA StartAdmits == CCInit => Admission!Init
<1> SUFFICES ASSUME CCInit PROVE Admission!Init
  OBVIOUS
<1>1. Inside = [t \in QueueTypes |-> {}]
  BY DEF CCInit, Inside, Holders
<1> QED
  BY <1>1 DEF CCInit, Admission!Init, Inside

\* enqueue(): whoever takes a unit of capacity goes in, whoever takes one
\* that is not there stands in line.
LEMMA ThrottleAdmits ==
  ASSUME CCInv, NEW c \in Calls, Throttle(c)
  PROVE  Admission!Next \/ UNCHANGED AdmissionVars
<1> DEFINE t == QueueOf(c)
<1>0. /\ call \in [Calls -> CallStates] /\ queue \in [QueueTypes -> Seq(Calls)]
      /\ call[c] = "idle" /\ enabled' = enabled
      /\ enabled \in BOOLEAN /\ t \in QueueTypes \cup {NoQueue}
  BY ConfigFacts DEF CCInv, TypeOK, Throttle
<1>1. ASSUME t \in QueueTypes PROVE Admission!Elsewhere(c) /\ Admission!Lane(c) = t
  <2>1. Admission!Lane(c) = t
    BY DEF Admission!Lane
  <2>2. c \notin Holders(t) /\ c \notin Elements(queue[t])
    BY <1>0, <1>1 DEF Holders, Elements, CCInv, QueuedOnce
  <2> QED
    BY <1>1, <2>1, <2>2 DEF Admission!Elsewhere, Admission!Range, Elements
<1>2. ASSUME t \in QueueTypes, call' = [call EXCEPT ![c] = "granted"]
      PROVE  Inside' = [Inside EXCEPT ![t] = @ \cup {c}]
  <2>1. /\ HoldersIn(call', t) = HoldersIn(call, t) \cup {c}
        /\ \A u \in QueueTypes \ {t} : HoldersIn(call', u) = HoldersIn(call, u)
    BY <1>0, <1>2 DEF HoldersIn, Holding
  <2> QED
    BY <1>0, <1>2, <2>1, HoldersAreInside DEF Inside
<1>3. ASSUME t \in QueueTypes,
             \/ Admission!GoIn(c) \/ Admission!StandInLine(c)
             \/ Admission!Depart(c) \/ Admission!DepartUnnoticed(c)
      PROVE  Admission!Next
  BY <1>3 DEF Admission!Next
<1> HIDE DEF t
<1>4. CASE enabled /\ t \in QueueTypes
  <2>1. Enqueue(t, c)
    BY <1>4 DEF Throttle, Limited, t, NoQueue, QueueTypes
  <2>2. /\ capacity[t] \in Int /\ Limit[t] \in Int
        /\ Cardinality(HoldersIn(call, t)) \in Nat /\ Len(queue[t]) \in Nat
        /\ capacity[t] = Limit[t] - Cardinality(HoldersIn(call, t)) - Len(queue[t])
        /\ Len(queue[t]) <= (IF capacity[t] < 0 THEN -capacity[t] ELSE 0)
    BY <1>0, <1>4, ConfigFacts, FiniteCalls, HoldersAreInside
       DEF CCInv, TypeOK, CapacityAccounting, QueueWithinDebt
  <2>3. Admission!Full(t) <=> Cardinality(HoldersIn(call, t)) >= Limit[t]
    BY <1>0, <1>4, HoldersAreInside, SameCount DEF Admission!Full
  <2>4. CASE capacity[t] - 1 < 0
    <3>1. /\ queue' = [queue EXCEPT ![t] = Append(@, c)]
          /\ call' = [call EXCEPT ![c] = "queued"]
      BY <2>1, <2>4 DEF Enqueue
    <3>2. Admission!Full(t)
      BY <2>2, <2>3, <2>4
    <3>3. \A u \in QueueTypes : HoldersIn(call', u) = HoldersIn(call, u)
      BY <1>0, <3>1 DEF HoldersIn, Holding
    <3>4. Inside' = Inside
      BY <1>0, <3>3, HoldersAreInside DEF Inside
    <3>5. Admission!StandInLine(c)
      BY <1>0, <1>1, <1>4, <3>1, <3>2, <3>4 DEF Admission!StandInLine, Inside
    <3> QED
      BY <1>3, <1>4, <3>5
  <2>5. CASE ~(capacity[t] - 1 < 0)
    <3>1. /\ UNCHANGED queue
          /\ call' = [call EXCEPT ![c] = "granted"]
      BY <2>1, <2>5 DEF Enqueue
    <3>2. ~Admission!Full(t) /\ Len(queue[t]) = 0
      BY <2>2, <2>3, <2>5
    <3>3. queue[t] = <<>>
      BY <1>0, <1>4, <3>2, EmptySeq
    <3>4. Admission!GoIn(c)
      BY <1>0, <1>1, <1>2, <1>4, <3>1, <3>2, <3>3 DEF Admission!GoIn, Inside
    <3> QED
      BY <1>3, <1>4, <3>4
  <2> QED
    BY <2>4, <2>5
<1>5. CASE ~enabled \/ t = NoQueue
  <2>1. call' = [call EXCEPT ![c] = "granted"] /\ UNCHANGED queue
    BY <1>5 DEF Throttle, Limited, t
  <2>2. CASE t \in QueueTypes
    <3>1. ~enabled
      BY <1>5, <2>2, ConfigFacts
    <3>2. Admission!GoIn(c)
      BY <1>0, <1>1, <1>2, <2>1, <2>2, <3>1 DEF Admission!GoIn, Inside
    <3> QED
      BY <1>3, <2>2, <3>2
  <2>3. CASE t = NoQueue
    <3>1. \A u \in QueueTypes : HoldersIn(call', u) = HoldersIn(call, u)
      BY <1>0, <2>1, <2>3, ConfigFacts DEF HoldersIn, t
    <3> QED
      BY <1>0, <2>1, <3>1, HoldersAreInside DEF AdmissionVars, Inside
  <2> QED
    BY <1>0, <2>2, <2>3
<1> QED
  BY <1>0, <1>4, <1>5

LEMMA AcquireAdmits ==
  ASSUME CCInv, NEW c \in Calls, Acquire(c)
  PROVE  UNCHANGED AdmissionVars
<1>1. \A u \in QueueTypes : HoldersIn(call', u) = HoldersIn(call, u)
  BY DEF Acquire, HoldersIn, Holding, CCInv, TypeOK
<1> QED
  BY <1>1, HoldersAreInside DEF Acquire, AdmissionVars, Inside, CCInv, TypeOK

\* release(): a departure lets the next one in, unless the doors are closed.
LEMMA ReleaseAdmits ==
  ASSUME CCInv, NEW c \in Calls, Release(c)
  PROVE  Admission!Next \/ UNCHANGED AdmissionVars
<1> DEFINE t == QueueOf(c)
           released == [call EXCEPT ![c] = "released"]
<1>0. /\ call \in [Calls -> CallStates] /\ queue \in [QueueTypes -> Seq(Calls)]
      /\ released \in [Calls -> CallStates]
      /\ call[c] = "held" /\ enabled' = enabled
      /\ enabled \in BOOLEAN /\ t \in QueueTypes \cup {NoQueue}
  BY ConfigFacts DEF CCInv, TypeOK, Release, CallStates
<1>1. /\ t \in QueueTypes => HoldersIn(released, t) = HoldersIn(call, t) \ {c} /\ c \in HoldersIn(call, t)
      /\ \A u \in QueueTypes \ {t} : HoldersIn(released, u) = HoldersIn(call, u)
  BY <1>0 DEF HoldersIn, Holding
<1>2. Admission!Lane(c) = t
  BY DEF Admission!Lane
<1>3. ASSUME t \in QueueTypes, Admission!Depart(c) \/ Admission!DepartUnnoticed(c)
      PROVE  Admission!Next
  BY <1>3 DEF Admission!Next
<1> HIDE DEF t, released
<1>4. CASE Limited(c) /\ Dequeue(t, released)
  <2>1. enabled /\ t \in QueueTypes /\ ResolveNext(t, queue[t], released)
    BY <1>0, <1>4 DEF Limited, Dequeue, t
  <2>2. \A i \in DOMAIN queue[t] : QueueOf(queue[t][i]) = t
    BY <2>1 DEF CCInv, QueuedOnce
  <2>3. Admission!CallNext(t, queue[t], HoldersIn(released, t))
    BY <1>0, <1>1, <2>1, <2>2, ResolveNextCallsNext
  <2>4. /\ c \in Inside[t] /\ HoldersIn(released, t) = Inside[t] \ {c}
    BY <1>0, <1>1, <2>1, HoldersAreInside DEF Inside
  <2>5. Admission!Depart(c)
    BY <1>0, <1>2, <2>1, <2>3, <2>4 DEF Admission!Depart, Inside
  <2> QED
    BY <1>3, <2>1, <2>5
<1>5. CASE ~Limited(c) /\ call' = released /\ UNCHANGED queue
  <2>1. CASE t \in QueueTypes
    <3>1. ~enabled
      BY <1>5, <2>1, ConfigFacts DEF Limited, t
    <3>2. Inside' = [Inside EXCEPT ![t] = @ \ {c}] /\ c \in Inside[t]
      BY <1>0, <1>1, <1>5, <2>1, HoldersAreInside DEF Inside
    <3>3. Admission!DepartUnnoticed(c)
      BY <1>0, <1>2, <1>5, <2>1, <3>1, <3>2 DEF Admission!DepartUnnoticed, Inside
    <3> QED
      BY <1>3, <2>1, <3>3
  <2>2. CASE t \notin QueueTypes
    BY <1>0, <1>1, <1>5, <2>2, HoldersAreInside DEF AdmissionVars, Inside
  <2> QED
    BY <2>1, <2>2
<1> QED
  BY <1>4, <1>5 DEF Release, t, released

LEMMA WhatDropAtLeaves ==
  ASSUME NEW items \in Seq(Calls), NEW i \in DOMAIN items
  PROVE  \A j \in DOMAIN DropAt(items, i) :
           \E k \in DOMAIN items : DropAt(items, i)[j] = items[k]
<1> DEFINE left == DropAt(items, i)
<1>1. /\ i \in Int
      /\ \A j \in DOMAIN left :
           /\ j \in Nat \ {0}
           /\ j < i => j \in DOMAIN items /\ left[j] = items[j]
           /\ j >= i => j + 1 \in DOMAIN items /\ left[j] = items[j + 1]
  BY DropAtFacts
<1> HIDE DEF left
<1>2. ASSUME NEW j \in DOMAIN left PROVE \E k \in DOMAIN items : left[j] = items[k]
  BY <1>1
<1> QED
  BY <1>2 DEF left

\* remove(): whoever gives up passes its turn on.
LEMMA RemoveAdmits ==
  ASSUME CCInv, NEW id, Remove(id)
  PROVE  Admission!Next
<1>1. PICK t \in QueueTypes : \E i \in DOMAIN queue[t] : RemoveItem(t, i)
  BY DEF Remove
<1>2. PICK i \in DOMAIN queue[t] : RemoveItem(t, i)
  BY <1>1
<1> DEFINE c == queue[t][i]
           removed == [call EXCEPT ![c] = "orphaned"]
<1>3. /\ call \in [Calls -> CallStates] /\ queue \in [QueueTypes -> Seq(Calls)]
      /\ queue[t] \in Seq(Calls)
      /\ enabled /\ UNCHANGED enabled
  BY DEF CCInv, TypeOK, Remove
<1>4. /\ c \in Calls /\ QueueOf(c) = t /\ call[c] = "queued"
      /\ \A j \in DOMAIN queue[t] : QueueOf(queue[t][j]) = t
  BY <1>2, <1>3 DEF CCInv, QueuedOnce
<1>5. /\ removed \in [Calls -> CallStates]
      /\ \A u \in QueueTypes : HoldersIn(removed, u) = HoldersIn(call, u)
  BY <1>3, <1>4 DEF HoldersIn, Holding, CallStates
<1>6. /\ DropAt(queue[t], i) \in Seq(Calls)
      /\ \A j \in DOMAIN DropAt(queue[t], i) : QueueOf(DropAt(queue[t], i)[j]) = t
  <2>1. \A j \in DOMAIN DropAt(queue[t], i) :
          \E k \in DOMAIN queue[t] : DropAt(queue[t], i)[j] = queue[t][k]
    BY <1>3, WhatDropAtLeaves
  <2> QED
    BY <1>2, <1>3, <1>4, <2>1, DropAtFacts
<1>7. ResolveNext(t, DropAt(queue[t], i), removed)
  BY <1>2 DEF RemoveItem
<1> HIDE DEF removed
<1>8. Admission!CallNext(t, DropAt(queue[t], i), HoldersIn(removed, t))
  BY <1>3, <1>5, <1>6, <1>7, ResolveNextCallsNext
<1>9. HoldersIn(removed, t) = Inside[t]
  BY <1>3, <1>5, HoldersAreInside DEF Inside
<1>10. Admission!GiveUp(c)
  <2>1. Admission!Lane(c) = t
    BY <1>4 DEF Admission!Lane
  <2>2. Admission!RemoveAt(queue[t], i) = DropAt(queue[t], i)
    BY DEF Admission!RemoveAt, DropAt
  <2> QED
    BY <1>3, <1>8, <1>9, <2>1, <2>2 DEF Admission!GiveUp, Inside
<1> QED
  BY <1>4, <1>10 DEF Admission!Next

\* The counters and promises of the two queues do what AdmissionControl
\* allows: nobody goes in out of turn, and nobody stands in line while there
\* is room.
THEOREM AdmissionHolds == CCSpec => AdmissionSpec
<1>1. CCInv /\ [CCNext]_ccVars => [Admission!Next]_AdmissionVars
  <2> SUFFICES ASSUME CCInv, [CCNext]_ccVars PROVE Admission!Next \/ UNCHANGED AdmissionVars
    OBVIOUS
  <2>1. CASE UNCHANGED ccVars
    BY <2>1, HoldersAreInside DEF ccVars, AdmissionVars, Inside, CCInv, TypeOK
  <2>2. CASE Disable
    <3>1. UNCHANGED <<queue, Inside>> /\ enabled /\ enabled' = FALSE
      BY <2>2, HoldersAreInside DEF Disable, Inside, CCInv, TypeOK
    <3> QED
      BY <3>1 DEF Admission!Next, Admission!Close, Inside
  <2>3. CASE \E c \in Calls : Throttle(c) \/ Acquire(c) \/ Release(c)
    BY <2>3, ThrottleAdmits, AcquireAdmits, ReleaseAdmits
  <2>4. CASE \E id \in {IdOf[c] : c \in Calls} : Remove(id)
    BY <2>4, RemoveAdmits
  <2> QED
    BY <2>1, <2>2, <2>3, <2>4 DEF CCNext
<1>2. AdmissionVars = Admission!vars
  BY DEF AdmissionVars, Admission!vars, Inside
<1>3. CCInv /\ [CCNext]_ccVars => [Admission!Next]_(Admission!vars)
  BY <1>1 DEF AdmissionVars, Admission!vars, Inside
<1> QED
  BY <1>3, StartAdmits, InvHolds, PTL DEF CCSpec, AdmissionSpec, Admission!Spec
=============================================================================

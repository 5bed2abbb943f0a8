-------------------------- MODULE TaskBrokerProofs --------------------------
(***************************************************************************)
(* For any number of requests, connections and offers: a request has one   *)
(* task (OneTaskPerRequestHolds), an awaited task has its timeout          *)
(* (AwaitedTaskIsTimedHolds), settings only reach a task that waits for    *)
(* them (SettingsAreExpectedHolds), and offers fit the slots of the runner *)
(* (OffersFitConcurrencyHolds).                                            *)
(***************************************************************************)
EXTENDS TaskBroker, FiniteSetTheorems, SequenceTheorems, WellFoundedInduction, TLAPS

-----------------------------------------------------------------------------
(***************************************************************************)
(* Induction over sets of numbers, and what it says of FoldLeft: the       *)
(* function that FoldLeft is defined with exists, is unique, and stays in  *)
(* every set that one step stays in.                                       *)
(***************************************************************************)

\* Less-than on the naturals is well founded.
LEMMA LessIsWellFounded == IsWellFoundedOn({ss \in Nat \X Nat : ss[1] < ss[2]}, Nat)
BY NatLessThanWellFounded DEF OpToRel

\* Induction, for what a set can say.
LEMMA NatSetInduction ==
  ASSUME NEW S, 0 \in S, \A n \in Nat : n \in S => n + 1 \in S
  PROVE  Nat \subseteq S
<1> DEFINE T == {n \in Nat : n \notin S}
           R == {ss \in Nat \X Nat : ss[1] < ss[2]}
<1> SUFFICES ASSUME T # {} PROVE FALSE
  OBVIOUS
<1>1. PICK x \in T : \A y \in T : <<y, x>> \notin R
  <2>1. T \subseteq Nat
    OBVIOUS
  <2>2. IsWellFoundedOn(R, Nat)
    BY LessIsWellFounded
  <2> HIDE DEF T, R
  <2> QED
    BY <2>1, <2>2, WFMin
<1>2. \A y \in T : ~(y < x)
  BY <1>1
<1>3. x # 0 /\ x \in Nat
  OBVIOUS
<1>4. x - 1 \in Nat /\ x - 1 < x /\ (x - 1) + 1 = x
  BY <1>3
<1> QED
  BY <1>2, <1>3, <1>4

\* A set of numbers up to a bound has a greatest one,
LEMMA GreatestExists ==
  ASSUME NEW n \in Nat, NEW t \in SUBSET (1..n), t # {}
  PROVE  \E x \in t : \A y \in t : x >= y
<1> DEFINE S == {k \in Nat : \A u \in SUBSET (1..k) : u # {} => \E x \in u : \A y \in u : x >= y}
<1>1. 0 \in S
  <2>1. 1..0 = {}
    OBVIOUS
  <2> QED
    BY <2>1
<1>2. ASSUME NEW k \in Nat, k \in S PROVE k + 1 \in S
  <2> SUFFICES ASSUME NEW u \in SUBSET (1..(k + 1)), u # {}
               PROVE  \E x \in u : \A y \in u : x >= y
    OBVIOUS
  <2>1. CASE k + 1 \in u
    BY <2>1
  <2>2. CASE k + 1 \notin u
    <3>1. u \in SUBSET (1..k)
      BY <2>2
    <3> QED
      BY <3>1, <1>2
  <2> QED
    BY <2>1, <2>2
<1>3. Nat \subseteq S
  <2> HIDE DEF S
  <2> QED
    BY <1>1, <1>2, NatSetInduction
<1> QED
  BY <1>3

\* which is what Max finds.
LEMMA MaxIsGreatest ==
  ASSUME NEW n \in Nat, NEW t \in SUBSET (1..n), t # {}
  PROVE  Max(t) \in t /\ \A y \in t : Max(t) >= y
BY GreatestExists DEF Max

LEMMA MaxOfInterval ==
  ASSUME NEW n \in Nat, n > 0
  PROVE  Max(1..n) = n /\ (1..n) \ {n} = 1..(n - 1)
<1>1. n \in 1..n
  OBVIOUS
<1>2. Max(1..n) \in 1..n /\ Max(1..n) >= n
  BY <1>1, MaxIsGreatest
<1> QED
  BY <1>2

\* And a set of numbers has a least one.
LEMMA LeastExists ==
  ASSUME NEW n \in Nat, NEW t \in SUBSET (1..n), t # {}
  PROVE  (CHOOSE x \in t : \A y \in t : x <= y) \in t
<1> DEFINE R == {ss \in Nat \X Nat : ss[1] < ss[2]}
<1>1. PICK x \in t : \A y \in t : <<y, x>> \notin R
  <2>1. t \subseteq Nat
    OBVIOUS
  <2>2. IsWellFoundedOn(R, Nat)
    BY LessIsWellFounded
  <2> HIDE DEF R
  <2> QED
    BY <2>1, <2>2, WFMin
<1>2. \A y \in t : x <= y
  <2> SUFFICES ASSUME NEW y \in t PROVE x <= y
    OBVIOUS
  <2>1. x \in Nat /\ y \in Nat
    OBVIOUS
  <2>2. <<y, x>> \in Nat \X Nat /\ <<y, x>>[1] = y /\ <<y, x>>[2] = x
    BY <2>1
  <2>3. ~(y < x)
    BY <1>1, <2>1, <2>2
  <2> QED
    BY <2>1, <2>3
<1> QED
  BY <1>2

\* How FoldLeft is defined: over the sets of indices, greatest index last,
IsFold(g, f, base, s) == \A t \in SUBSET (1..Len(s)) :
  g[t] = IF t = {} THEN base ELSE f[g[t \ {Max(t)}]][s[Max(t)]]

\* and the results of the steps, in order.
IsRun(h, f, base, s) ==
  /\ h[0] = base
  /\ \A k \in 1..Len(s) : h[k] = f[h[k - 1]][s[k]]

HasRun(I, f, base, s) ==
  \E g \in [SUBSET (1..Len(s)) -> I], h \in [0..Len(s) -> I] :
    IsFold(g, f, base, s) /\ IsRun(h, f, base, s) /\ g[1..Len(s)] = h[Len(s)]

\* The function FoldLeft is defined with exists, for an operation that is a
\* function and stays in a set.
LEMMA FoldExists ==
  ASSUME NEW E, NEW I, NEW f \in [I -> [E -> I]], NEW base \in I, NEW s \in Seq(E)
  PROVE  \E g \in [SUBSET (1..Len(s)) -> I] : IsFold(g, f, base, s)
<1> DEFINE Is(g, n) == \A t \in SUBSET (1..n) :
             g[t] = IF t = {} THEN base ELSE f[g[t \ {Max(t)}]][s[Max(t)]]
           Has(n) == \E g \in [SUBSET (1..n) -> I] : Is(g, n)
           S == {n \in Nat : n <= Len(s) => Has(n)}
<1>1. 0 \in S
  <2>1. 1..0 = {} /\ SUBSET {} = {{}}
    OBVIOUS
  <2>2. [t \in SUBSET (1..0) |-> base] \in [SUBSET (1..0) -> I] /\ Is([t \in SUBSET (1..0) |-> base], 0)
    BY <2>1
  <2> QED
    BY <2>2
<1>2. ASSUME NEW n \in Nat, n \in S PROVE n + 1 \in S
  <2> SUFFICES ASSUME n + 1 <= Len(s)
               PROVE  Has(n + 1)
    <3> HIDE DEF Has
    <3> QED
      OBVIOUS
  <2>0. \A t \in SUBSET (1..(n + 1)) : t # {} => Max(t) \in t /\ \A y \in t : Max(t) >= y
    <3>1. n + 1 \in Nat
      OBVIOUS
    <3>2. \A m \in Nat : \A t \in SUBSET (1..m) : t # {} => Max(t) \in t /\ \A y \in t : Max(t) >= y
      BY MaxIsGreatest
    <3> QED
      BY ONLY <3>1, <3>2
  <2>1. Len(s) \in Nat /\ n <= Len(s) /\ s[n + 1] \in E
    OBVIOUS
  <2>2. PICK g \in [SUBSET (1..n) -> I] : Is(g, n)
    BY <1>2, <2>1
  <2> DEFINE h == [t \in SUBSET (1..(n + 1)) |->
               IF n + 1 \in t THEN f[g[t \ {n + 1}]][s[n + 1]] ELSE g[t]]
  <2>3. ASSUME NEW t \in SUBSET (1..(n + 1)), n + 1 \in t
        PROVE  /\ t \ {n + 1} \in SUBSET (1..n)
               /\ Max(t) = n + 1 /\ t # {}
               /\ h[t] = f[g[t \ {n + 1}]][s[n + 1]]
               /\ h[t \ {n + 1}] = g[t \ {n + 1}]
    <3>1. t \ {n + 1} \in SUBSET (1..n)
      OBVIOUS
    <3>2. Max(t) \in t /\ Max(t) >= n + 1
      BY ONLY <2>0, <2>3, t \in SUBSET (1..(n + 1))
    <3>3. Max(t) = n + 1
      <4>1. Max(t) \in 1..(n + 1)
        BY <3>2
      <4> HIDE DEF h, Is
      <4> QED
        BY <3>2, <4>1
    <3>4. t \ {n + 1} \in SUBSET (1..(n + 1)) /\ n + 1 \notin t \ {n + 1}
      BY <3>1
    <3> QED
      BY <2>3, <3>1, <3>3, <3>4
  <2>4. ASSUME NEW t \in SUBSET (1..(n + 1)), n + 1 \notin t
        PROVE  t \in SUBSET (1..n) /\ h[t] = g[t]
    BY <2>4
  <2>5. h \in [SUBSET (1..(n + 1)) -> I]
    <3> SUFFICES ASSUME NEW t \in SUBSET (1..(n + 1)) PROVE h[t] \in I
      OBVIOUS
    <3> HIDE DEF h, Is
    <3>1. CASE n + 1 \in t
      <4>1. g[t \ {n + 1}] \in I
        BY <2>3, <3>1
      <4>2. f[g[t \ {n + 1}]] \in [E -> I]
        BY <4>1
      <4> QED
        BY <2>1, <2>3, <3>1, <4>2
    <3>2. CASE n + 1 \notin t
      BY <2>4, <3>2
    <3> QED
      BY <3>1, <3>2
  <2>6. ASSUME NEW t \in SUBSET (1..(n + 1))
        PROVE  h[t] = IF t = {} THEN base ELSE f[h[t \ {Max(t)}]][s[Max(t)]]
    <3> HIDE DEF h
    <3>1. CASE n + 1 \in t
      BY <2>3, <3>1
    <3>2. CASE n + 1 \notin t /\ t # {}
      <4>1. Max(t) \in t
        BY <2>0, <3>2
      <4>2. t \ {Max(t)} \in SUBSET (1..(n + 1)) /\ n + 1 \notin t \ {Max(t)}
        BY <3>2
      <4>3. h[t] = g[t] /\ h[t \ {Max(t)}] = g[t \ {Max(t)}] /\ t \in SUBSET (1..n)
        BY <2>4, <3>2, <4>2
      <4> QED
        BY <2>2, <3>2, <4>3
    <3>3. CASE t = {}
      BY <2>2, <2>4, <3>3
    <3> QED
      BY <3>1, <3>2, <3>3
  <2> QED
    BY <2>5, <2>6
<1>3. Nat \subseteq S
  <2> HIDE DEF S
  <2> QED
    BY <1>1, <1>2, NatSetInduction
<1>4. PICK g \in [SUBSET (1..Len(s)) -> I] : Is(g, Len(s))
  <2>1. Len(s) \in Nat
    OBVIOUS
  <2>2. Has(Len(s))
    <3> HIDE DEF Has
    <3> QED
      BY <1>3, <2>1
  <2> HIDE DEF Is
  <2> QED
    BY <2>2
<1> QED
  BY <1>4 DEF IsFold

\* Two functions that take the same step agree on the whole sequence.
LEMMA FoldUnique ==
  ASSUME NEW n \in Nat, NEW g, NEW h, g[{}] = h[{}],
         \A t \in SUBSET (1..n) :
           t # {} /\ g[t \ {Max(t)}] = h[t \ {Max(t)}] => g[t] = h[t]
  PROVE  g[1..n] = h[1..n]
<1> DEFINE S == {k \in Nat : k <= n => g[1..k] = h[1..k]}
<1>1. 0 \in S
  <2>1. 1..0 = {}
    OBVIOUS
  <2> QED
    BY <2>1
<1>2. ASSUME NEW k \in Nat, k \in S PROVE k + 1 \in S
  <2> SUFFICES ASSUME k + 1 <= n PROVE g[1..(k + 1)] = h[1..(k + 1)]
    OBVIOUS
  <2>1. Max(1..(k + 1)) = k + 1 /\ (1..(k + 1)) \ {k + 1} = 1..k
    BY MaxOfInterval
  <2>2. 1..(k + 1) \in SUBSET (1..n) /\ 1..(k + 1) # {}
    OBVIOUS
  <2>3. g[1..k] = h[1..k]
    BY <1>2
  <2> QED
    BY <2>1, <2>2, <2>3
<1>3. Nat \subseteq S
  <2> HIDE DEF S
  <2> QED
    BY <1>1, <1>2, NatSetInduction
<1> QED
  BY <1>3

\* What FoldExists says of the intervals the fold goes through.
LEMMA FoldRun ==
  ASSUME NEW E, NEW I, NEW f \in [I -> [E -> I]], NEW base \in I, NEW s \in Seq(E)
  PROVE  HasRun(I, f, base, s)
<1>1. PICK g \in [SUBSET (1..Len(s)) -> I] : IsFold(g, f, base, s)
  BY FoldExists
<1> DEFINE h == [k \in 0..Len(s) |-> g[1..k]]
<1>2. Len(s) \in Nat
  OBVIOUS
<1>3. h \in [0..Len(s) -> I]
  <2> SUFFICES ASSUME NEW k \in 0..Len(s) PROVE g[1..k] \in I
    OBVIOUS
  <2>1. 1..k \in SUBSET (1..Len(s))
    BY <1>2
  <2> QED
    BY <2>1
<1>4. h[0] = base
  <2>1. 1..0 = {} /\ {} \in SUBSET (1..Len(s)) /\ 0 \in 0..Len(s)
    BY <1>2
  <2> QED
    BY <1>1, <2>1 DEF IsFold
<1>5. ASSUME NEW k \in 1..Len(s) PROVE h[k] = f[h[k - 1]][s[k]]
  <2> HIDE DEF h
  <2>1. /\ Max(1..k) = k /\ (1..k) \ {k} = 1..(k - 1)
        /\ 1..k # {} /\ 1..k \in SUBSET (1..Len(s))
    <3>1. k \in Nat /\ k > 0 /\ k <= Len(s)
      BY <1>2
    <3>2. Max(1..k) = k /\ (1..k) \ {k} = 1..(k - 1)
      BY <3>1, MaxOfInterval
    <3>3. 1..k # {} /\ 1..k \in SUBSET (1..Len(s))
      <4>1. k \in 1..k /\ \A x \in 1..k : x \in 1..Len(s)
        BY <1>2, <3>1
      <4> QED
        BY <4>1
    <3> QED
      BY <3>2, <3>3
  <2>2. k \in 0..Len(s) /\ k - 1 \in 0..Len(s)
    BY <1>2
  <2>3. g[1..k] = f[g[1..(k - 1)]][s[k]]
    <3>1. g[1..k] = f[g[(1..k) \ {Max(1..k)}]][s[Max(1..k)]]
      BY <1>1, <2>1 DEF IsFold
    <3> QED
      BY <2>1, <3>1
  <2> QED
    BY <2>2, <2>3 DEF h
<1> HIDE DEF h
<1>6. g[1..Len(s)] = h[Len(s)]
  BY <1>2 DEF h
<1> QED
  <2>1. IsRun(h, f, base, s)
    BY <1>4, <1>5 DEF IsRun
  <2> QED
    BY <1>1, <1>3, <1>6, <2>1 DEF HasRun

-----------------------------------------------------------------------------
USE TaskBrokerAssumption

-----------------------------------------------------------------------------
(***************************************************************************)
(* The inductive invariant                                                 *)
(***************************************************************************)

\* A message is in one of the queues, and only once in all of them.
InFlight(queues, m) == \E w \in Connections : \E i \in 1..Len(queues[w]) : queues[w][i] = m

Once(queues, m) ==
  \A v, w \in Connections : \A i \in 1..Len(queues[v]), j \in 1..Len(queues[w]) :
    queues[v][i] = m /\ queues[w][j] = m => v = w /\ i = j

NoDuplicates(s) == \A i, j \in 1..Len(s) : s[i] = s[j] => i = j

Active == {"accepting", "running"}

\* One task at most is active for a request, and the request is marked.
OneActive(states, requests, marked) ==
  /\ \A o \in Offers : states[o] \in Active => requests[o] \in marked
  /\ \A o, p \in Offers :
       states[o] \in Active /\ states[p] \in Active /\ requests[o] = requests[p] => o = p

\* Offers that wait for a request have no task yet.
PendingAreNew(offers, states) ==
  /\ NoDuplicates(offers)
  /\ \A i \in 1..Len(offers) : states[offers[i]] = "none"

\* Offers are made in order, and until an offer has reached the broker it is
\* sent once and unknown there.
OffersAreNew ==
  \A o \in Offers :
    /\ Once(toBroker, Msg("offer", o))
    /\ InFlight(toBroker, Msg("offer", o)) =>
         task[o] = "none" /\ o <= made /\ \A i \in 1..Len(pendingTaskOffers) : pendingTaskOffers[i] # o
    /\ o > made =>
         /\ slot[o] = "none" /\ task[o] = "none"
         /\ \A i \in 1..Len(pendingTaskOffers) : pendingTaskOffers[i] # o

\* A startTask that waits does so for a task of its own.
AwaitedAlone ==
  \A r, q \in Requests :
    requester[r] = "waiting" /\ requester[q] = "waiting" /\ assigned[r] = assigned[q] => r = q

\* A runner accepts a task once and is answered once; until it takes the
\* settings the task waits, unless it is over.
SettingsInOrder ==
  \A o \in Offers :
    /\ Once(toBroker, Msg("accepted", o)) /\ Once(toRunner, Msg("settings", o))
    /\ ~(InFlight(toBroker, Msg("accepted", o)) /\ InFlight(toRunner, Msg("settings", o)))
    /\ InFlight(toBroker, Msg("accepted", o)) \/ InFlight(toRunner, Msg("settings", o))
         => slot[o] \in {"waiting", "over"}

\* A runner is only asked to accept offers that have a task.
AskedHaveTasks(queues, states) ==
  \A o \in Offers : InFlight(queues, Msg("accept", o)) => states[o] # "none"

BrokerInv ==
  /\ TaskTypeOK
  /\ OneActive(task, requestOf, inProgress)
  /\ PendingAreNew(pendingTaskOffers, task)
  /\ OffersAreNew
  /\ AskedHaveTasks(toRunner, task)
  /\ AwaitedTaskIsTimed
  /\ AwaitedAlone
  /\ SettingsInOrder
  /\ OffersFitConcurrency

-----------------------------------------------------------------------------
(***************************************************************************)
(* settleTasks: its two loops                                              *)
(***************************************************************************)

\* What Only goes through,
OnlyGoesThrough(E, keep, s) ==
  \E h \in [0..Len(s) -> Seq(E)] :
    /\ h[0] = <<>>
    /\ \A k \in 1..Len(s) : h[k] = IF s[k] \in keep THEN Append(h[k - 1], s[k]) ELSE h[k - 1]
    /\ Only(s, keep) = h[Len(s)]

LEMMA OnlyRun ==
  ASSUME NEW E, NEW keep, NEW s \in Seq(E)
  PROVE  OnlyGoesThrough(E, keep, s)
<1> DEFINE I == Seq(E)
           f == [a \in I |-> [o \in E |-> IF o \in keep THEN Append(a, o) ELSE a]]
           step(x, t) == IF t = {} THEN <<>> ELSE
              IF s[Max(t)] \in keep THEN Append(x[t \ {Max(t)}], s[Max(t)]) ELSE x[t \ {Max(t)}]
           iter == CHOOSE x : x = [t \in SUBSET (DOMAIN s) |-> step(x, t)]
<1>1. Only(s, keep) = iter[DOMAIN s]
  BY DEF Only, FoldLeft, MapThenFoldSet
<1>2. f \in [I -> [E -> I]] /\ <<>> \in I
  OBVIOUS
<1>3. PICK g \in [SUBSET (1..Len(s)) -> I], h \in [0..Len(s) -> I] :
           IsFold(g, f, <<>>, s) /\ IsRun(h, f, <<>>, s) /\ g[1..Len(s)] = h[Len(s)]
  <2>1. HasRun(I, f, <<>>, s)
    <3> HIDE DEF f, I
    <3> QED
      BY <1>2, FoldRun
  <2> QED
    BY <2>1 DEF HasRun
<1>4. DOMAIN s = 1..Len(s) /\ Len(s) \in Nat
  OBVIOUS
<1>5. \A t \in SUBSET (DOMAIN s) : g[t] = step(g, t)
  <2> SUFFICES ASSUME NEW t \in SUBSET (DOMAIN s), t # {} PROVE g[t] = step(g, t)
    BY <1>3, <1>4 DEF IsFold
  <2>1. Max(t) \in 1..Len(s)
    BY <1>4, MaxIsGreatest
  <2>2. g[t \ {Max(t)}] \in I /\ s[Max(t)] \in E
    BY <1>4, <2>1
  <2> QED
    BY <1>3, <1>4, <2>2 DEF IsFold
<1>6. g = [t \in SUBSET (DOMAIN s) |-> step(g, t)]
  BY <1>4, <1>5
<1>7. iter = [t \in SUBSET (DOMAIN s) |-> step(iter, t)]
  BY <1>6
<1>8. iter[1..Len(s)] = g[1..Len(s)]
  <2>1. \A t \in SUBSET (1..Len(s)) : iter[t] = step(iter, t)
    BY <1>4, <1>7
  <2>2. \A t \in SUBSET (1..Len(s)) : g[t] = step(g, t)
    BY <1>4, <1>5
  <2>3. {} \in SUBSET (1..Len(s))
    OBVIOUS
  <2>4. iter[{}] = g[{}]
    BY <2>1, <2>2, <2>3
  <2>5. \A t \in SUBSET (1..Len(s)) :
           t # {} /\ iter[t \ {Max(t)}] = g[t \ {Max(t)}] => iter[t] = g[t]
    <3> HIDE DEF iter
    <3> QED
      BY <2>1, <2>2
  <2> HIDE DEF iter
  <2> QED
    BY <1>4, <2>4, <2>5, FoldUnique
<1>9. \A k \in 1..Len(s) : h[k] = IF s[k] \in keep THEN Append(h[k - 1], s[k]) ELSE h[k - 1]
  <2> SUFFICES ASSUME NEW k \in 1..Len(s) PROVE h[k] = IF s[k] \in keep THEN Append(h[k - 1], s[k]) ELSE h[k - 1]
    OBVIOUS
  <2>1. h[k - 1] \in I /\ s[k] \in E
    BY <1>4
  <2> QED
    BY <1>3, <2>1 DEF IsRun
<1> QED
  BY <1>1, <1>3, <1>4, <1>8, <1>9 DEF IsRun, OnlyGoesThrough

\* so that it keeps what is in the set, in order, and nothing twice.
LEMMA OnlyKeeps ==
  ASSUME NEW E, NEW keep, NEW s \in Seq(E)
  PROVE  /\ Only(s, keep) \in Seq(E)
         /\ \A i \in 1..Len(Only(s, keep)) : \E j \in 1..Len(s) : s[j] = Only(s, keep)[i]
         /\ NoDuplicates(s) => NoDuplicates(Only(s, keep))
<1>1. PICK h \in [0..Len(s) -> Seq(E)] :
           /\ h[0] = <<>>
           /\ \A k \in 1..Len(s) : h[k] = IF s[k] \in keep THEN Append(h[k - 1], s[k]) ELSE h[k - 1]
           /\ Only(s, keep) = h[Len(s)]
  <2>1. OnlyGoesThrough(E, keep, s)
    BY OnlyRun
  <2> QED
    BY <2>1 DEF OnlyGoesThrough
<1> DEFINE P(k) == /\ \A i \in 1..Len(h[k]) : \E j \in 1..k : s[j] = h[k][i]
                   /\ NoDuplicates(s) => NoDuplicates(h[k])
           S == {k \in Nat : k <= Len(s) => P(k)}
<1>2. Len(s) \in Nat
  OBVIOUS
<1>3. 0 \in S
  BY <1>1, <1>2 DEF NoDuplicates
<1>4. ASSUME NEW k \in Nat, k \in S PROVE k + 1 \in S
  <2> SUFFICES ASSUME k + 1 <= Len(s) PROVE P(k + 1)
    <3> HIDE DEF P
    <3> QED
      OBVIOUS
  <2>1. P(k) /\ k + 1 \in 1..Len(s) /\ h[k] \in Seq(E) /\ s[k + 1] \in E
    <3>1. P(k)
      <4> HIDE DEF P
      <4> QED
        BY <1>4
    <3>2. k + 1 \in 1..Len(s) /\ k \in 0..Len(s)
      BY <1>2
    <3> QED
      BY <1>1, <3>1, <3>2
  <2>2. CASE s[k + 1] \notin keep
    <3>1. h[k + 1] = h[k]
      BY <1>1, <2>1, <2>2
    <3> QED
      BY <2>1, <3>1
  <2>3. CASE s[k + 1] \in keep
    <3>1. h[k + 1] = Append(h[k], s[k + 1])
      <4>1. (k + 1) - 1 = k
        OBVIOUS
      <4> QED
        BY <1>1, <2>1, <2>3, <4>1
    <3>2. /\ Len(h[k + 1]) = Len(h[k]) + 1 /\ Len(h[k]) \in Nat
          /\ \A i \in 1..Len(h[k]) : h[k + 1][i] = h[k][i]
          /\ h[k + 1][Len(h[k]) + 1] = s[k + 1]
      BY <2>1, <3>1, AppendProperties
    <3>3. \A i \in 1..Len(h[k + 1]) : i \in 1..Len(h[k]) \/ i = Len(h[k]) + 1
      BY <3>2
    <3>4. ASSUME NEW i \in 1..Len(h[k + 1]) PROVE \E j \in 1..(k + 1) : s[j] = h[k + 1][i]
      BY <2>1, <3>2, <3>3
    <3>5. ASSUME NoDuplicates(s), NEW i \in 1..Len(h[k]) PROVE h[k][i] # s[k + 1]
      <4>1. PICK j \in 1..k : s[j] = h[k][i]
        BY <2>1
      <4>2. j \in 1..Len(s) /\ j # k + 1
        BY <1>2, <2>1
      <4> QED
        BY <2>1, <3>5, <4>1, <4>2 DEF NoDuplicates
    <3>6. NoDuplicates(s) => NoDuplicates(h[k + 1])
      BY <2>1, <3>2, <3>3, <3>5 DEF NoDuplicates
    <3> QED
      BY <3>4, <3>6
  <2> QED
    BY <2>2, <2>3
<1>5. Nat \subseteq S
  <2> HIDE DEF S
  <2> QED
    BY <1>3, <1>4, NatSetInduction
<1>6. P(Len(s))
  <2> HIDE DEF P
  <2> QED
    BY <1>2, <1>5
<1> QED
  BY <1>1, <1>2, <1>6

\* RemoveAt takes out one element.
LEMMA RemoveAtProperties ==
  ASSUME NEW E, NEW s \in Seq(E), NEW k \in 1..Len(s)
  PROVE  /\ RemoveAt(s, k) \in Seq(E)
         /\ Len(RemoveAt(s, k)) = Len(s) - 1
         /\ \A i \in 1..(Len(s) - 1) : RemoveAt(s, k)[i] = IF i < k THEN s[i] ELSE s[i + 1]
<1> DEFINE a == SubSeq(s, 1, k - 1)
           b == SubSeq(s, k + 1, Len(s))
<1>1. Len(s) \in Nat /\ k \in Nat
  OBVIOUS
<1>2. a \in Seq(E) /\ Len(a) = k - 1 /\ \A i \in 1..(k - 1) : a[i] = s[i]
  OBVIOUS
<1>3. b \in Seq(E) /\ Len(b) = Len(s) - k /\ \A i \in 1..(Len(s) - k) : b[i] = s[k + i]
  OBVIOUS
<1>4. RemoveAt(s, k) = a \o b
  BY DEF RemoveAt
<1> HIDE DEF a, b
<1>5. /\ a \o b \in Seq(E) /\ Len(a \o b) = Len(a) + Len(b)
      /\ \A i \in 1..(Len(a) + Len(b)) : (a \o b)[i] = IF i <= Len(a) THEN a[i] ELSE b[i - Len(a)]
  <2>1. a \in Seq(E) /\ b \in Seq(E)
    BY <1>2, <1>3
  <2>2. a \o b \in Seq(E)
    BY <2>1
  <2>3. Len(a \o b) = Len(a) + Len(b)
    BY <2>1
  <2>4. \A i \in 1..(Len(a) + Len(b)) : (a \o b)[i] = IF i <= Len(a) THEN a[i] ELSE b[i - Len(a)]
    BY <2>1, ConcatProperties
  <2> QED
    BY <2>2, <2>3, <2>4
<1>6. ASSUME NEW i \in 1..(Len(s) - 1) PROVE (a \o b)[i] = IF i < k THEN s[i] ELSE s[i + 1]
  <2>1. CASE i < k
    BY <1>1, <1>2, <1>3, <1>5, <2>1
  <2>2. CASE ~(i < k)
    <3>1. i - (k - 1) \in 1..(Len(s) - k) /\ k + (i - (k - 1)) = i + 1
      BY <1>1, <2>2
    <3>2. ~(i <= Len(a)) /\ i - Len(a) = i - (k - 1) /\ i \in 1..(Len(a) + Len(b))
      BY <1>1, <1>2, <1>3, <2>2
    <3> QED
      BY <1>3, <1>5, <2>2, <3>1, <3>2
  <2> QED
    BY <2>1, <2>2
<1> QED
  BY <1>1, <1>2, <1>3, <1>4, <1>5, <1>6

\* Taking an element out of a list without duplicates leaves it nowhere.
LEMMA RemoveAtRemoves ==
  ASSUME NEW E, NEW s \in Seq(E), NEW k \in 1..Len(s)
  PROVE  /\ RemoveAt(s, k) \in Seq(E)
         /\ \A i \in 1..Len(RemoveAt(s, k)) : \E j \in 1..Len(s) : s[j] = RemoveAt(s, k)[i]
         /\ NoDuplicates(s) => /\ NoDuplicates(RemoveAt(s, k))
                               /\ \A i \in 1..Len(RemoveAt(s, k)) : RemoveAt(s, k)[i] # s[k]
<1> DEFINE r == RemoveAt(s, k)
           at(i) == IF i < k THEN i ELSE i + 1
<1>1. r \in Seq(E) /\ Len(r) = Len(s) - 1
  BY RemoveAtProperties
<1>2. \A i \in 1..Len(r) : r[i] = s[at(i)] /\ at(i) \in 1..Len(s) /\ at(i) # k
  <2> SUFFICES ASSUME NEW i \in 1..Len(r) PROVE r[i] = s[at(i)] /\ at(i) \in 1..Len(s) /\ at(i) # k
    OBVIOUS
  <2>1. i \in 1..(Len(s) - 1) /\ Len(s) \in Nat /\ k \in Nat
    BY <1>1
  <2>2. r[i] = s[at(i)]
    BY <2>1, RemoveAtProperties
  <2> HIDE DEF r
  <2> QED
    BY <2>1, <2>2
<1>3. \A i, j \in 1..Len(r) : at(i) = at(j) => i = j
  BY <1>1
<1> HIDE DEF r, at
<1> QED
  BY <1>1, <1>2, <1>3 DEF NoDuplicates, r

\* What the loop of settleTasks goes through
Rounds == [offers : Seq(Offers), busy : SUBSET Requests, task : [Offers -> TaskStates],
           requestOf : [Offers -> Requests], queues : [Connections -> Seq(Messages)]]

\* stays in a set that one round stays in.
LEMMA MatchStays ==
  ASSUME NEW I, NEW base \in I, NEW s \in Seq(Requests),
         \A a \in I, r \in Requests : Match(a, r) \in I
  PROVE  FoldLeft(Match, base, s) \in I
<1> DEFINE f == [a \in I |-> [r \in Requests |-> Match(a, r)]]
           step(x, t) == IF t = {} THEN base ELSE Match(x[t \ {Max(t)}], s[Max(t)])
           iter == CHOOSE x : x = [t \in SUBSET (DOMAIN s) |-> step(x, t)]
<1>1. FoldLeft(Match, base, s) = iter[DOMAIN s]
  BY DEF FoldLeft, MapThenFoldSet
<1>2. f \in [I -> [Requests -> I]]
  OBVIOUS
<1>3. PICK g \in [SUBSET (1..Len(s)) -> I], h \in [0..Len(s) -> I] :
           IsFold(g, f, base, s) /\ IsRun(h, f, base, s) /\ g[1..Len(s)] = h[Len(s)]
  <2>1. HasRun(I, f, base, s)
    <3> HIDE DEF f
    <3> QED
      BY <1>2, FoldRun
  <2> QED
    BY <2>1 DEF HasRun
<1>4. DOMAIN s = 1..Len(s) /\ Len(s) \in Nat
  OBVIOUS
<1>5. \A t \in SUBSET (DOMAIN s) : g[t] = step(g, t)
  <2> SUFFICES ASSUME NEW t \in SUBSET (DOMAIN s), t # {} PROVE g[t] = step(g, t)
    BY <1>3, <1>4 DEF IsFold
  <2>1. Max(t) \in 1..Len(s)
    BY <1>4, MaxIsGreatest
  <2>2. g[t \ {Max(t)}] \in I /\ s[Max(t)] \in Requests
    BY <1>4, <2>1
  <2> QED
    BY <1>3, <1>4, <2>2 DEF IsFold
<1>6. g = [t \in SUBSET (DOMAIN s) |-> step(g, t)]
  BY <1>4, <1>5
<1>7. iter = [t \in SUBSET (DOMAIN s) |-> step(iter, t)]
  BY <1>6
<1>8. iter[1..Len(s)] = g[1..Len(s)]
  <2>1. \A t \in SUBSET (1..Len(s)) : iter[t] = step(iter, t)
    BY <1>4, <1>7
  <2>2. \A t \in SUBSET (1..Len(s)) : g[t] = step(g, t)
    BY <1>4, <1>5
  <2>3. iter[{}] = g[{}]
    BY <2>1, <2>2, {} \in SUBSET (1..Len(s))
  <2>4. \A t \in SUBSET (1..Len(s)) :
           t # {} /\ iter[t \ {Max(t)}] = g[t \ {Max(t)}] => iter[t] = g[t]
    <3> HIDE DEF iter
    <3> QED
      BY <2>1, <2>2
  <2> HIDE DEF iter
  <2> QED
    BY <1>4, <2>3, <2>4, FoldUnique
<1> HIDE DEF iter
<1> QED
  BY <1>1, <1>3, <1>4, <1>8

-----------------------------------------------------------------------------
(***************************************************************************)
(* The queues                                                              *)
(***************************************************************************)

Queues == [Connections -> Seq(Messages)]

\* What is sent is a message.
LEMMA MessageTypes ==
  ASSUME NEW o \in Offers,
         NEW type \in {"offer", "accept", "accepted", "rejected", "deferred", "settings", "cancel", "end"}
  PROVE  Msg(type, o) \in Messages /\ Msg(type, o).type = type /\ Msg(type, o).task = o
BY DEF Msg, Messages

\* The next message of a type, in full.
LEMMA NextMessage ==
  ASSUME NEW q \in Queues, NEW w \in Connections, NEW type, IsNext(q, w, type)
  PROVE  /\ q[w] \in Seq(Messages) /\ q[w] # <<>>
         /\ Head(q[w]).task \in Offers
         /\ Head(q[w]) = Msg(type, Head(q[w]).task)
<1>1. q[w] \in Seq(Messages) /\ q[w] # <<>> /\ Head(q[w]).type = type
  BY DEF Queues, IsNext
<1>2. Head(q[w]) \in Messages
  BY <1>1
<1> QED
  BY <1>1, <1>2 DEF Msg, Messages

\* Of two states of the queues: the second has nothing new,
LosesOnly(q, r) ==
  /\ r \in Queues
  /\ \A m : InFlight(r, m) => InFlight(q, m)
  /\ \A m : Once(q, m) => Once(r, m)

\* or nothing but the messages of a list.
AddsOnly(q, r, more) ==
  /\ r \in Queues
  /\ \A m : InFlight(r, m) => InFlight(q, m) \/ \E i \in 1..Len(more) : more[i] = m
  /\ \A m : Once(q, m) /\ (\A i \in 1..Len(more) : more[i] # m) => Once(r, m)
  /\ \A m : ~InFlight(q, m) /\ NoDuplicates(more) => Once(r, m)

\* What of one type has become of it.
NothingNew(q, r, type) == \A o \in Offers :
  /\ InFlight(r, Msg(type, o)) => InFlight(q, Msg(type, o))
  /\ Once(q, Msg(type, o)) => Once(r, Msg(type, o))

\* Taking the next message,
LEMMA TakenFromQueue ==
  ASSUME NEW q \in Queues, NEW w \in Connections, q[w] # <<>>
  PROVE  /\ LosesOnly(q, [q EXCEPT ![w] = Tail(@)])
         /\ InFlight(q, Head(q[w]))
         /\ Once(q, Head(q[w])) => ~InFlight([q EXCEPT ![w] = Tail(@)], Head(q[w]))
<1> DEFINE r == [q EXCEPT ![w] = Tail(@)]
<1>1. q[w] \in Seq(Messages) /\ Len(q[w]) \in Nat /\ Len(q[w]) > 0
  BY DEF Queues
<1>2. /\ Tail(q[w]) \in Seq(Messages) /\ Len(Tail(q[w])) = Len(q[w]) - 1
      /\ \A i \in 1..Len(Tail(q[w])) : Tail(q[w])[i] = q[w][i + 1]
      /\ Head(q[w]) = q[w][1]
  BY <1>1, HeadTailProperties
<1>3. r \in Queues /\ r[w] = Tail(q[w]) /\ \A v \in Connections : v # w => r[v] = q[v]
  BY <1>2 DEF Queues
<1> HIDE DEF r
<1> DEFINE at(v, i) == IF v = w THEN i + 1 ELSE i
<1>4. \A v \in Connections : \A i \in 1..Len(r[v]) :
        at(v, i) \in 1..Len(q[v]) /\ r[v][i] = q[v][at(v, i)]
  <2> SUFFICES ASSUME NEW v \in Connections, NEW i \in 1..Len(r[v])
               PROVE  at(v, i) \in 1..Len(q[v]) /\ r[v][i] = q[v][at(v, i)]
    OBVIOUS
  <2>1. CASE v = w
    <3>1. r[v] = Tail(q[w]) /\ i \in 1..Len(Tail(q[w]))
      BY <1>3, <2>1
    <3>2. Tail(q[w])[i] = q[w][i + 1]
      BY <1>2, <3>1
    <3>3. i + 1 \in 1..Len(q[w])
      BY <1>1, <1>2, <3>1
    <3> QED
      BY <2>1, <3>1, <3>2, <3>3
  <2>2. CASE v # w
    BY <1>3, <2>2
  <2> QED
    BY <2>1, <2>2
<1>5. 1 \in 1..Len(q[w])
  BY <1>1
<1>6. \A v \in Connections : \A i, j \in 1..Len(r[v]) : at(v, i) = at(v, j) => i = j
  <2> SUFFICES ASSUME NEW v \in Connections, NEW i \in 1..Len(r[v]), NEW j \in 1..Len(r[v]), at(v, i) = at(v, j)
               PROVE  i = j
    OBVIOUS
  <2> QED
    OBVIOUS
<1>7. \A i \in 1..Len(r[w]) : at(w, i) # 1
  BY <1>1, <1>2, <1>3
<1> HIDE DEF at
<1>8. ASSUME NEW m, Once(q, m) PROVE Once(r, m)
  <2>1. ASSUME NEW u \in Connections, NEW v \in Connections,
               NEW i \in 1..Len(r[u]), NEW j \in 1..Len(r[v]), r[u][i] = m, r[v][j] = m
        PROVE  u = v /\ i = j
    <3>0. /\ at(u, i) \in 1..Len(q[u]) /\ q[u][at(u, i)] = m
          /\ at(v, j) \in 1..Len(q[v]) /\ q[v][at(v, j)] = m
      BY <1>4, <2>1
    <3>1. u = v /\ at(u, i) = at(v, j)
      BY ONLY <1>8, <3>0, u \in Connections, v \in Connections DEF Once
    <3> QED
      BY <1>6, <3>1
  <2> QED
    BY ONLY <2>1 DEF Once
<1>9. ASSUME Once(q, Head(q[w])), InFlight(r, Head(q[w])) PROVE FALSE
  <2>0. PICK v \in Connections : \E i \in 1..Len(r[v]) : r[v][i] = Head(q[w])
    BY <1>9 DEF InFlight
  <2>1. PICK i \in 1..Len(r[v]) : r[v][i] = Head(q[w])
    BY <2>0
  <2>2. v = w /\ at(v, i) = 1
    BY <1>2, <1>4, <1>5, <1>9, <2>1 DEF Once
  <2> QED
    BY <1>7, <2>2
<1>10. \A m : InFlight(r, m) => InFlight(q, m)
  BY <1>4 DEF InFlight
<1>11. InFlight(q, Head(q[w]))
  BY <1>2, <1>5 DEF InFlight
<1> QED
  <2>1. LosesOnly(q, r)
    BY <1>3, <1>8, <1>10 DEF LosesOnly
  <2> QED
    BY <1>9, <1>11, <2>1 DEF r

\* adding messages at the end of one queue,
LEMMA AddedToQueue ==
  ASSUME NEW q \in Queues, NEW w \in Connections, NEW more \in Seq(Messages)
  PROVE  AddsOnly(q, [q EXCEPT ![w] = @ \o more], more)
<1> DEFINE r == [q EXCEPT ![w] = @ \o more]
<1>1. q[w] \in Seq(Messages) /\ Len(q[w]) \in Nat /\ Len(more) \in Nat
  BY DEF Queues
<1>2. /\ q[w] \o more \in Seq(Messages) /\ Len(q[w] \o more) = Len(q[w]) + Len(more)
      /\ \A i \in 1..(Len(q[w]) + Len(more)) :
           (q[w] \o more)[i] = IF i <= Len(q[w]) THEN q[w][i] ELSE more[i - Len(q[w])]
  BY <1>1, ConcatProperties
<1>3. r \in Queues /\ r[w] = q[w] \o more /\ \A v \in Connections : v # w => r[v] = q[v]
  BY <1>2 DEF Queues
<1> HIDE DEF r
<1> DEFINE old(v, i) == i \in 1..Len(q[v]) /\ r[v][i] = q[v][i]
           new(v, i) == /\ v = w /\ i - Len(q[w]) \in 1..Len(more)
                        /\ r[v][i] = more[i - Len(q[w])]
<1>4. ASSUME NEW v \in Connections, NEW i \in 1..Len(r[v]) PROVE i \in Int /\ (old(v, i) \/ new(v, i))
  <2>1. CASE v # w
    BY <1>3, <2>1
  <2>2. CASE v = w
    <3>1. r[v] = q[w] \o more /\ i \in 1..(Len(q[w]) + Len(more))
      BY <1>2, <1>3, <2>2
    <3>2. CASE i <= Len(q[w])
      BY <1>1, <1>2, <2>2, <3>1, <3>2
    <3>3. CASE ~(i <= Len(q[w]))
      BY <1>1, <1>2, <2>2, <3>1, <3>3
    <3> QED
      BY <3>1, <3>2, <3>3
  <2> QED
    BY <2>1, <2>2
<1> HIDE DEF old, new
<1>5. ASSUME NEW m, InFlight(r, m) PROVE InFlight(q, m) \/ \E i \in 1..Len(more) : more[i] = m
  <2>1. PICK v \in Connections : \E i \in 1..Len(r[v]) : r[v][i] = m
    BY <1>5 DEF InFlight
  <2>2. PICK i \in 1..Len(r[v]) : r[v][i] = m
    BY <2>1
  <2> QED
    BY <1>4, <2>2 DEF old, new, InFlight
<1>6. ASSUME NEW m, Once(q, m), \A i \in 1..Len(more) : more[i] # m PROVE Once(r, m)
  <2>1. ASSUME NEW u \in Connections, NEW v \in Connections,
               NEW i \in 1..Len(r[u]), NEW j \in 1..Len(r[v]), r[u][i] = m, r[v][j] = m
        PROVE  u = v /\ i = j
    <3>1. old(u, i) /\ old(v, j)
      BY <1>4, <1>6, <2>1 DEF new
    <3> QED
      BY <1>6, <2>1, <3>1 DEF old, Once
  <2> QED
    BY ONLY <2>1 DEF Once
<1>7. ASSUME NEW m, ~InFlight(q, m), NoDuplicates(more) PROVE Once(r, m)
  <2>1. ASSUME NEW u \in Connections, NEW v \in Connections,
               NEW i \in 1..Len(r[u]), NEW j \in 1..Len(r[v]), r[u][i] = m, r[v][j] = m
        PROVE  u = v /\ i = j
    <3>1. new(u, i) /\ new(v, j) /\ i \in Int /\ j \in Int
      BY <1>4, <1>7, <2>1 DEF old, InFlight
    <3>2. i - Len(q[w]) = j - Len(q[w])
      BY <1>7, <2>1, <3>1 DEF new, NoDuplicates
    <3> QED
      BY <1>1, <3>1, <3>2 DEF new
  <2> QED
    BY ONLY <2>1 DEF Once
<1>8. AddsOnly(q, r, more)
  BY <1>3, <1>5, <1>6, <1>7 DEF AddsOnly
<1> QED
  BY <1>8 DEF r

\* sending one, which a closed socket swallows,
LEMMA SentToQueue ==
  ASSUME NEW q \in Queues, NEW w \in Connections, NEW x \in Messages
  PROVE  AddsOnly(q, Sent(q, w, x), <<x>>)
<1>1. CASE conn[w] # "up"
  <2>1. Sent(q, w, x) = q
    BY <1>1 DEF Sent
  <2>2. \A m : ~InFlight(q, m) => Once(q, m)
    BY DEF InFlight, Once
  <2>3. AddsOnly(q, q, <<x>>)
    BY ONLY <2>2, q \in Queues DEF AddsOnly
  <2> QED
    BY <2>1, <2>3
<1>2. CASE conn[w] = "up"
  <2>1. <<x>> \in Seq(Messages)
    OBVIOUS
  <2>2. q[w] \in Seq(Messages)
    BY DEF Queues
  <2>3. Append(q[w], x) = q[w] \o <<x>>
    BY <2>2, AppendIsConcat
  <2>4. Sent(q, w, x) = [q EXCEPT ![w] = @ \o <<x>>]
    BY <1>2, <2>3 DEF Sent
  <2> DEFINE one == <<x>>
             r == [q EXCEPT ![w] = @ \o one]
  <2>5. r = Sent(q, w, x) /\ one \in Seq(Messages)
    BY <2>1, <2>4
  <2>6. AddsOnly(q, r, one)
    <3> HIDE DEF one
    <3> QED
      BY <2>5, AddedToQueue
  <2> HIDE DEF r
  <2> QED
    BY <2>5, <2>6
<1> QED
  BY <1>1, <1>2

\* of which there is but one,
LEMMA OneIsAdded ==
  ASSUME NEW q, NEW r, NEW x, AddsOnly(q, r, <<x>>)
  PROVE  /\ r \in Queues
         /\ \A m : InFlight(r, m) => InFlight(q, m) \/ m = x
         /\ \A m : Once(q, m) /\ (m = x => ~InFlight(q, m)) => Once(r, m)
<1> DEFINE one == <<x>>
<1>1. Len(one) = 1 /\ one[1] = x
  OBVIOUS
<1>2. AddsOnly(q, r, one)
  OBVIOUS
<1> HIDE DEF one
<1>3. NoDuplicates(one) /\ \A i \in 1..Len(one) : one[i] = x
  BY <1>1 DEF NoDuplicates
<1> QED
  BY <1>2, <1>3 DEF AddsOnly

\* and losing a queue.
LEMMA ClearedQueue ==
  ASSUME NEW q \in Queues, NEW w \in Connections
  PROVE  LosesOnly(q, [q EXCEPT ![w] = <<>>])
<1> DEFINE r == [q EXCEPT ![w] = <<>>]
<1>1. r \in Queues /\ Len(r[w]) = 0 /\ \A v \in Connections : v # w => r[v] = q[v]
  BY DEF Queues
<1> HIDE DEF r
<1>2. \A v \in Connections : \A i \in 1..Len(r[v]) : v # w
  BY <1>1
<1>3. LosesOnly(q, r)
  BY <1>1, <1>2 DEF LosesOnly, InFlight, Once
<1> QED
  BY <1>3 DEF r

-----------------------------------------------------------------------------
(***************************************************************************)
(* What settleTasks has done after any number of rounds                    *)
(***************************************************************************)

\* Matches so far: a request has one task, offers that have a task already
\* keep it, those left have none, and runners were only asked to accept.
Settled(a, offers) ==
  /\ OneActive(a.task, a.requestOf, a.busy)
  /\ PendingAreNew(a.offers, a.task)
  /\ \A i \in 1..Len(a.offers) : \E j \in 1..Len(offers) : offers[j] = a.offers[i]
  /\ \A o \in Offers : a.task[o] # task[o] => task[o] = "none" /\ \E j \in 1..Len(offers) : offers[j] = o
  /\ \A o \in Offers : task[o] # "none" => a.requestOf[o] = requestOf[o]
  /\ AskedHaveTasks(a.queues, a.task)
  /\ NothingNew(toRunner, a.queues, "settings")

\* One more round keeps it so.
LEMMA OneMoreRound ==
  ASSUME owner \in [Offers -> Connections], NEW offers, NEW a \in Rounds, Settled(a, offers),
         NEW r \in Requests
  PROVE  Match(a, r) \in Rounds /\ Settled(Match(a, r), offers)
<1> DEFINE fits == {k \in 1..Len(a.offers) : TypeOf[owner[a.offers[k]]] = TypeOf[r]}
           k == CHOOSE i \in fits : \A j \in fits : i <= j
           o == a.offers[k]
           b == [offers    |-> RemoveAt(a.offers, k),
                 busy      |-> a.busy \cup {r},
                 task      |-> [a.task EXCEPT ![o] = "accepting"],
                 requestOf |-> [a.requestOf EXCEPT ![o] = r],
                 queues    |-> Sent(a.queues, owner[o], Msg("accept", o))]
<1>1. CASE r \in a.busy \/ fits = {}
  BY <1>1 DEF Match
<1>2. CASE r \notin a.busy /\ fits # {}
  <2>1. Match(a, r) = b
    BY <1>2 DEF Match
  <2>2. a.offers \in Seq(Offers) /\ a.busy \subseteq Requests /\ a.task \in [Offers -> TaskStates]
        /\ a.requestOf \in [Offers -> Requests] /\ a.queues \in Queues
    BY DEF Rounds, Queues
  <2>3. k \in fits
    <3>1. Len(a.offers) \in Nat /\ fits \in SUBSET (1..Len(a.offers))
      BY <2>2
    <3> HIDE DEF fits
    <3> QED
      BY <1>2, <3>1, LeastExists
  <2>4. k \in 1..Len(a.offers) /\ o \in Offers /\ owner[o] \in Connections
    <3>1. k \in 1..Len(a.offers)
      BY <2>3
    <3> HIDE DEF k
    <3> QED
      BY <2>2, <3>1
  <2> HIDE DEF k, fits
  <2>5. /\ RemoveAt(a.offers, k) \in Seq(Offers)
        /\ \A i \in 1..Len(RemoveAt(a.offers, k)) :
             \E j \in 1..Len(a.offers) : a.offers[j] = RemoveAt(a.offers, k)[i]
        /\ NoDuplicates(RemoveAt(a.offers, k))
        /\ \A i \in 1..Len(RemoveAt(a.offers, k)) : RemoveAt(a.offers, k)[i] # o
    <3>1. NoDuplicates(a.offers)
      BY DEF Settled, PendingAreNew
    <3> DEFINE s == a.offers
    <3>2. s \in Seq(Offers) /\ k \in 1..Len(s) /\ NoDuplicates(s)
      BY <2>2, <2>4, <3>1
    <3> HIDE DEF s
    <3>3. /\ RemoveAt(s, k) \in Seq(Offers)
          /\ \A i \in 1..Len(RemoveAt(s, k)) : \E j \in 1..Len(s) : s[j] = RemoveAt(s, k)[i]
          /\ NoDuplicates(RemoveAt(s, k))
          /\ \A i \in 1..Len(RemoveAt(s, k)) : RemoveAt(s, k)[i] # s[k]
      BY <3>2, RemoveAtRemoves
    <3> QED
      BY <3>3 DEF s
  <2>6. Msg("accept", o) \in Messages
    BY <2>4, MessageTypes
  <2>7. AddsOnly(a.queues, Sent(a.queues, owner[o], Msg("accept", o)), <<Msg("accept", o)>>)
    BY <2>2, <2>4, <2>6, SentToQueue
  <2> DEFINE q == Sent(a.queues, owner[o], Msg("accept", o))
             l == RemoveAt(a.offers, k)
  <2>8. /\ q \in Queues
        /\ \A m : InFlight(q, m) => InFlight(a.queues, m) \/ m = Msg("accept", o)
        /\ \A m : Once(a.queues, m) /\ (m = Msg("accept", o) => ~InFlight(a.queues, m)) => Once(q, m)
    <3> HIDE DEF q
    <3> QED
      BY <2>7, OneIsAdded DEF q
  <2> HIDE DEF q, l
  <2>9. b = [offers |-> l, busy |-> a.busy \cup {r}, task |-> [a.task EXCEPT ![o] = "accepting"],
             requestOf |-> [a.requestOf EXCEPT ![o] = r], queues |-> q]
    BY DEF q, l
  <2> HIDE DEF o, b
  <2>10. b \in Rounds
    BY <2>2, <2>4, <2>5, <2>8, <2>9 DEF Rounds, Queues, TaskStates, l
  <2>11. a.task[o] = "none" /\ task[o] = "none" /\ \E j \in 1..Len(offers) : offers[j] = o
    BY <2>2, <2>4 DEF Settled, PendingAreNew, o
  <2>12. OneActive(b.task, b.requestOf, b.busy)
    BY <1>2, <2>2, <2>4, <2>9 DEF Settled, OneActive, Active
  <2>13. PendingAreNew(b.offers, b.task)
    <3> SUFFICES ASSUME NEW i \in 1..Len(l) PROVE b.task[l[i]] = "none"
      BY <2>5, <2>9 DEF PendingAreNew, l
    <3>1. PICK j \in 1..Len(a.offers) : a.offers[j] = l[i]
      BY <2>5 DEF l
    <3>2. l[i] # o /\ l[i] \in Offers /\ a.task[l[i]] = "none"
      BY <2>2, <2>5, <3>1 DEF l, Settled, PendingAreNew
    <3> QED
      BY <2>2, <2>9, <3>2
  <2>14. \A i \in 1..Len(b.offers) : \E j \in 1..Len(offers) : offers[j] = b.offers[i]
    BY <2>5, <2>9 DEF Settled, l
  <2>15. \A p \in Offers : /\ p # o => b.task[p] = a.task[p] /\ b.requestOf[p] = a.requestOf[p]
    BY <2>2, <2>9
  <2>16. b.queues = q
    BY <2>9
  <2>17. \A p \in Offers : Msg("settings", p) # Msg("accept", o)
    BY DEF Msg
  <2>18. NothingNew(toRunner, b.queues, "settings")
    BY <2>8, <2>16, <2>17 DEF Settled, NothingNew
  <2>19. AskedHaveTasks(b.queues, b.task)
    <3> SUFFICES ASSUME NEW p \in Offers, InFlight(q, Msg("accept", p)), p # o PROVE b.task[p] # "none"
      BY <2>2, <2>4, <2>9, <2>16 DEF AskedHaveTasks
    <3>1. Msg("accept", p) # Msg("accept", o)
      BY DEF Msg
    <3>2. a.task[p] # "none"
      BY <2>8, <3>1 DEF Settled, AskedHaveTasks
    <3> QED
      BY <2>15, <3>2
  <2> QED
    BY <2>1, <2>10, <2>11, <2>12, <2>13, <2>14, <2>15, <2>18, <2>19 DEF Settled
<1> QED
  BY <1>1, <1>2

\* What a step with settleTasks leaves.
LEMMA SettleEffect ==
  ASSUME TaskTypeOK, OneActive(task, requestOf, inProgress), AskedHaveTasks(toRunner, task),
         NEW offers \in Seq(Offers), PendingAreNew(offers, task),
         NEW requests \in Seq(Requests), NEW justCame, SettleTasks(offers, requests, justCame)
  PROVE  /\ pendingTaskOffers' \in Seq(Offers) /\ pendingTaskRequests' \in Seq(Requests)
         /\ inProgress' \in SUBSET Requests /\ task' \in [Offers -> TaskStates]
         /\ requestOf' \in [Offers -> Requests] /\ toRunner' \in Queues
         /\ OneActive(task', requestOf', inProgress')
         /\ PendingAreNew(pendingTaskOffers', task')
         /\ \A i \in 1..Len(pendingTaskOffers') : \E j \in 1..Len(offers) : offers[j] = pendingTaskOffers'[i]
         /\ \A o \in Offers : task'[o] # task[o] => task[o] = "none" /\ \E j \in 1..Len(offers) : offers[j] = o
         /\ AskedHaveTasks(toRunner', task')
         /\ NothingNew(toRunner, toRunner', "settings")
<1> DEFINE I == {a \in Rounds : Settled(a, offers)}
           base(kept) == [offers |-> Only(offers, kept), busy |-> inProgress, task |-> task,
                          requestOf |-> requestOf, queues |-> toRunner]
<1>1. PICK kept : LET end == FoldLeft(Match, base(kept), requests) IN
         /\ pendingTaskOffers' = end.offers /\ pendingTaskRequests' = requests
         /\ inProgress' = end.busy /\ task' = end.task
         /\ requestOf' = end.requestOf /\ toRunner' = end.queues
  BY DEF SettleTasks
<1> DEFINE end == FoldLeft(Match, base(kept), requests)
<1>2. base(kept) \in I
  <2>1. /\ Only(offers, kept) \in Seq(Offers)
        /\ \A i \in 1..Len(Only(offers, kept)) : \E j \in 1..Len(offers) : offers[j] = Only(offers, kept)[i]
        /\ NoDuplicates(Only(offers, kept))
    BY OnlyKeeps DEF PendingAreNew
  <2> DEFINE l == Only(offers, kept)
             b == [offers |-> l, busy |-> inProgress, task |-> task,
                   requestOf |-> requestOf, queues |-> toRunner]
  <2> HIDE DEF l
  <2>2. b \in Rounds
    BY <2>1 DEF Rounds, TaskTypeOK, l
  <2>3. PendingAreNew(l, task)
    BY <2>1 DEF PendingAreNew, l
  <2>4. Settled(b, offers)
    BY <2>1, <2>3 DEF Settled, NothingNew, l
  <2> QED
    BY <2>2, <2>4 DEF l
<1>3. \A a \in I, r \in Requests : Match(a, r) \in I
  <2>1. owner \in [Offers -> Connections]
    BY DEF TaskTypeOK
  <2> SUFFICES ASSUME NEW a \in Rounds, Settled(a, offers), NEW r \in Requests
               PROVE  Match(a, r) \in Rounds /\ Settled(Match(a, r), offers)
    OBVIOUS
  <2> QED
    BY <2>1, OneMoreRound
<1>4. end \in I
  <2> HIDE DEF I, base
  <2> QED
    BY <1>2, <1>3, MatchStays
<1>5. /\ pendingTaskOffers' = end.offers /\ pendingTaskRequests' = requests
      /\ inProgress' = end.busy /\ task' = end.task
      /\ requestOf' = end.requestOf /\ toRunner' = end.queues
  BY <1>1
<1> HIDE DEF end, base
<1>6. end \in Rounds /\ Settled(end, offers)
  BY <1>4
<1> QED
  BY <1>5, <1>6 DEF Rounds, Queues, Settled

-----------------------------------------------------------------------------
(***************************************************************************)
(* sendOffers                                                              *)
(***************************************************************************)

\* What of a runner's slots is promised, for given slots.
Promised(owners, slots, w) == {o \in Offers : owners[o] = w /\ slots[o] \in Busy \cup {"open"}}

Fit(owners, slots) == \A w \in Runners : Cardinality(Promised(owners, slots, w)) <= MaxConcurrency

\* Sets of offers are finite, and smaller ones are no larger.
LEMMA OffersAreFinite ==
  ASSUME NEW S \in SUBSET Offers
  PROVE  /\ IsFiniteSet(S) /\ Cardinality(S) \in Nat
         /\ \A T \in SUBSET S : Cardinality(T) <= Cardinality(S)
<1>1. IsFiniteSet(Offers)
  BY FS_Interval DEF Offers
<1>2. IsFiniteSet(S)
  BY <1>1, FS_Subset
<1> QED
  BY <1>2, FS_Subset, FS_CardinalityType

\* The size of a range of numbers.
LEMMA RangeSize ==
  ASSUME NEW m \in Nat, NEW n \in Nat
  PROVE  Cardinality((m + 1)..(m + n)) = n
<1>1. m + 1 \in Int /\ m + n \in Int
  OBVIOUS
<1>2. Cardinality((m + 1)..(m + n)) = IF m + 1 > m + n THEN 0 ELSE (m + n) - (m + 1) + 1
  <2> DEFINE a == m + 1
             b == m + n
  <2>1. a \in Int /\ b \in Int
    BY <1>1
  <2> HIDE DEF a, b
  <2>2. Cardinality(a..b) = IF a > b THEN 0 ELSE b - a + 1
    BY <2>1, FS_Interval
  <2> QED
    BY <2>2 DEF a, b
<1> QED
  BY <1>2

\* The offers from made on that there is room for.
LEMMA NewOffers ==
  ASSUME made \in 0..MaxOffers, NEW room \in Int, NEW new,
         new = {o \in Offers : made < o /\ o <= made + room}
  PROVE  /\ Cardinality(new) \in Nat /\ made + Cardinality(new) <= MaxOffers
         /\ new = (made + 1)..(made + Cardinality(new))
         /\ Cardinality(new) <= room \/ new = {}
<1>0. made \in Nat /\ MaxOffers \in Nat /\ made <= MaxOffers
  OBVIOUS
<1>1. CASE room <= 0
  <2>1. new = {}
    BY <1>1 DEF Offers
  <2>2. Cardinality(new) = 0
    BY <2>1, FS_EmptySet
  <2>3. (made + 1)..(made + 0) = {} /\ made + 0 <= MaxOffers
    BY <1>0
  <2> DEFINE c == Cardinality(new)
  <2>4. c = 0
    BY <2>2
  <2> HIDE DEF c
  <2>5. c \in Nat /\ made + c <= MaxOffers /\ new = (made + 1)..(made + c)
    BY <2>1, <2>3, <2>4
  <2> QED
    BY <2>1, <2>5 DEF c
<1>2. ASSUME NEW n \in Nat, n <= room, made + n <= MaxOffers, n = room \/ made + n = MaxOffers
      PROVE  new = (made + 1)..(made + n) /\ Cardinality(new) = n
  <2>1. new = (made + 1)..(made + n)
    BY <1>0, <1>2 DEF Offers
  <2> QED
    BY <1>0, <2>1, RangeSize
<1>3. CASE room > 0 /\ made + room <= MaxOffers
  <2>1. room \in Nat /\ room <= room
    BY <1>3
  <2>2. new = (made + 1)..(made + room) /\ Cardinality(new) = room
    BY <1>2, <1>3, <2>1
  <2> QED
    BY <1>3, <2>1, <2>2
<1>4. CASE room > 0 /\ made + room > MaxOffers
  <2> DEFINE n == MaxOffers - made
  <2>1. n \in Nat /\ made + n = MaxOffers /\ n <= room
    BY <1>0, <1>4
  <2> HIDE DEF n
  <2>2. new = (made + 1)..(made + n) /\ Cardinality(new) = n
    BY <1>2, <2>1
  <2> DEFINE c == Cardinality(new)
  <2>3. c = n
    BY <2>2
  <2> HIDE DEF c
  <2>4. c \in Nat /\ made + c <= MaxOffers /\ new = (made + 1)..(made + c) /\ c <= room
    BY <2>1, <2>2, <2>3
  <2> QED
    BY <2>4 DEF c
<1> QED
  BY <1>1, <1>3, <1>4

\* What sendOffers is run on: typed slots and queues, nothing of the offers
\* still to be made, and no runner with more promised than it has slots.
CanOffer(slots, queues) ==
  /\ owner \in [Offers -> Connections] /\ made \in 0..MaxOffers
  /\ slots \in [Offers -> SlotStates] /\ queues \in Queues
  /\ \A o \in Offers : o > made => slots[o] = "none"
  /\ Fit(owner, slots)

\* What it leaves: the same, with new open offers announced once each.
Offered(slots, queues) ==
  /\ owner' \in [Offers -> Connections] /\ made' \in 0..MaxOffers /\ made <= made'
  /\ slot' \in [Offers -> SlotStates] /\ toBroker' \in Queues
  /\ \A o \in Offers :
       /\ o > made' => slot'[o] = "none"
       /\ o <= made => owner'[o] = owner[o]
       /\ o <= made => slot'[o] = slots[o] \/ (slots[o] = "open" /\ slot'[o] = "over")
  /\ Fit(owner', slot')
  /\ \A m : InFlight(toBroker', m) =>
       InFlight(queues, m) \/ \E o \in Offers : made < o /\ o <= made' /\ m = Msg("offer", o)
  /\ \A m : Once(queues, m) /\ (\A o \in Offers : made < o => m # Msg("offer", o)) => Once(toBroker', m)
  /\ \A m : ~InFlight(queues, m) => Once(toBroker', m)

LEMMA OfferEffect ==
  ASSUME NEW w \in Connections, NEW slots, NEW queues, CanOffer(slots, queues), Offer(w, slots, queues)
  PROVE  Offered(slots, queues)
<1> DEFINE Open == {o \in Offers : owner[o] = w /\ slots[o] = "open"}
           taken(stale) == {o \in Offers : owner[o] = w /\ slots[o] \in Busy \cup {"open"}} \ stale
           room(stale) == (IF w \in Launchers THEN 1 ELSE MaxConcurrency) - Cardinality(taken(stale))
           new(stale) == {o \in Offers : made < o /\ o <= made + room(stale)}
           sent(stale) == [i \in 1..Cardinality(new(stale)) |-> Msg("offer", made + i)]
<1>0. /\ owner \in [Offers -> Connections] /\ made \in 0..MaxOffers
      /\ slots \in [Offers -> SlotStates] /\ queues \in Queues
      /\ \A o \in Offers : o > made => slots[o] = "none"
      /\ Fit(owner, slots)
  BY DEF CanOffer
<1>1. PICK stale \in SUBSET Open :
         /\ made' = made + Cardinality(new(stale))
         /\ owner' = [o \in Offers |-> IF o \in new(stale) THEN w ELSE owner[o]]
         /\ slot' = [o \in Offers |->
              IF o \in new(stale) THEN "open" ELSE IF o \in stale THEN "over" ELSE slots[o]]
         /\ toBroker' = [queues EXCEPT ![w] = @ \o sent(stale)]
  BY DEF Offer
<1> DEFINE T == taken(stale)
           N == new(stale)
           n == Cardinality(N)
           R == room(stale)
           more == sent(stale)
<1>2. T \in SUBSET Offers /\ IsFiniteSet(T) /\ Cardinality(T) \in Nat
  <2>1. T \in SUBSET Offers
    OBVIOUS
  <2> HIDE DEF T
  <2> QED
    BY <2>1, OffersAreFinite
<1>3. R \in Int
  <2>1. R = (IF w \in Launchers THEN 1 ELSE MaxConcurrency) - Cardinality(T)
    OBVIOUS
  <2> HIDE DEF T, R
  <2> QED
    BY <1>2, <2>1
<1>4. n \in Nat /\ made + n <= MaxOffers /\ N = (made + 1)..(made + n) /\ (n <= R \/ N = {})
  <2>1. N = {o \in Offers : made < o /\ o <= made + R}
    OBVIOUS
  <2> HIDE DEF N, R
  <2> QED
    BY <1>0, <1>3, <2>1, NewOffers
<1>5. /\ made' = made + n
      /\ owner' = [o \in Offers |-> IF o \in N THEN w ELSE owner[o]]
      /\ slot' = [o \in Offers |-> IF o \in N THEN "open" ELSE IF o \in stale THEN "over" ELSE slots[o]]
      /\ toBroker' = [queues EXCEPT ![w] = @ \o more]
      /\ more = [i \in 1..n |-> Msg("offer", made + i)]
  BY <1>1
<1>6. /\ T \subseteq Promised(owner, slots, w) /\ T \cap stale = {}
      /\ \A o \in Promised(owner, slots, w) : o \in T \/ o \in stale
      /\ \A o \in stale : o \in Offers /\ slots[o] = "open" /\ owner[o] = w
      /\ R = (IF w \in Launchers THEN 1 ELSE MaxConcurrency) - Cardinality(T)
  BY DEF Promised
<1> HIDE DEF T, N, n, R, more
<1>7. \A o \in Offers : o \in N <=> made < o /\ o <= made'
  BY <1>0, <1>4, <1>5 DEF Offers
<1>8. \A o \in stale : o <= made /\ o \notin N
  <2>1. \A o \in stale : ~(o > made)
    BY <1>0, <1>6
  <2> QED
    BY <1>0, <1>6, <1>7, <2>1 DEF Offers
<1>9. Fit(owner', slot')
  <2> SUFFICES ASSUME NEW v \in Runners PROVE Cardinality(Promised(owner', slot', v)) <= MaxConcurrency
    BY DEF Fit
  <2>1. Promised(owner, slots, v) \in SUBSET Offers
    BY DEF Promised
  <2>2. Cardinality(Promised(owner, slots, v)) <= MaxConcurrency
    BY <1>0 DEF Fit
  <2>3. \A o \in N : o \in Offers /\ slots[o] = "none"
    BY <1>0, <1>4, <1>7 DEF Offers
  <2>4. CASE v # w
    <3>1. Promised(owner', slot', v) \subseteq Promised(owner, slots, v)
      BY <1>0, <1>5, <1>6, <2>4 DEF Promised
    <3>2. Cardinality(Promised(owner', slot', v)) <= Cardinality(Promised(owner, slots, v))
      BY <2>1, <3>1, OffersAreFinite
    <3>3. Promised(owner', slot', v) \in SUBSET Offers
      BY DEF Promised
    <3> QED
      BY <2>1, <2>2, <3>2, <3>3, OffersAreFinite
  <2>5. CASE v = w
    <3>1. Promised(owner', slot', w) = T \cup N
      <4>1. ASSUME NEW o \in Offers, o \in N PROVE o \in Promised(owner', slot', w)
        BY <1>5, <4>1 DEF Promised
      <4>2. ASSUME NEW o \in Offers, o \in stale PROVE o \notin Promised(owner', slot', w) /\ o \notin T
        BY <1>5, <1>6, <1>8, <4>2 DEF Promised, Busy
      <4>3. ASSUME NEW o \in Offers, o \notin N, o \notin stale
            PROVE  o \in Promised(owner', slot', w) <=> o \in Promised(owner, slots, w)
        BY <1>5, <4>3 DEF Promised
      <4>4. Promised(owner', slot', w) \subseteq Offers /\ N \subseteq Offers /\ T \subseteq Offers
        BY <1>2, <2>3 DEF Promised
      <4>5. \A o \in T : o \in Promised(owner, slots, w) /\ o \notin stale
        BY <1>6
      <4> QED
        BY <1>6, <4>1, <4>2, <4>3, <4>4, <4>5
    <3>2. T \cap N = {}
      BY <1>6, <2>3 DEF Promised, Busy
    <3>3. IsFiniteSet(N)
      <4>1. N \in SUBSET Offers
        BY <2>3
      <4> QED
        BY <4>1, OffersAreFinite
    <3>4. Cardinality(T \cup N) = Cardinality(T) + Cardinality(N) - Cardinality(T \cap N)
      BY <1>2, <3>3, FS_Union
    <3>5. Cardinality(T \cup N) = Cardinality(T) + n
      <4>1. Cardinality(N) = n /\ Cardinality(T \cap N) = 0
        BY <3>2, FS_EmptySet DEF n
      <4> QED
        BY <1>2, <1>4, <3>4, <4>1
    <3>6. w \notin Launchers
      BY <2>5
    <3>7. CASE n <= R
      BY <1>2, <1>4, <1>6, <2>5, <3>1, <3>5, <3>6, <3>7
    <3>8. CASE N = {}
      <4>1. Promised(owner', slot', w) \subseteq Promised(owner, slots, w)
        BY <1>6, <3>1, <3>8
      <4>2. Cardinality(Promised(owner', slot', w)) <= Cardinality(Promised(owner, slots, w))
        BY <2>1, <2>5, <4>1, OffersAreFinite
      <4>3. Promised(owner', slot', w) \in SUBSET Offers
        BY DEF Promised
      <4> QED
        BY <2>1, <2>2, <2>5, <4>2, <4>3, OffersAreFinite
    <3> QED
      BY <1>4, <3>7, <3>8
  <2> QED
    BY <2>4, <2>5
<1>10. more \in Seq(Messages) /\ Len(more) = n /\ NoDuplicates(more)
       /\ \A i \in 1..Len(more) : \E o \in Offers : made < o /\ o <= made' /\ more[i] = Msg("offer", o)
  <2>1. \A i \in 1..n : made + i \in Offers /\ made < made + i /\ made + i <= made'
    BY <1>0, <1>4, <1>5 DEF Offers
  <2>2. \A i \in 1..n : Msg("offer", made + i) \in Messages /\ Msg("offer", made + i).task = made + i
    BY <2>1, MessageTypes
  <2>3. more \in Seq(Messages) /\ Len(more) = n
    BY <1>4, <1>5, <2>2
  <2>4. \A i \in 1..n : more[i] = Msg("offer", made + i)
    BY <1>5
  <2>5. ASSUME NEW i \in 1..n, NEW j \in 1..n, more[i] = more[j] PROVE i = j
    <3>1. made + i = made + j
      BY <2>2, <2>4, <2>5
    <3> QED
      BY <1>0, <1>4, <3>1
  <2> QED
    BY <2>1, <2>3, <2>4, <2>5 DEF NoDuplicates
<1>11. AddsOnly(queues, toBroker', more)
  <2>1. AddsOnly(queues, [queues EXCEPT ![w] = @ \o more], more)
    BY <1>0, <1>10, AddedToQueue
  <2> QED
    BY <1>5, <2>1
<1>12. /\ owner' \in [Offers -> Connections] /\ made' \in 0..MaxOffers /\ made <= made'
       /\ slot' \in [Offers -> SlotStates] /\ toBroker' \in Queues
  <2>1. made' \in 0..MaxOffers /\ made <= made'
    BY <1>0, <1>4, <1>5
  <2>2. owner' \in [Offers -> Connections] /\ slot' \in [Offers -> SlotStates]
    BY <1>0, <1>5 DEF SlotStates
  <2> QED
    BY <1>11, <2>1, <2>2 DEF AddsOnly
<1>13. ASSUME NEW o \in Offers
       PROVE  /\ o > made' => slot'[o] = "none"
              /\ o <= made => owner'[o] = owner[o]
              /\ o <= made => slot'[o] = slots[o] \/ (slots[o] = "open" /\ slot'[o] = "over")
  <2>0. o \in Nat /\ made \in Nat /\ made' \in Nat /\ made <= made'
    BY <1>0, <1>12 DEF Offers
  <2>1. o > made' => o \notin N /\ o \notin stale /\ o > made
    BY <1>7, <1>8, <2>0
  <2>2. o <= made => o \notin N
    BY <1>7, <2>0
  <2> QED
    BY <1>0, <1>5, <1>6, <2>1, <2>2
<1>14. ASSUME NEW m PROVE
         /\ InFlight(toBroker', m) =>
              InFlight(queues, m) \/ \E o \in Offers : made < o /\ o <= made' /\ m = Msg("offer", o)
         /\ Once(queues, m) /\ (\A o \in Offers : made < o => m # Msg("offer", o)) => Once(toBroker', m)
         /\ ~InFlight(queues, m) => Once(toBroker', m)
  BY <1>10, <1>11 DEF AddsOnly
<1> QED
  BY <1>9, <1>12, <1>13, <1>14 DEF Offered

-----------------------------------------------------------------------------
(***************************************************************************)
(* What the parts of the invariant need of a step                          *)
(***************************************************************************)

\* A type of message is not sent by taking or losing messages, or by sending
\* others.
LEMMA NothingNewCases ==
  ASSUME NEW q, NEW r, NEW type
  PROVE  /\ q = r => NothingNew(q, r, type)
         /\ LosesOnly(q, r) => NothingNew(q, r, type)
         /\ \A p \in Offers : \A sent : AddsOnly(q, r, <<Msg(sent, p)>>) /\ sent # type => NothingNew(q, r, type)
<1>1. ASSUME NEW p \in Offers, NEW sent, AddsOnly(q, r, <<Msg(sent, p)>>), sent # type
      PROVE  NothingNew(q, r, type)
  <2> DEFINE x == Msg(sent, p)
  <2>1. \A o \in Offers : Msg(type, o) # x
    BY <1>1 DEF Msg
  <2>2. AddsOnly(q, r, <<x>>)
    BY <1>1
  <2> HIDE DEF x
  <2>3. /\ \A m : InFlight(r, m) => InFlight(q, m) \/ m = x
        /\ \A m : Once(q, m) /\ (m = x => ~InFlight(q, m)) => Once(r, m)
    BY <2>2, OneIsAdded
  <2> QED
    BY <2>1, <2>3 DEF NothingNew
<1> QED
  BY <1>1 DEF NothingNew, LosesOnly

\* Sending a message, or not, as the socket is.
LEMMA SentMessage ==
  ASSUME NEW q \in Queues, NEW w \in Connections, NEW o \in Offers,
         NEW sent \in {"offer", "accept", "accepted", "rejected", "deferred", "settings", "cancel", "end"}
  PROVE  /\ Sent(q, w, Msg(sent, o)) \in Queues
         /\ AddsOnly(q, Sent(q, w, Msg(sent, o)), <<Msg(sent, o)>>)
         /\ \A type : sent # type => NothingNew(q, Sent(q, w, Msg(sent, o)), type)
<1> DEFINE x == Msg(sent, o)
           r == Sent(q, w, x)
<1>1. x \in Messages
  BY MessageTypes
<1>2. AddsOnly(q, r, <<x>>)
  <2> HIDE DEF x
  <2> QED
    BY <1>1, SentToQueue
<1>3. r \in Queues
  <2> HIDE DEF r
  <2> QED
    BY <1>2 DEF AddsOnly
<1>4. ASSUME NEW type, sent # type PROVE NothingNew(q, r, type)
  <2> HIDE DEF r
  <2> QED
    BY <1>2, <1>4, NothingNewCases
<1> QED
  BY <1>2, <1>3, <1>4

\* The broker takes a message.
LEMMA ReceiveEffect ==
  ASSUME NEW w \in Connections, NEW type, toBroker \in Queues, Receive(w, type)
  PROVE  /\ toBroker' \in Queues /\ LosesOnly(toBroker, toBroker')
         /\ Head(toBroker[w]).task \in Offers
         /\ InFlight(toBroker, Msg(type, Head(toBroker[w]).task))
         /\ Once(toBroker, Msg(type, Head(toBroker[w]).task)) =>
              ~InFlight(toBroker', Msg(type, Head(toBroker[w]).task))
<1>1. toBroker' = [toBroker EXCEPT ![w] = Tail(@)] /\ IsNext(toBroker, w, type)
  BY DEF Receive
<1>2. /\ toBroker[w] # <<>> /\ Head(toBroker[w]).task \in Offers
      /\ Head(toBroker[w]) = Msg(type, Head(toBroker[w]).task)
  BY <1>1, NextMessage
<1>3. /\ LosesOnly(toBroker, toBroker') /\ InFlight(toBroker, Head(toBroker[w]))
      /\ Once(toBroker, Head(toBroker[w])) => ~InFlight(toBroker', Head(toBroker[w]))
  BY <1>1, <1>2, TakenFromQueue
<1> QED
  BY <1>2, <1>3 DEF LosesOnly

\* A runner takes a message.
LEMMA TakeEffect ==
  ASSUME NEW w \in Connections, NEW type, toRunner \in Queues, Take(w, type)
  PROVE  /\ toRunner' \in Queues /\ LosesOnly(toRunner, toRunner')
         /\ Head(toRunner[w]).task \in Offers
         /\ InFlight(toRunner, Msg(type, Head(toRunner[w]).task))
         /\ Once(toRunner, Msg(type, Head(toRunner[w]).task)) =>
              ~InFlight(toRunner', Msg(type, Head(toRunner[w]).task))
<1>1. toRunner' = [toRunner EXCEPT ![w] = Tail(@)] /\ IsNext(toRunner, w, type)
  BY DEF Take
<1>2. /\ toRunner[w] # <<>> /\ Head(toRunner[w]).task \in Offers
      /\ Head(toRunner[w]) = Msg(type, Head(toRunner[w]).task)
  BY <1>1, NextMessage
<1>3. /\ LosesOnly(toRunner, toRunner') /\ InFlight(toRunner, Head(toRunner[w]))
      /\ Once(toRunner, Head(toRunner[w])) => ~InFlight(toRunner', Head(toRunner[w]))
  BY <1>1, <1>2, TakenFromQueue
<1> QED
  BY <1>2, <1>3 DEF LosesOnly

\* The settings stay in order when none are sent and no task is accepted,
\* and tasks that are to get them go on waiting or are over.
LEMMA SettingsStay ==
  ASSUME SettingsInOrder,
         NothingNew(toBroker, toBroker', "accepted"), NothingNew(toRunner, toRunner', "settings"),
         \A o \in Offers :
           /\ InFlight(toBroker', Msg("accepted", o)) \/ InFlight(toRunner', Msg("settings", o))
           /\ slot[o] \in {"waiting", "over"}
           => slot'[o] \in {"waiting", "over"}
  PROVE  SettingsInOrder'
BY DEF SettingsInOrder, NothingNew

\* Who waits for a task goes on with the same task.
LEMMA AwaitedStays ==
  ASSUME AwaitedTaskIsTimed, AwaitedAlone,
         \A r \in Requests : requester'[r] = "waiting" =>
           /\ requester[r] = "waiting" /\ assigned'[r] = assigned[r]
           /\ task'[assigned[r]] = "running" /\ assigned[r] \in taskTimers'
  PROVE  AwaitedTaskIsTimed' /\ AwaitedAlone'
BY DEF AwaitedTaskIsTimed, AwaitedAlone

\* Steps that neither make offers nor match them.
QuietStep ==
  /\ made' = made /\ owner' = owner /\ requestOf' = requestOf
  /\ \A o \in Offers :
       /\ task'[o] = "none" <=> task[o] = "none"
       /\ task'[o] \in Active => task[o] \in Active /\ requestOf[o] \in inProgress'
       /\ o > made => slot'[o] = "none"
       /\ slot'[o] \in Busy \cup {"open"} => slot[o] \in Busy \cup {"open"}
  /\ NoDuplicates(pendingTaskOffers')
  /\ \A i \in 1..Len(pendingTaskOffers') : \E j \in 1..Len(pendingTaskOffers) :
       pendingTaskOffers[j] = pendingTaskOffers'[i]
  /\ NothingNew(toBroker, toBroker', "offer")
  /\ NothingNew(toRunner, toRunner', "accept")

LEMMA QuietSteps ==
  ASSUME BrokerInv, TaskTypeOK', QuietStep, AwaitedTaskIsTimed', AwaitedAlone', SettingsInOrder'
  PROVE  BrokerInv'
<1>1. OneActive(task, requestOf, inProgress)'
  BY DEF BrokerInv, OneActive, QuietStep
<1>2. pendingTaskOffers \in Seq(Offers) /\ pendingTaskOffers' \in Seq(Offers)
  BY DEF BrokerInv, TaskTypeOK
<1>3. PendingAreNew(pendingTaskOffers, task)'
  <2> SUFFICES ASSUME NEW i \in 1..Len(pendingTaskOffers') PROVE task'[pendingTaskOffers'[i]] = "none"
    BY DEF PendingAreNew, QuietStep
  <2>1. PICK j \in 1..Len(pendingTaskOffers) : pendingTaskOffers[j] = pendingTaskOffers'[i]
    BY DEF QuietStep
  <2>2. pendingTaskOffers[j] \in Offers /\ task[pendingTaskOffers[j]] = "none"
    BY <1>2 DEF BrokerInv, PendingAreNew
  <2> QED
    BY <2>1, <2>2 DEF QuietStep
<1>4. OffersAreNew'
  <2>1. ASSUME NEW o \in Offers, \A i \in 1..Len(pendingTaskOffers) : pendingTaskOffers[i] # o
        PROVE  \A i \in 1..Len(pendingTaskOffers') : pendingTaskOffers'[i] # o
    BY <2>1 DEF QuietStep
  <2> SUFFICES ASSUME NEW o \in Offers
      PROVE /\ Once(toBroker', Msg("offer", o))
            /\ InFlight(toBroker', Msg("offer", o)) =>
                 task'[o] = "none" /\ o <= made' /\ \A i \in 1..Len(pendingTaskOffers') : pendingTaskOffers'[i] # o
            /\ o > made' =>
                 /\ slot'[o] = "none" /\ task'[o] = "none"
                 /\ \A i \in 1..Len(pendingTaskOffers') : pendingTaskOffers'[i] # o
    BY DEF OffersAreNew
  <2>2. Once(toBroker', Msg("offer", o))
    BY DEF BrokerInv, OffersAreNew, QuietStep, NothingNew
  <2>3. InFlight(toBroker', Msg("offer", o)) => InFlight(toBroker, Msg("offer", o))
    BY DEF QuietStep, NothingNew
  <2>4. made' = made /\ (task'[o] = "none" <=> task[o] = "none") /\ (o > made => slot'[o] = "none")
    BY DEF QuietStep
  <2> QED
    BY <2>1, <2>2, <2>3, <2>4 DEF BrokerInv, OffersAreNew
<1>5. AskedHaveTasks(toRunner, task)'
  BY DEF BrokerInv, AskedHaveTasks, QuietStep, NothingNew
<1>6. OffersFitConcurrency'
  <2> SUFFICES ASSUME NEW w \in Runners PROVE Cardinality(Own(w, Busy \cup {"open"})') <= MaxConcurrency
    BY DEF OffersFitConcurrency
  <2>1. Own(w, Busy \cup {"open"})' \subseteq Own(w, Busy \cup {"open"})
    BY DEF Own, QuietStep
  <2>2. Own(w, Busy \cup {"open"}) \in SUBSET Offers /\ Own(w, Busy \cup {"open"})' \in SUBSET Offers
    BY DEF Own
  <2>3. Cardinality(Own(w, Busy \cup {"open"})) <= MaxConcurrency
    BY DEF BrokerInv, OffersFitConcurrency
  <2> DEFINE S == Own(w, Busy \cup {"open"})
             T == Own(w, Busy \cup {"open"})'
  <2> HIDE DEF S, T
  <2>4. Cardinality(T) <= Cardinality(S) /\ Cardinality(T) \in Nat /\ Cardinality(S) \in Nat
    BY <2>1, <2>2, OffersAreFinite DEF S, T
  <2> QED
    BY <2>3, <2>4 DEF S, T
<1> QED
  BY <1>1, <1>3, <1>4, <1>5, <1>6 DEF BrokerInv

\* Steps that run sendOffers, on what the method that calls it leaves.
LEMMA OfferStep ==
  ASSUME BrokerInv, NEW w \in Connections, NEW slots, NEW queues, Offer(w, slots, queues),
         slots \in [Offers -> SlotStates], queues \in Queues,
         \A o \in Offers : slots[o] = slot[o] \/ (slots[o] = "over" /\ slot[o] # "none"),
         NothingNew(toBroker, queues, "offer"), NothingNew(toBroker, queues, "accepted"),
         LosesOnly(toRunner, toRunner'), UNCHANGED <<brokerVars, requesterVars, conn>>
  PROVE  BrokerInv'
<1>0. TaskTypeOK
  BY DEF BrokerInv
<1>1. CanOffer(slots, queues)
  <2>1. \A o \in Offers : o > made => slots[o] = "none"
    BY DEF BrokerInv, OffersAreNew
  <2>2. Fit(owner, slots)
    <3> SUFFICES ASSUME NEW v \in Runners PROVE Cardinality(Promised(owner, slots, v)) <= MaxConcurrency
      BY DEF Fit
    <3>1. Cardinality(Own(v, Busy \cup {"open"})) <= MaxConcurrency
      BY DEF BrokerInv, OffersFitConcurrency
    <3>2. Promised(owner, slots, v) \subseteq Own(v, Busy \cup {"open"})
      BY DEF Promised, Own, Busy
    <3>3. Promised(owner, slots, v) \in SUBSET Offers /\ Own(v, Busy \cup {"open"}) \in SUBSET Offers
      BY DEF Promised, Own
    <3> DEFINE S == Own(v, Busy \cup {"open"})
               T == Promised(owner, slots, v)
    <3> HIDE DEF S, T
    <3>4. Cardinality(T) <= Cardinality(S) /\ Cardinality(T) \in Nat /\ Cardinality(S) \in Nat
      BY <3>2, <3>3, OffersAreFinite DEF S, T
    <3> QED
      BY <3>1, <3>4 DEF S, T
  <2> QED
    BY <1>0, <2>1, <2>2 DEF CanOffer, TaskTypeOK
<1>2. Offered(slots, queues)
  BY <1>1, OfferEffect
<1>3. /\ owner' \in [Offers -> Connections] /\ made' \in 0..MaxOffers /\ made <= made'
      /\ slot' \in [Offers -> SlotStates] /\ toBroker' \in Queues
      /\ \A o \in Offers :
           /\ o > made' => slot'[o] = "none"
           /\ o <= made => slot'[o] = slots[o] \/ (slots[o] = "open" /\ slot'[o] = "over")
      /\ Fit(owner', slot')
  BY <1>2 DEF Offered
<1>4. /\ \A m : InFlight(toBroker', m) =>
           InFlight(queues, m) \/ \E o \in Offers : made < o /\ o <= made' /\ m = Msg("offer", o)
      /\ \A m : Once(queues, m) /\ (\A o \in Offers : made < o => m # Msg("offer", o)) => Once(toBroker', m)
      /\ \A m : ~InFlight(queues, m) => Once(toBroker', m)
  BY <1>2 DEF Offered
<1>5. toRunner' \in Queues /\ NothingNew(toRunner, toRunner', "settings") /\ NothingNew(toRunner, toRunner', "accept")
  BY NothingNewCases DEF LosesOnly
<1>6. /\ pendingTaskOffers' = pendingTaskOffers /\ pendingTaskRequests' = pendingTaskRequests
      /\ inProgress' = inProgress /\ requestTimers' = requestTimers /\ task' = task
      /\ requestOf' = requestOf /\ taskTimers' = taskTimers
      /\ requester' = requester /\ assigned' = assigned /\ conn' = conn
  BY DEF brokerVars, requesterVars
<1>7. TaskTypeOK'
  BY <1>0, <1>3, <1>5, <1>6 DEF TaskTypeOK, Queues
<1>8. \A o \in Offers : o \in Int /\ made \in Int /\ made' \in Int
  BY <1>0, <1>3 DEF TaskTypeOK, Offers
<1>9. OffersAreNew'
  <2> SUFFICES ASSUME NEW o \in Offers
      PROVE /\ Once(toBroker', Msg("offer", o))
            /\ InFlight(toBroker', Msg("offer", o)) => task[o] = "none" /\ o <= made'
                 /\ \A i \in 1..Len(pendingTaskOffers) : pendingTaskOffers[i] # o
            /\ o > made' => /\ slot'[o] = "none" /\ task[o] = "none"
                            /\ \A i \in 1..Len(pendingTaskOffers) : pendingTaskOffers[i] # o
    BY <1>6 DEF OffersAreNew
  <2>1. /\ Once(toBroker, Msg("offer", o))
        /\ InFlight(toBroker, Msg("offer", o)) => task[o] = "none" /\ o <= made
                 /\ \A i \in 1..Len(pendingTaskOffers) : pendingTaskOffers[i] # o
        /\ o > made => task[o] = "none" /\ \A i \in 1..Len(pendingTaskOffers) : pendingTaskOffers[i] # o
    BY DEF BrokerInv, OffersAreNew
  <2>2. /\ InFlight(queues, Msg("offer", o)) => InFlight(toBroker, Msg("offer", o))
        /\ Once(queues, Msg("offer", o))
    BY <2>1 DEF NothingNew
  <2>3. \A p \in Offers : Msg("offer", o) = Msg("offer", p) => o = p
    BY DEF Msg
  <2>4. InFlight(toBroker', Msg("offer", o)) => InFlight(toBroker, Msg("offer", o)) \/ (made < o /\ o <= made')
    BY <1>4, <2>2, <2>3
  <2>5. Once(toBroker', Msg("offer", o))
    <3>1. CASE made < o
      BY <1>4, <1>8, <2>1, <2>2, <3>1
    <3>2. CASE ~(made < o)
      BY <1>4, <2>2, <2>3, <3>2
    <3> QED
      BY <3>1, <3>2
  <2> QED
    BY <1>3, <1>8, <2>1, <2>4, <2>5
<1>10. SettingsInOrder'
  <2>1. NothingNew(toBroker, toBroker', "accepted")
    <3> SUFFICES ASSUME NEW o \in Offers
                 PROVE  /\ InFlight(toBroker', Msg("accepted", o)) => InFlight(toBroker, Msg("accepted", o))
                        /\ Once(toBroker, Msg("accepted", o)) => Once(toBroker', Msg("accepted", o))
      BY DEF NothingNew
    <3>1. \A p \in Offers : Msg("accepted", o) # Msg("offer", p)
      BY DEF Msg
    <3> QED
      BY <1>4, <3>1 DEF NothingNew
  <2>2. \A o \in Offers : slot[o] \in {"waiting", "over"} => slot'[o] \in {"waiting", "over"}
    <3> SUFFICES ASSUME NEW o \in Offers, slot[o] \in {"waiting", "over"} PROVE slot'[o] \in {"waiting", "over"}
      OBVIOUS
    <3>1. ~(o > made)
      BY DEF BrokerInv, OffersAreNew
    <3> QED
      BY <1>3, <1>8, <3>1
  <2> QED
    BY <1>5, <2>1, <2>2, SettingsStay DEF BrokerInv
<1>11. OffersFitConcurrency'
  <2> SUFFICES ASSUME NEW v \in Runners PROVE Cardinality(Own(v, Busy \cup {"open"})') <= MaxConcurrency
    BY DEF OffersFitConcurrency
  <2>1. Own(v, Busy \cup {"open"})' = Promised(owner', slot', v)
    BY DEF Own, Promised
  <2> QED
    BY <1>3, <2>1 DEF Fit
<1>12. AskedHaveTasks(toRunner, task)'
  BY <1>5, <1>6 DEF BrokerInv, AskedHaveTasks, NothingNew
<1>13. /\ OneActive(task, requestOf, inProgress)' /\ PendingAreNew(pendingTaskOffers, task)'
       /\ AwaitedTaskIsTimed' /\ AwaitedAlone'
  BY <1>6 DEF BrokerInv, OneActive, PendingAreNew, AwaitedTaskIsTimed, AwaitedAlone
<1> QED
  BY <1>7, <1>9, <1>10, <1>11, <1>12, <1>13 DEF BrokerInv

\* Steps that run settleTasks, on offers that have reached the broker.
LEMMA SettleStep ==
  ASSUME BrokerInv, NEW offers \in Seq(Offers), NEW requests \in Seq(Requests), NEW justCame,
         SettleTasks(offers, requests, justCame),
         PendingAreNew(offers, task),
         \A i \in 1..Len(offers) : offers[i] <= made /\ ~InFlight(toBroker', Msg("offer", offers[i])),
         toBroker' \in Queues, LosesOnly(toBroker, toBroker'),
         requestTimers' \subseteq Requests,
         requester' \in [Requests -> {"idle", "asked", "waiting", "done", "expired", "canceled"}],
         \A r \in Requests : requester'[r] = "waiting" => requester[r] = "waiting",
         UNCHANGED <<taskTimers, assigned, runnerVars, conn>>
  PROVE  BrokerInv'
<1>0. TaskTypeOK
  BY DEF BrokerInv
<1>1. /\ pendingTaskOffers' \in Seq(Offers) /\ pendingTaskRequests' \in Seq(Requests)
      /\ inProgress' \in SUBSET Requests /\ task' \in [Offers -> TaskStates]
      /\ requestOf' \in [Offers -> Requests] /\ toRunner' \in Queues
      /\ OneActive(task', requestOf', inProgress')
      /\ PendingAreNew(pendingTaskOffers', task')
      /\ \A i \in 1..Len(pendingTaskOffers') : \E j \in 1..Len(offers) : offers[j] = pendingTaskOffers'[i]
      /\ \A o \in Offers : task'[o] # task[o] => task[o] = "none" /\ \E j \in 1..Len(offers) : offers[j] = o
      /\ AskedHaveTasks(toRunner', task')
      /\ NothingNew(toRunner, toRunner', "settings")
  <2>1. OneActive(task, requestOf, inProgress) /\ AskedHaveTasks(toRunner, task)
    BY DEF BrokerInv
  <2> QED
    BY <1>0, <2>1, SettleEffect
<1>2. /\ taskTimers' = taskTimers /\ assigned' = assigned /\ made' = made /\ owner' = owner
      /\ slot' = slot /\ conn' = conn
  BY DEF runnerVars
<1>3. TaskTypeOK'
  BY <1>0, <1>1, <1>2 DEF TaskTypeOK, Queues
<1>4. OffersAreNew'
  <2> SUFFICES ASSUME NEW o \in Offers
      PROVE /\ Once(toBroker', Msg("offer", o))
            /\ InFlight(toBroker', Msg("offer", o)) => task'[o] = "none" /\ o <= made
                 /\ \A i \in 1..Len(pendingTaskOffers') : pendingTaskOffers'[i] # o
            /\ o > made => /\ slot[o] = "none" /\ task'[o] = "none"
                           /\ \A i \in 1..Len(pendingTaskOffers') : pendingTaskOffers'[i] # o
    BY <1>2 DEF OffersAreNew
  <2>1. /\ Once(toBroker', Msg("offer", o))
        /\ InFlight(toBroker', Msg("offer", o)) => InFlight(toBroker, Msg("offer", o))
    BY DEF BrokerInv, OffersAreNew, LosesOnly
  <2>2. InFlight(toBroker', Msg("offer", o)) \/ o > made =>
          /\ task[o] = "none" /\ \A i \in 1..Len(offers) : offers[i] # o
    <3>1. InFlight(toBroker, Msg("offer", o)) \/ o > made => task[o] = "none"
      BY DEF BrokerInv, OffersAreNew
    <3>2. o \in Int /\ made \in Int
      BY <1>0 DEF TaskTypeOK, Offers
    <3>3. InFlight(toBroker', Msg("offer", o)) \/ o > made => \A i \in 1..Len(offers) : offers[i] # o
      BY <3>2
    <3> QED
      BY <2>1, <3>1, <3>3
  <2> QED
    BY <1>1, <2>1, <2>2 DEF BrokerInv, OffersAreNew
<1>5. SettingsInOrder'
  <2>1. NothingNew(toBroker, toBroker', "accepted")
    BY NothingNewCases
  <2> QED
    BY <1>1, <1>2, <2>1, SettingsStay DEF BrokerInv
<1>6. AwaitedTaskIsTimed' /\ AwaitedAlone'
  <2>1. ASSUME NEW r \in Requests, requester'[r] = "waiting"
        PROVE  /\ requester[r] = "waiting" /\ assigned'[r] = assigned[r]
               /\ task'[assigned[r]] = "running" /\ assigned[r] \in taskTimers'
    <3>1. requester[r] = "waiting" /\ task[assigned[r]] = "running" /\ assigned[r] \in taskTimers
      BY <2>1 DEF BrokerInv, AwaitedTaskIsTimed
    <3>2. assigned[r] \in Offers
      BY <1>0, <3>1 DEF TaskTypeOK
    <3> QED
      BY <1>1, <1>2, <3>1, <3>2
  <2> QED
    BY <2>1, AwaitedStays DEF BrokerInv
<1>7. OffersFitConcurrency'
  BY <1>2 DEF BrokerInv, OffersFitConcurrency, Own
<1> QED
  BY <1>1, <1>3, <1>4, <1>5, <1>6, <1>7 DEF BrokerInv

-----------------------------------------------------------------------------
(***************************************************************************)
(* Every step keeps the invariant                                          *)
(***************************************************************************)

LEMMA WithoutFirstType ==
  ASSUME NEW s \in Seq(Requests), NEW r
  PROVE  WithoutFirst(s, r) \in Seq(Requests)
<1>1. CASE ~Contains(s, r)
  BY <1>1 DEF WithoutFirst
<1>2. CASE Contains(s, r)
  <2> DEFINE I == {i \in 1..Len(s) : s[i] = r}
             k == CHOOSE i \in I : \A j \in I : i <= j
  <2>1. I # {} /\ Len(s) \in Nat /\ I \in SUBSET (1..Len(s))
    BY <1>2 DEF Contains
  <2>2. WithoutFirst(s, r) = RemoveAt(s, k)
    BY <1>2, <2>1 DEF WithoutFirst, Contains, RemoveFirst, SelectInSeq, Min
  <2>3. k \in 1..Len(s)
    <3> HIDE DEF I
    <3>1. k \in I
      BY <2>1, LeastExists
    <3> QED
      BY <2>1, <3>1
  <2> HIDE DEF k
  <2> QED
    BY <2>2, <2>3, RemoveAtProperties
<1> QED
  BY <1>1, <1>2

LEMMA BrokerInitially == TaskInit => BrokerInv
<1> SUFFICES ASSUME TaskInit PROVE BrokerInv
  OBVIOUS
<1> DEFINE q0 == [w \in Connections |-> <<>>]
<1>1. \A m : ~InFlight(q0, m) /\ Once(q0, m)
  BY DEF InFlight, Once
<1>2. toBroker = q0 /\ toRunner = q0
  BY DEF TaskInit
<1>3. (CHOOSE r \in Requests : TRUE) \in Requests /\ (CHOOSE w \in Connections : TRUE) \in Connections
  OBVIOUS
<1>4. TaskTypeOK
  <2>1. \A S : <<>> \in Seq(S)
    OBVIOUS
  <2>2. requestOf \in [Offers -> Requests] /\ owner \in [Offers -> Connections]
    BY <1>3 DEF TaskInit
  <2> QED
    BY <2>1, <2>2 DEF TaskInit, TaskTypeOK, TaskStates, SlotStates, NoTask
<1>5. \A o \in Offers : task[o] = "none" /\ slot[o] = "none"
  BY DEF TaskInit
<1>6. pendingTaskOffers = <<>>
  BY DEF TaskInit
<1>7. \A r \in Requests : requester[r] = "idle"
  BY DEF TaskInit
<1>8. OneActive(task, requestOf, inProgress) /\ PendingAreNew(pendingTaskOffers, task)
  BY <1>5, <1>6 DEF OneActive, Active, PendingAreNew, NoDuplicates
<1>9. OffersAreNew /\ AskedHaveTasks(toRunner, task) /\ SettingsInOrder
  <2> HIDE DEF q0
  <2> QED
    BY <1>1, <1>2, <1>5, <1>6 DEF OffersAreNew, AskedHaveTasks, SettingsInOrder
<1>10. AwaitedTaskIsTimed /\ AwaitedAlone
  BY <1>7 DEF AwaitedTaskIsTimed, AwaitedAlone
<1>11. OffersFitConcurrency
  <2>1. \A w : Own(w, Busy \cup {"open"}) = {}
    BY <1>5 DEF Own, Busy
  <2>2. Cardinality({}) = 0 /\ MaxConcurrency \in Nat
    BY FS_EmptySet
  <2> QED
    BY <2>1, <2>2 DEF OffersFitConcurrency
<1> QED
  BY <1>4, <1>8, <1>9, <1>10, <1>11 DEF BrokerInv

LEMMA StartTaskKeeps ==
  ASSUME BrokerInv, NEW r \in Requests, StartTask(r)
  PROVE  BrokerInv'
<1>0. TaskTypeOK
  BY DEF BrokerInv
<1> DEFINE requests == Append(pendingTaskRequests, r)
<1>1. requests \in Seq(Requests)
  BY <1>0 DEF TaskTypeOK
<1>2. /\ requester' \in [Requests -> {"idle", "asked", "waiting", "done", "expired", "canceled"}]
      /\ \A q \in Requests : requester'[q] = "waiting" => requester[q] = "waiting"
      /\ requestTimers' \subseteq Requests
  BY <1>0 DEF StartTask, TaskTypeOK
<1>3. toBroker' = toBroker /\ toBroker \in Queues
  BY <1>0 DEF StartTask, TaskTypeOK, Queues
<1>4. LosesOnly(toBroker, toBroker')
  BY <1>3 DEF LosesOnly
<1>5. \A i \in 1..Len(pendingTaskOffers) :
        pendingTaskOffers[i] <= made /\ ~InFlight(toBroker', Msg("offer", pendingTaskOffers[i]))
  <2> SUFFICES ASSUME NEW i \in 1..Len(pendingTaskOffers)
               PROVE  pendingTaskOffers[i] <= made /\ ~InFlight(toBroker, Msg("offer", pendingTaskOffers[i]))
    BY <1>3
  <2> DEFINE o == pendingTaskOffers[i]
  <2>0. o \in Offers
    <3>1. pendingTaskOffers \in Seq(Offers)
      BY <1>0 DEF TaskTypeOK
    <3> QED
      BY <3>1
  <2>1. o \in Offers /\ o \in Int /\ made \in Int
    <3> HIDE DEF o
    <3> QED
      BY <1>0, <2>0 DEF TaskTypeOK, Offers
  <2>2. ~(o > made) /\ ~InFlight(toBroker, Msg("offer", o))
    BY <2>1 DEF BrokerInv, OffersAreNew
  <2> QED
    BY <2>1, <2>2
<1>6. pendingTaskOffers \in Seq(Offers) /\ PendingAreNew(pendingTaskOffers, task)
  BY <1>0 DEF TaskTypeOK, BrokerInv
<1>7. SettleTasks(pendingTaskOffers, requests, {}) /\ UNCHANGED <<taskTimers, assigned, runnerVars, conn>>
  BY DEF StartTask
<1> HIDE DEF requests
<1> QED
  BY <1>1, <1>2, <1>3, <1>4, <1>5, <1>6, <1>7, SettleStep

LEMMA ReceiveOfferKeeps ==
  ASSUME BrokerInv, NEW w \in Connections, ReceiveOffer(w)
  PROVE  BrokerInv'
<1>0. TaskTypeOK
  BY DEF BrokerInv
<1> DEFINE o == Head(toBroker[w]).task
           offers == Append(pendingTaskOffers, o)
<1>1. /\ toBroker' \in Queues /\ LosesOnly(toBroker, toBroker') /\ o \in Offers
      /\ InFlight(toBroker, Msg("offer", o))
      /\ Once(toBroker, Msg("offer", o)) => ~InFlight(toBroker', Msg("offer", o))
  BY <1>0, ReceiveEffect DEF ReceiveOffer, TaskTypeOK, Queues
<1>2. SettleTasks(offers, pendingTaskRequests, {o})
      /\ UNCHANGED <<requestTimers, taskTimers, requesterVars, runnerVars, conn>>
  BY DEF ReceiveOffer
<1> HIDE DEF o
<1>3. /\ task[o] = "none" /\ o <= made /\ \A i \in 1..Len(pendingTaskOffers) : pendingTaskOffers[i] # o
      /\ ~InFlight(toBroker', Msg("offer", o))
  BY <1>1 DEF BrokerInv, OffersAreNew
<1>4. /\ pendingTaskOffers \in Seq(Offers) /\ Len(pendingTaskOffers) \in Nat
      /\ offers \in Seq(Offers) /\ Len(offers) = Len(pendingTaskOffers) + 1
      /\ \A i \in 1..Len(pendingTaskOffers) : offers[i] = pendingTaskOffers[i]
      /\ offers[Len(pendingTaskOffers) + 1] = o
  BY <1>0, <1>1, AppendProperties DEF TaskTypeOK
<1> HIDE DEF offers
<1>5. \A i \in 1..Len(offers) :
        i = Len(pendingTaskOffers) + 1 \/ (i \in 1..Len(pendingTaskOffers) /\ offers[i] = pendingTaskOffers[i])
  BY <1>4
<1>6. PendingAreNew(offers, task)
  BY <1>3, <1>4, <1>5 DEF BrokerInv, PendingAreNew, NoDuplicates
<1>7. \A i \in 1..Len(pendingTaskOffers) :
        pendingTaskOffers[i] <= made /\ ~InFlight(toBroker', Msg("offer", pendingTaskOffers[i]))
  <2> SUFFICES ASSUME NEW i \in 1..Len(pendingTaskOffers)
               PROVE  pendingTaskOffers[i] <= made /\ ~InFlight(toBroker', Msg("offer", pendingTaskOffers[i]))
    OBVIOUS
  <2> DEFINE p == pendingTaskOffers[i]
  <2>0. p \in Offers
    <3>1. pendingTaskOffers \in Seq(Offers)
      BY <1>0 DEF TaskTypeOK
    <3> QED
      BY <3>1
  <2>1. p \in Offers /\ p \in Int /\ made \in Int
    <3> HIDE DEF p
    <3> QED
      BY <1>0, <2>0 DEF TaskTypeOK, Offers
  <2>2. ~(p > made) /\ ~InFlight(toBroker, Msg("offer", p))
    BY <2>1 DEF BrokerInv, OffersAreNew
  <2> QED
    BY <1>1, <2>1, <2>2 DEF LosesOnly
<1>8. \A i \in 1..Len(offers) : offers[i] <= made /\ ~InFlight(toBroker', Msg("offer", offers[i]))
  BY <1>3, <1>4, <1>5, <1>7
<1>9. /\ requestTimers' = requestTimers /\ requester' = requester
      /\ UNCHANGED <<taskTimers, assigned, runnerVars, conn>> /\ pendingTaskRequests \in Seq(Requests)
  BY <1>0, <1>2 DEF requesterVars, TaskTypeOK
<1>10. /\ requestTimers' \subseteq Requests
       /\ requester' \in [Requests -> {"idle", "asked", "waiting", "done", "expired", "canceled"}]
       /\ \A r \in Requests : requester'[r] = "waiting" => requester[r] = "waiting"
  BY <1>0, <1>9 DEF TaskTypeOK
<1> QED
  BY <1>1, <1>2, <1>4, <1>6, <1>8, <1>9, <1>10, SettleStep

LEMMA CancelTasksKeeps ==
  ASSUME BrokerInv, NEW r \in Requests, CancelTasks(r)
  PROVE  BrokerInv'
<1>0. TaskTypeOK
  BY DEF BrokerInv
<1> DEFINE o == assigned[r]
<1>1. requester[r] = "waiting" /\ task[o] = "running" /\ o \in taskTimers /\ o \in Offers
  <2>1. requester[r] = "waiting"
    BY DEF CancelTasks
  <2> QED
    BY <1>0, <2>1 DEF BrokerInv, AwaitedTaskIsTimed, TaskTypeOK
<1> DEFINE sent == Sent(toRunner, owner[o], Msg("cancel", o))
<1>2. sent \in Queues /\ NothingNew(toRunner, sent, "accept") /\ NothingNew(toRunner, sent, "settings")
  <2>1. toRunner \in Queues /\ owner[o] \in Connections
    BY <1>0, <1>1 DEF TaskTypeOK, Queues
  <2> HIDE DEF o
  <2> QED
    BY <1>1, <2>1, SentMessage
<1>3. /\ requester' = [requester EXCEPT ![r] = "canceled"] /\ task' = [task EXCEPT ![o] = "over"]
      /\ toRunner' = sent
      /\ UNCHANGED <<pendingTaskOffers, pendingTaskRequests, inProgress, requestTimers, requestOf,
                     taskTimers, assigned, runnerVars, conn, toBroker>>
  BY <1>1 DEF CancelTasks
<1> HIDE DEF sent, o
<1>4. TaskTypeOK'
  BY <1>0, <1>1, <1>2, <1>3 DEF TaskTypeOK, Queues, runnerVars, TaskStates
<1>5. QuietStep
  BY <1>0, <1>1, <1>2, <1>3, NothingNewCases
     DEF QuietStep, BrokerInv, TaskTypeOK, runnerVars, Active, OneActive, PendingAreNew, OffersAreNew
<1>6. AwaitedTaskIsTimed' /\ AwaitedAlone'
  <2>1. ASSUME NEW q \in Requests, requester'[q] = "waiting"
        PROVE  /\ requester[q] = "waiting" /\ assigned'[q] = assigned[q]
               /\ task'[assigned[q]] = "running" /\ assigned[q] \in taskTimers'
    <3>1. requester[q] = "waiting" /\ q # r
      BY <1>0, <1>3, <2>1 DEF TaskTypeOK
    <3>2. assigned[q] # o
      BY <1>1, <3>1 DEF BrokerInv, AwaitedAlone, o
    <3>3. task[assigned[q]] = "running" /\ assigned[q] \in taskTimers
      BY <3>1 DEF BrokerInv, AwaitedTaskIsTimed
    <3> QED
      BY <1>0, <1>3, <3>1, <3>2, <3>3 DEF TaskTypeOK
  <2> QED
    BY <2>1, AwaitedStays DEF BrokerInv
<1>7. SettingsInOrder'
  BY <1>2, <1>3, NothingNewCases, SettingsStay DEF BrokerInv, runnerVars
<1> QED
  BY <1>4, <1>5, <1>6, <1>7, QuietSteps

LEMMA RequestTimeoutKeeps ==
  ASSUME BrokerInv, NEW r \in Requests, RequestTimeout(r)
  PROVE  BrokerInv'
<1>0. TaskTypeOK
  BY DEF BrokerInv
<1>1. /\ requestTimers' = requestTimers \ {r}
      /\ pendingTaskRequests' = WithoutFirst(pendingTaskRequests, r)
      /\ requester' = requester \/ requester' = [requester EXCEPT ![r] = "expired"]
      /\ UNCHANGED <<pendingTaskOffers, inProgress, task, requestOf, taskTimers, assigned, runnerVars, netVars>>
  BY DEF RequestTimeout
<1>2. pendingTaskRequests' \in Seq(Requests)
  BY <1>0, <1>1, WithoutFirstType DEF TaskTypeOK
<1>3. TaskTypeOK'
  BY <1>0, <1>1, <1>2 DEF TaskTypeOK, runnerVars, netVars
<1>4. QuietStep
  BY <1>0, <1>1, NothingNewCases
     DEF QuietStep, BrokerInv, TaskTypeOK, runnerVars, netVars, OneActive, PendingAreNew, OffersAreNew
<1>5. AwaitedTaskIsTimed' /\ AwaitedAlone'
  <2>1. \A q \in Requests : requester'[q] = "waiting" => requester[q] = "waiting"
    BY <1>0, <1>1 DEF TaskTypeOK
  <2> QED
    BY <1>1, <2>1, AwaitedStays DEF BrokerInv, AwaitedTaskIsTimed
<1>6. SettingsInOrder'
  BY <1>1, NothingNewCases, SettingsStay DEF BrokerInv, runnerVars, netVars
<1> QED
  BY <1>3, <1>4, <1>5, <1>6, QuietSteps

\* acceptOffer stops waiting for the runner.
LEMMA StopsWaiting ==
  ASSUME BrokerInv, NEW o \in Offers, task[o] = "accepting",
         task' = [task EXCEPT ![o] = "over"], inProgress' = inProgress \ {requestOf[o]},
         requestTimers' \subseteq Requests, pendingTaskRequests' \in Seq(Requests),
         toBroker' \in Queues, LosesOnly(toBroker, toBroker'),
         UNCHANGED <<pendingTaskOffers, requestOf, taskTimers, requesterVars, runnerVars, conn, toRunner>>
  PROVE  BrokerInv'
<1>0. TaskTypeOK
  BY DEF BrokerInv
<1>1. TaskTypeOK'
  BY <1>0 DEF TaskTypeOK, Queues, TaskStates, requesterVars, runnerVars
<1>2. \A p \in Offers : p # o /\ task[p] \in Active => requestOf[p] \in inProgress'
  BY DEF BrokerInv, OneActive, Active
<1>3. QuietStep
  BY <1>0, <1>2, NothingNewCases
     DEF QuietStep, BrokerInv, TaskTypeOK, runnerVars, Active, PendingAreNew, OffersAreNew
<1>4. AwaitedTaskIsTimed' /\ AwaitedAlone'
  <2>1. \A q \in Requests : requester[q] = "waiting" => task[assigned[q]] = "running" /\ assigned[q] \in taskTimers
    BY DEF BrokerInv, AwaitedTaskIsTimed
  <2>2. requester' = requester /\ assigned' = assigned /\ taskTimers' = taskTimers
    BY DEF requesterVars
  <2>3. \A q \in Requests : requester[q] = "waiting" => task'[assigned[q]] = "running"
    BY <1>0, <2>1 DEF TaskTypeOK
  <2> QED
    BY <2>1, <2>2, <2>3, AwaitedStays DEF BrokerInv
<1>5. SettingsInOrder'
  BY NothingNewCases, SettingsStay DEF BrokerInv, runnerVars
<1> QED
  BY <1>1, <1>3, <1>4, <1>5, QuietSteps

\* A message changes nothing.
LEMMA OnlyTaken ==
  ASSUME BrokerInv, toBroker' \in Queues, LosesOnly(toBroker, toBroker'),
         UNCHANGED <<brokerVars, requesterVars, runnerVars, conn, toRunner>>
  PROVE  BrokerInv'
<1>0. TaskTypeOK
  BY DEF BrokerInv
<1>1. TaskTypeOK'
  BY <1>0 DEF TaskTypeOK, Queues, brokerVars, requesterVars, runnerVars
<1>2. QuietStep
  BY <1>0, NothingNewCases
     DEF QuietStep, BrokerInv, TaskTypeOK, brokerVars, runnerVars, Active, OneActive, PendingAreNew, OffersAreNew
<1>3. AwaitedTaskIsTimed' /\ AwaitedAlone'
  BY DEF BrokerInv, AwaitedTaskIsTimed, AwaitedAlone, brokerVars, requesterVars
<1>4. SettingsInOrder'
  BY NothingNewCases, SettingsStay DEF BrokerInv, runnerVars
<1> QED
  BY <1>1, <1>2, <1>3, <1>4, QuietSteps

LEMMA AcceptTimeoutKeeps ==
  ASSUME BrokerInv, NEW o \in Offers, AcceptTimeout(o)
  PROVE  BrokerInv'
<1>1. toBroker \in Queues /\ requestTimers \subseteq Requests /\ pendingTaskRequests \in Seq(Requests)
  BY DEF BrokerInv, TaskTypeOK, Queues
<1>2. LosesOnly(toBroker, toBroker)
  BY <1>1 DEF LosesOnly
<1> QED
  BY <1>1, <1>2, StopsWaiting DEF AcceptTimeout, netVars

LEMMA ReceiveRejectedKeeps ==
  ASSUME BrokerInv, NEW w \in Connections, ReceiveRejected(w)
  PROVE  BrokerInv'
<1>0. TaskTypeOK
  BY DEF BrokerInv
<1> DEFINE o == Head(toBroker[w]).task
<1>1. toBroker' \in Queues /\ LosesOnly(toBroker, toBroker') /\ o \in Offers
  BY <1>0, ReceiveEffect DEF ReceiveRejected, TaskTypeOK, Queues
<1>2. /\ UNCHANGED <<pendingTaskOffers, pendingTaskRequests, requestTimers, requestOf, taskTimers,
                     requesterVars, runnerVars, conn, toRunner>>
      /\ \/ /\ task[o] = "accepting" /\ task' = [task EXCEPT ![o] = "over"]
            /\ inProgress' = inProgress \ {requestOf[o]}
         \/ UNCHANGED <<task, inProgress>>
  BY DEF ReceiveRejected
<1> HIDE DEF o
<1>3. CASE task[o] = "accepting" /\ task' = [task EXCEPT ![o] = "over"] /\ inProgress' = inProgress \ {requestOf[o]}
  <2>1. requestTimers' \subseteq Requests /\ pendingTaskRequests' \in Seq(Requests)
    BY <1>0, <1>2 DEF TaskTypeOK
  <2> QED
    BY <1>1, <1>2, <1>3, <2>1, StopsWaiting
<1>4. CASE UNCHANGED <<task, inProgress>>
  BY <1>1, <1>2, <1>4, OnlyTaken DEF brokerVars
<1> QED
  BY <1>2, <1>3, <1>4

LEMMA ReceiveDeferredKeeps ==
  ASSUME BrokerInv, NEW w \in Connections, ReceiveDeferred(w)
  PROVE  BrokerInv'
<1>0. TaskTypeOK
  BY DEF BrokerInv
<1> DEFINE o == Head(toBroker[w]).task
           r == requestOf[o]
<1>1. toBroker' \in Queues /\ LosesOnly(toBroker, toBroker') /\ o \in Offers
  BY <1>0, ReceiveEffect DEF ReceiveDeferred, TaskTypeOK, Queues
<1>2. /\ UNCHANGED <<pendingTaskOffers, requestOf, taskTimers, requesterVars, runnerVars, conn, toRunner>>
      /\ \/ /\ task[o] = "accepting" /\ task' = [task EXCEPT ![o] = "over"]
            /\ inProgress' = inProgress \ {r}
            /\ requestTimers' = requestTimers \cup {r}
            /\ pendingTaskRequests' = Append(pendingTaskRequests, r)
         \/ UNCHANGED <<task, inProgress, requestTimers, pendingTaskRequests>>
  BY DEF ReceiveDeferred
<1> HIDE DEF o
<1>3. CASE /\ task[o] = "accepting" /\ task' = [task EXCEPT ![o] = "over"]
           /\ inProgress' = inProgress \ {r}
           /\ requestTimers' = requestTimers \cup {r}
           /\ pendingTaskRequests' = Append(pendingTaskRequests, r)
  <2>1. r \in Requests
    BY <1>0, <1>1 DEF TaskTypeOK
  <2>2. requestTimers' \subseteq Requests /\ pendingTaskRequests' \in Seq(Requests)
    BY <1>0, <1>3, <2>1 DEF TaskTypeOK
  <2> QED
    BY <1>1, <1>2, <1>3, <2>2, StopsWaiting
<1>4. CASE UNCHANGED <<task, inProgress, requestTimers, pendingTaskRequests>>
  BY <1>1, <1>2, <1>4, OnlyTaken DEF brokerVars
<1> QED
  BY <1>2, <1>3, <1>4

\* A task ends, or its timeout fires when it has ended.
LEMMA EndKeeps ==
  ASSUME BrokerInv, NEW o \in Offers,
         EndTask(o) \/ (task[o] # "running" /\ taskTimers' = taskTimers \ {o} /\ UNCHANGED <<task, requester>>),
         toBroker' \in Queues, LosesOnly(toBroker, toBroker'), toRunner' \in Queues,
         NothingNew(toRunner, toRunner', "accept"), NothingNew(toRunner, toRunner', "settings"),
         UNCHANGED <<pendingTaskOffers, pendingTaskRequests, inProgress, requestTimers, requestOf,
                     assigned, runnerVars, conn>>
  PROVE  BrokerInv'
<1>0. TaskTypeOK
  BY DEF BrokerInv
<1>1. /\ task' = task \/ (task[o] = "running" /\ task' = [task EXCEPT ![o] = "over"])
      /\ taskTimers' \subseteq taskTimers
      /\ \A r \in Requests : requester'[r] = requester[r] \/ requester'[r] = "done"
      /\ requester' \in [Requests -> {"idle", "asked", "waiting", "done", "expired", "canceled"}]
  BY <1>0 DEF EndTask, Answer, TaskTypeOK
<1>2. TaskTypeOK'
  BY <1>0, <1>1 DEF TaskTypeOK, Queues, TaskStates, runnerVars
<1>3. QuietStep
  BY <1>0, <1>1, NothingNewCases
     DEF QuietStep, BrokerInv, TaskTypeOK, runnerVars, Active, OneActive, PendingAreNew, OffersAreNew
<1>4. AwaitedTaskIsTimed' /\ AwaitedAlone'
  <2>1. ASSUME NEW r \in Requests, requester'[r] = "waiting"
        PROVE  /\ requester[r] = "waiting" /\ assigned'[r] = assigned[r]
               /\ task'[assigned[r]] = "running" /\ assigned[r] \in taskTimers'
    <3>1. requester[r] = "waiting" /\ assigned' = assigned
      BY <1>1, <2>1
    <3>2. task[assigned[r]] = "running" /\ assigned[r] \in taskTimers
      BY <3>1 DEF BrokerInv, AwaitedTaskIsTimed
    <3>3. assigned[r] # o \/ UNCHANGED <<task, taskTimers>>
      BY <2>1, <3>1, <3>2 DEF EndTask, Answer
    <3>4. assigned[r] # o => task'[assigned[r]] = task[assigned[r]] /\ assigned[r] \in taskTimers'
      BY <1>0, <1>1, <3>2 DEF EndTask, TaskTypeOK
    <3> QED
      BY <3>1, <3>2, <3>3, <3>4
  <2> QED
    BY <2>1, AwaitedStays DEF BrokerInv
<1>5. SettingsInOrder'
  BY NothingNewCases, SettingsStay DEF BrokerInv, runnerVars
<1> QED
  BY <1>2, <1>3, <1>4, <1>5, QuietSteps

LEMMA TaskTimeoutKeeps ==
  ASSUME BrokerInv, NEW o \in Offers, TaskTimeout(o)
  PROVE  BrokerInv'
<1> DEFINE sent == Sent(toRunner, owner[o], Msg("cancel", o))
<1>1. toBroker \in Queues /\ toRunner \in Queues /\ owner[o] \in Connections
  BY DEF BrokerInv, TaskTypeOK, Queues
<1>2. sent \in Queues /\ NothingNew(toRunner, sent, "accept") /\ NothingNew(toRunner, sent, "settings")
  BY <1>1, SentMessage
<1>3. /\ EndTask(o) \/ (task[o] # "running" /\ taskTimers' = taskTimers \ {o} /\ UNCHANGED <<task, requester>>)
      /\ toRunner' = sent \/ toRunner' = toRunner
      /\ UNCHANGED <<pendingTaskOffers, pendingTaskRequests, inProgress, requestTimers, requestOf,
                     assigned, runnerVars, conn, toBroker>>
  BY DEF TaskTimeout
<1> HIDE DEF sent
<1>4. /\ toRunner' \in Queues /\ NothingNew(toRunner, toRunner', "accept") /\ NothingNew(toRunner, toRunner', "settings")
      /\ toBroker' \in Queues /\ LosesOnly(toBroker, toBroker')
  BY <1>1, <1>2, <1>3, NothingNewCases DEF LosesOnly
<1> QED
  BY <1>3, <1>4, EndKeeps

LEMMA ReceiveEndKeeps ==
  ASSUME BrokerInv, NEW w \in Connections, ReceiveEnd(w)
  PROVE  BrokerInv'
<1> DEFINE o == Head(toBroker[w]).task
<1>1. toBroker \in Queues /\ toRunner \in Queues
  BY DEF BrokerInv, TaskTypeOK, Queues
<1>2. toBroker' \in Queues /\ LosesOnly(toBroker, toBroker') /\ o \in Offers
  BY <1>1, ReceiveEffect DEF ReceiveEnd
<1>3. /\ EndTask(o)
      /\ UNCHANGED <<pendingTaskOffers, pendingTaskRequests, inProgress, requestTimers, requestOf,
                     assigned, runnerVars, conn, toRunner>>
  BY DEF ReceiveEnd
<1> HIDE DEF o
<1>4. toRunner' \in Queues /\ NothingNew(toRunner, toRunner', "accept") /\ NothingNew(toRunner, toRunner', "settings")
  BY <1>1, <1>3, NothingNewCases
<1> QED
  BY <1>2, <1>3, <1>4, EndKeeps

LEMMA ConnectKeeps ==
  ASSUME BrokerInv, NEW w \in Connections, Connect(w)
  PROVE  BrokerInv'
BY DEF BrokerInv, TaskTypeOK, OffersAreNew, AwaitedTaskIsTimed, AwaitedAlone, SettingsInOrder,
       OffersFitConcurrency, Own, Connect, brokerVars, requesterVars, runnerVars

\* What closes or breaks loses messages and tasks.
LEMMA CloseKeeps ==
  ASSUME BrokerInv, NEW w \in Connections, Close(w)
  PROVE  BrokerInv'
<1>0. TaskTypeOK
  BY DEF BrokerInv
<1>1. /\ conn' = [conn EXCEPT ![w] = "closed"]
      /\ toBroker' = [toBroker EXCEPT ![w] = <<>>] /\ toRunner' = [toRunner EXCEPT ![w] = <<>>]
      /\ slot' = [o \in Offers |-> IF owner[o] = w /\ slot[o] # "none" THEN "over" ELSE slot[o]]
      /\ UNCHANGED <<brokerVars, requesterVars, made, owner>>
  BY DEF Close
<1>2. LosesOnly(toBroker, toBroker') /\ LosesOnly(toRunner, toRunner')
  <2>1. toBroker \in Queues /\ toRunner \in Queues
    BY <1>0 DEF TaskTypeOK, Queues
  <2> QED
    BY <1>1, <2>1, ClearedQueue
<1>3. TaskTypeOK'
  <2>1. toBroker' \in Queues /\ toRunner' \in Queues
    BY <1>2 DEF LosesOnly
  <2>2. slot' \in [Offers -> SlotStates] /\ conn' \in [Connections -> {"never", "up", "closed", "gone"}]
    BY <1>0, <1>1 DEF TaskTypeOK, SlotStates
  <2> QED
    BY <1>0, <1>1, <2>1, <2>2 DEF TaskTypeOK, Queues, brokerVars, requesterVars
<1>4. QuietStep
  BY <1>0, <1>1, <1>2, NothingNewCases
     DEF QuietStep, BrokerInv, TaskTypeOK, brokerVars, Busy, OneActive, PendingAreNew, OffersAreNew
<1>5. AwaitedTaskIsTimed' /\ AwaitedAlone'
  BY <1>1 DEF BrokerInv, AwaitedTaskIsTimed, AwaitedAlone, brokerVars, requesterVars
<1>6. SettingsInOrder'
  BY <1>1, <1>2, NothingNewCases, SettingsStay DEF BrokerInv
<1> QED
  BY <1>3, <1>4, <1>5, <1>6, QuietSteps

LEMMA DeregisterKeeps ==
  ASSUME BrokerInv, NEW w \in Connections, Deregister(w)
  PROVE  BrokerInv'
<1>0. TaskTypeOK
  BY DEF BrokerInv
<1> DEFINE keep == {o \in Offers : owner[o] # w}
<1>1. /\ conn' = [conn EXCEPT ![w] = "gone"]
      /\ pendingTaskOffers' = Only(pendingTaskOffers, keep)
      /\ task' = [o \in Offers |-> IF owner[o] = w /\ task[o] = "running" THEN "over" ELSE task[o]]
      /\ requester' = [r \in Requests |->
           IF requester[r] = "waiting" /\ owner[assigned[r]] = w /\ task[assigned[r]] = "running"
           THEN "done" ELSE requester[r]]
      /\ UNCHANGED <<pendingTaskRequests, inProgress, requestTimers, requestOf, taskTimers, assigned,
                     runnerVars, toBroker, toRunner>>
  BY DEF Deregister
<1> HIDE DEF keep
<1>2. /\ pendingTaskOffers' \in Seq(Offers)
      /\ \A i \in 1..Len(pendingTaskOffers') : \E j \in 1..Len(pendingTaskOffers) :
           pendingTaskOffers[j] = pendingTaskOffers'[i]
      /\ NoDuplicates(pendingTaskOffers')
  <2>1. pendingTaskOffers \in Seq(Offers) /\ NoDuplicates(pendingTaskOffers)
    BY <1>0 DEF TaskTypeOK, BrokerInv, PendingAreNew
  <2> QED
    BY <1>1, <2>1, OnlyKeeps
<1>3. TaskTypeOK'
  <2>1. task' \in [Offers -> TaskStates] /\ conn' \in [Connections -> {"never", "up", "closed", "gone"}]
    BY <1>0, <1>1 DEF TaskTypeOK, TaskStates
  <2>2. requester' \in [Requests -> {"idle", "asked", "waiting", "done", "expired", "canceled"}]
    BY <1>0, <1>1 DEF TaskTypeOK
  <2> QED
    BY <1>0, <1>1, <1>2, <2>1, <2>2 DEF TaskTypeOK, runnerVars
<1>4. QuietStep
  BY <1>0, <1>1, <1>2, NothingNewCases
     DEF QuietStep, BrokerInv, TaskTypeOK, runnerVars, Active, OneActive, OffersAreNew
<1>5. AwaitedTaskIsTimed' /\ AwaitedAlone'
  <2>1. ASSUME NEW r \in Requests, requester'[r] = "waiting"
        PROVE  /\ requester[r] = "waiting" /\ assigned'[r] = assigned[r]
               /\ task'[assigned[r]] = "running" /\ assigned[r] \in taskTimers'
    <3>1. /\ requester[r] = "waiting" /\ assigned' = assigned /\ taskTimers' = taskTimers
          /\ ~(owner[assigned[r]] = w /\ task[assigned[r]] = "running")
      BY <1>1, <2>1
    <3>2. task[assigned[r]] = "running" /\ assigned[r] \in taskTimers /\ assigned[r] \in Offers
      BY <1>0, <3>1 DEF BrokerInv, AwaitedTaskIsTimed, TaskTypeOK
    <3> QED
      BY <1>1, <3>1, <3>2
  <2> QED
    BY <2>1, AwaitedStays DEF BrokerInv
<1>6. SettingsInOrder'
  BY <1>1, NothingNewCases, SettingsStay DEF BrokerInv, runnerVars
<1> QED
  BY <1>3, <1>4, <1>5, <1>6, QuietSteps

\* The runner has accepted: the task runs, with its timeout, and gets its
\* settings, unless the requester has given up.
LEMMA ReceiveAcceptedKeeps ==
  ASSUME BrokerInv, NEW w \in Connections, ReceiveAccepted(w)
  PROVE  BrokerInv'
<1>0. TaskTypeOK
  BY DEF BrokerInv
<1> DEFINE o == Head(toBroker[w]).task
           r == requestOf[o]
<1>1. /\ toBroker' \in Queues /\ LosesOnly(toBroker, toBroker') /\ o \in Offers
      /\ InFlight(toBroker, Msg("accepted", o))
      /\ Once(toBroker, Msg("accepted", o)) => ~InFlight(toBroker', Msg("accepted", o))
  BY <1>0, ReceiveEffect DEF ReceiveAccepted, TaskTypeOK, Queues
<1>2. /\ \/ task[o] = "accepting" /\ AcceptedTask(w, o)
         \/ UNCHANGED <<pendingTaskRequests, requestTimers, task, taskTimers, requesterVars, toRunner>>
      /\ UNCHANGED <<pendingTaskOffers, inProgress, requestOf, runnerVars, conn>>
  BY DEF ReceiveAccepted
<1> HIDE DEF o
<1>3. CASE UNCHANGED <<pendingTaskRequests, requestTimers, task, taskTimers, requesterVars, toRunner>>
  BY <1>1, <1>2, <1>3, OnlyTaken DEF brokerVars
<1>4. CASE task[o] = "accepting" /\ AcceptedTask(w, o)
  <2>1. r \in Requests /\ toRunner \in Queues
    BY <1>0, <1>1 DEF TaskTypeOK, Queues
  <2> DEFINE settings == Sent(toRunner, w, Msg("settings", o))
             cancel == Sent(toRunner, w, Msg("cancel", o))
  <2>2. /\ requestTimers' = requestTimers \ {r}
        /\ pendingTaskRequests' = WithoutFirst(pendingTaskRequests, r)
        /\ \/ task' = [task EXCEPT ![o] = "running"] /\ UNCHANGED <<taskTimers, requesterVars, toRunner>>
           \/ /\ requester' = [requester EXCEPT ![r] = "waiting"] /\ assigned' = [assigned EXCEPT ![r] = o]
              /\ requester[r] = "asked"
              /\ task' = [task EXCEPT ![o] = "running"] /\ taskTimers' = taskTimers \cup {o}
              /\ toRunner' = settings
           \/ /\ task' = [task EXCEPT ![o] = "over"] /\ toRunner' = cancel
              /\ UNCHANGED <<taskTimers, requesterVars>>
    BY <1>4 DEF AcceptedTask
  <2>3. settings \in Queues /\ NothingNew(toRunner, settings, "accept")
    BY <1>1, <2>1, SentMessage
  <2>4. AddsOnly(toRunner, settings, <<Msg("settings", o)>>)
    BY <1>1, <2>1, SentMessage
  <2>5. cancel \in Queues /\ NothingNew(toRunner, cancel, "accept") /\ NothingNew(toRunner, cancel, "settings")
    BY <1>1, <2>1, SentMessage
  <2> HIDE DEF settings, cancel
  <2>6. toRunner' \in Queues /\ NothingNew(toRunner, toRunner', "accept")
    BY <2>1, <2>2, <2>3, <2>5, NothingNewCases DEF requesterVars
  <2>7. pendingTaskRequests' \in Seq(Requests)
    BY <1>0, <2>2, WithoutFirstType DEF TaskTypeOK
  <2>8. TaskTypeOK'
    <3>1. task' \in [Offers -> TaskStates] /\ taskTimers' \subseteq Offers /\ requestTimers' \subseteq Requests
      BY <1>0, <1>1, <2>2 DEF TaskTypeOK, TaskStates
    <3>2. /\ requester' \in [Requests -> {"idle", "asked", "waiting", "done", "expired", "canceled"}]
          /\ assigned' \in [Requests -> Offers \cup {NoTask}]
      <4>1. CASE UNCHANGED requesterVars
        BY <1>0, <4>1 DEF TaskTypeOK, requesterVars
      <4>2. CASE requester' = [requester EXCEPT ![r] = "waiting"] /\ assigned' = [assigned EXCEPT ![r] = o]
        BY <1>0, <1>1, <4>2 DEF TaskTypeOK
      <4> QED
        BY <2>2, <4>1, <4>2
    <3> QED
      BY <1>0, <1>1, <1>2, <2>6, <2>7, <3>1, <3>2 DEF TaskTypeOK, Queues, runnerVars
  <2>9. QuietStep
    BY <1>0, <1>1, <1>2, <1>4, <2>2, <2>6, NothingNewCases
       DEF QuietStep, BrokerInv, TaskTypeOK, runnerVars, Active, OneActive, PendingAreNew, OffersAreNew
  <2>10. AwaitedTaskIsTimed' /\ AwaitedAlone'
    <3>1. ASSUME NEW q \in Requests, requester[q] = "waiting"
          PROVE  assigned[q] # o /\ task'[assigned[q]] = "running" /\ assigned[q] \in taskTimers'
      <4>1. task[assigned[q]] = "running" /\ assigned[q] \in taskTimers /\ assigned[q] \in Offers
        BY <1>0, <3>1 DEF BrokerInv, AwaitedTaskIsTimed, TaskTypeOK
      <4>2. assigned[q] # o
        BY <1>4, <4>1
      <4> QED
        BY <1>0, <2>2, <4>1, <4>2 DEF TaskTypeOK
    <3>2. CASE UNCHANGED requesterVars
      BY <3>1, <3>2, AwaitedStays DEF BrokerInv, requesterVars
    <3>3. CASE /\ requester' = [requester EXCEPT ![r] = "waiting"] /\ assigned' = [assigned EXCEPT ![r] = o]
               /\ task' = [task EXCEPT ![o] = "running"] /\ taskTimers' = taskTimers \cup {o}
      <4>1. \A q \in Requests : requester'[q] = "waiting" =>
               (q = r /\ assigned'[q] = o) \/ (q # r /\ requester[q] = "waiting" /\ assigned'[q] = assigned[q])
        BY <1>0, <2>1, <3>3 DEF TaskTypeOK
      <4>2. task'[o] = "running" /\ o \in taskTimers'
        BY <1>0, <1>1, <3>3 DEF TaskTypeOK
      <4> QED
        BY <3>1, <4>1, <4>2 DEF BrokerInv, AwaitedTaskIsTimed, AwaitedAlone
    <3> QED
      BY <2>2, <3>2, <3>3
  <2>11. SettingsInOrder'
    <3>1. NothingNew(toBroker, toBroker', "accepted") /\ slot' = slot
      BY <1>1, <1>2, NothingNewCases DEF runnerVars
    <3>2. CASE NothingNew(toRunner, toRunner', "settings")
      BY <3>1, <3>2, SettingsStay DEF BrokerInv
    <3>3. CASE toRunner' = settings
      <4> DEFINE x == Msg("settings", o)
      <4>1. AddsOnly(toRunner, toRunner', <<x>>)
        BY <2>4, <3>3
      <4>2. /\ ~InFlight(toRunner, x) /\ ~InFlight(toBroker', Msg("accepted", o))
            /\ slot[o] \in {"waiting", "over"}
        BY <1>1 DEF BrokerInv, SettingsInOrder
      <4>3. \A p \in Offers : p # o => Msg("settings", p) # x
        BY DEF Msg
      <4>4. ASSUME NEW p \in Offers
            PROVE  /\ Once(toRunner', Msg("settings", p))
                   /\ p # o => (InFlight(toRunner', Msg("settings", p)) => InFlight(toRunner, Msg("settings", p)))
        <5> HIDE DEF x
        <5>1. /\ \A m : InFlight(toRunner', m) => InFlight(toRunner, m) \/ m = x
              /\ \A m : Once(toRunner, m) /\ (m = x => ~InFlight(toRunner, m)) => Once(toRunner', m)
          BY <4>1, OneIsAdded
        <5>2. Once(toRunner, Msg("settings", p))
          BY DEF BrokerInv, SettingsInOrder
        <5> QED
          BY <4>2, <4>3, <5>1, <5>2
      <4> HIDE DEF x
      <4> QED
        BY <3>1, <4>2, <4>4 DEF BrokerInv, SettingsInOrder, NothingNew
    <3> QED
      BY <2>2, <2>5, <3>2, <3>3, NothingNewCases
  <2> QED
    BY <2>8, <2>9, <2>10, <2>11, QuietSteps
<1> QED
  BY <1>2, <1>3, <1>4

-----------------------------------------------------------------------------
(***************************************************************************)
(* The runner's steps                                                      *)
(***************************************************************************)

\* A runner's step that neither offers nor accepts: slots move on.
LEMMA SlotKeeps ==
  ASSUME BrokerInv, NEW o \in Offers, NEW state \in SlotStates, o <= made,
         slot' = [slot EXCEPT ![o] = state],
         state \in Busy \cup {"open"} => slot[o] \in Busy \cup {"open"},
         toBroker' \in Queues, NothingNew(toBroker, toBroker', "offer"),
         toRunner' \in Queues, LosesOnly(toRunner, toRunner'),
         SettingsInOrder', UNCHANGED <<brokerVars, requesterVars, made, owner, conn>>
  PROVE  BrokerInv'
<1>0. TaskTypeOK
  BY DEF BrokerInv
<1>1. TaskTypeOK'
  BY <1>0 DEF TaskTypeOK, Queues, brokerVars, requesterVars
<1>2. ~(o > made)
  BY <1>0 DEF TaskTypeOK, Offers
<1>3. QuietStep
  BY <1>0, <1>2, NothingNewCases
     DEF QuietStep, BrokerInv, TaskTypeOK, brokerVars, OneActive, PendingAreNew, OffersAreNew
<1>4. AwaitedTaskIsTimed' /\ AwaitedAlone'
  BY DEF BrokerInv, AwaitedTaskIsTimed, AwaitedAlone, brokerVars, requesterVars
<1> QED
  BY <1>1, <1>3, <1>4, QuietSteps

\* An offer that a runner is asked to accept, or has a slot for, was made.
LEMMA OfferWasMade ==
  ASSUME BrokerInv, NEW o \in Offers, InFlight(toRunner, Msg("accept", o)) \/ slot[o] # "none"
  PROVE  o <= made
<1>1. ~(o > made)
  BY DEF BrokerInv, AskedHaveTasks, OffersAreNew
<1> QED
  BY <1>1 DEF BrokerInv, TaskTypeOK, Offers

LEMMA LauncherDefersKeeps ==
  ASSUME BrokerInv, NEW w \in Connections, LauncherDefers(w)
  PROVE  BrokerInv'
<1> DEFINE o == Head(toRunner[w]).task
           sent == Sent(toBroker, w, Msg("deferred", o))
<1>1. toBroker \in Queues /\ toRunner \in Queues /\ slot \in [Offers -> SlotStates]
  BY DEF BrokerInv, TaskTypeOK, Queues
<1>2. toRunner' \in Queues /\ LosesOnly(toRunner, toRunner') /\ o \in Offers /\ InFlight(toRunner, Msg("accept", o))
  BY <1>1, TakeEffect DEF LauncherDefers
<1>3. slot' = [slot EXCEPT ![o] = "over"] /\ toBroker' = sent
      /\ UNCHANGED <<brokerVars, requesterVars, made, owner, conn>>
  BY DEF LauncherDefers
<1> HIDE DEF o
<1>4. sent \in Queues /\ NothingNew(toBroker, sent, "offer") /\ NothingNew(toBroker, sent, "accepted")
  BY <1>1, <1>2, SentMessage
<1> HIDE DEF sent
<1>5. SettingsInOrder'
  BY <1>1, <1>2, <1>3, <1>4, NothingNewCases, SettingsStay DEF BrokerInv
<1>6. "over" \in SlotStates /\ "over" \notin Busy \cup {"open"} /\ o <= made
  BY <1>2, OfferWasMade DEF SlotStates, Busy
<1> QED
  BY <1>2, <1>3, <1>4, <1>5, <1>6, SlotKeeps

\* A runner is asked to accept an offer.
LEMMA TakeAcceptKeeps ==
  ASSUME BrokerInv, NEW w \in Connections, TakeAccept(w)
  PROVE  BrokerInv'
<1> DEFINE o == Head(toRunner[w]).task
           rejected == Sent(toBroker, w, Msg("rejected", o))
           accepted == Sent(toBroker, w, Msg("accepted", o))
<1>1. toBroker \in Queues /\ toRunner \in Queues /\ slot \in [Offers -> SlotStates]
  BY DEF BrokerInv, TaskTypeOK, Queues
<1>2. toRunner' \in Queues /\ LosesOnly(toRunner, toRunner') /\ o \in Offers /\ InFlight(toRunner, Msg("accept", o))
  BY <1>1, TakeEffect DEF TakeAccept
<1>3. /\ UNCHANGED <<brokerVars, requesterVars, made, owner, conn>>
      /\ \/ slot' = [slot EXCEPT ![o] = "over"] /\ toBroker' = rejected
         \/ UNCHANGED slot /\ toBroker' = rejected
         \/ slot[o] = "open" /\ slot' = [slot EXCEPT ![o] = "waiting"] /\ toBroker' = accepted
  BY DEF TakeAccept
<1> HIDE DEF o
<1>4. rejected \in Queues /\ NothingNew(toBroker, rejected, "offer") /\ NothingNew(toBroker, rejected, "accepted")
  BY <1>1, <1>2, SentMessage
<1>5. /\ accepted \in Queues /\ NothingNew(toBroker, accepted, "offer")
      /\ AddsOnly(toBroker, accepted, <<Msg("accepted", o)>>)
  BY <1>1, <1>2, SentMessage
<1> HIDE DEF rejected, accepted
<1>6. o <= made
  BY <1>2, OfferWasMade
<1>7. NothingNew(toRunner, toRunner', "settings")
  BY <1>2, NothingNewCases
<1>8. CASE slot' = [slot EXCEPT ![o] = "over"] /\ toBroker' = rejected
  <2>1. SettingsInOrder'
    BY <1>1, <1>4, <1>7, <1>8, SettingsStay DEF BrokerInv
  <2>2. "over" \in SlotStates /\ "over" \notin Busy \cup {"open"}
    BY DEF SlotStates, Busy
  <2> QED
    BY <1>2, <1>3, <1>4, <1>6, <1>8, <2>1, <2>2, SlotKeeps
<1>9. CASE UNCHANGED slot /\ toBroker' = rejected
  <2>1. SettingsInOrder'
    BY <1>1, <1>4, <1>7, <1>9, SettingsStay DEF BrokerInv
  <2> DEFINE state == slot[o]
  <2>2. state \in SlotStates /\ slot' = [slot EXCEPT ![o] = state]
    BY <1>1, <1>2, <1>9
  <2>3. state \in Busy \cup {"open"} => slot[o] \in Busy \cup {"open"}
    OBVIOUS
  <2> HIDE DEF state
  <2> QED
    BY <1>2, <1>3, <1>4, <1>6, <1>9, <2>1, <2>2, <2>3, SlotKeeps
<1>10. CASE slot[o] = "open" /\ slot' = [slot EXCEPT ![o] = "waiting"] /\ toBroker' = accepted
  <2> DEFINE x == Msg("accepted", o)
  <2>1. AddsOnly(toBroker, toBroker', <<x>>)
    BY <1>5, <1>10
  <2>2. ~InFlight(toBroker, x) /\ ~InFlight(toRunner, Msg("settings", o))
    BY <1>2, <1>10 DEF BrokerInv, SettingsInOrder
  <2>3. \A p \in Offers : p # o => Msg("accepted", p) # x
    BY DEF Msg
  <2>4. ASSUME NEW p \in Offers
        PROVE  /\ Once(toBroker', Msg("accepted", p))
               /\ p # o => (InFlight(toBroker', Msg("accepted", p)) => InFlight(toBroker, Msg("accepted", p)))
    <3> HIDE DEF x
    <3>1. /\ \A m : InFlight(toBroker', m) => InFlight(toBroker, m) \/ m = x
          /\ \A m : Once(toBroker, m) /\ (m = x => ~InFlight(toBroker, m)) => Once(toBroker', m)
      BY <2>1, OneIsAdded
    <3>2. Once(toBroker, Msg("accepted", p))
      BY DEF BrokerInv, SettingsInOrder
    <3> QED
      BY <2>2, <2>3, <3>1, <3>2
  <2> HIDE DEF x
  <2>5. SettingsInOrder'
    BY <1>1, <1>2, <1>7, <1>10, <2>2, <2>4 DEF BrokerInv, SettingsInOrder, NothingNew
  <2>6. "waiting" \in SlotStates /\ slot[o] \in Busy \cup {"open"}
    BY <1>10 DEF SlotStates
  <2> QED
    BY <1>2, <1>3, <1>5, <1>6, <1>10, <2>5, <2>6, SlotKeeps
<1> QED
  BY <1>3, <1>8, <1>9, <1>10

\* The settings reach the task.
LEMMA TakeSettingsKeeps ==
  ASSUME BrokerInv, NEW w \in Connections, TakeSettings(w)
  PROVE  BrokerInv'
<1> DEFINE o == Head(toRunner[w]).task
<1>1. toBroker \in Queues /\ toRunner \in Queues /\ slot \in [Offers -> SlotStates]
  BY DEF BrokerInv, TaskTypeOK, Queues
<1>2. /\ toRunner' \in Queues /\ LosesOnly(toRunner, toRunner') /\ o \in Offers
      /\ InFlight(toRunner, Msg("settings", o))
      /\ Once(toRunner, Msg("settings", o)) => ~InFlight(toRunner', Msg("settings", o))
  BY <1>1, TakeEffect DEF TakeSettings
<1>3. /\ slot' = [slot EXCEPT ![o] = IF @ = "waiting" THEN "running" ELSE @]
      /\ UNCHANGED <<brokerVars, requesterVars, made, owner, conn, toBroker>>
  BY DEF TakeSettings
<1> HIDE DEF o
<1>4. /\ ~InFlight(toRunner', Msg("settings", o)) /\ ~InFlight(toBroker, Msg("accepted", o))
      /\ slot[o] \in {"waiting", "over"}
  BY <1>2 DEF BrokerInv, SettingsInOrder
<1> DEFINE state == IF slot[o] = "waiting" THEN "running" ELSE slot[o]
<1>5. /\ slot' = [slot EXCEPT ![o] = state] /\ state \in SlotStates
      /\ state \in Busy \cup {"open"} => slot[o] \in Busy \cup {"open"}
  BY <1>1, <1>2, <1>3 DEF SlotStates, Busy
<1> HIDE DEF state
<1>6. o <= made
  BY <1>2, <1>4, OfferWasMade
<1>7. SettingsInOrder'
  BY <1>1, <1>2, <1>3, <1>4, <1>5, NothingNewCases, SettingsStay DEF BrokerInv
<1>8. NothingNew(toBroker, toBroker', "offer")
  BY <1>3, NothingNewCases
<1> QED
  BY <1>1, <1>2, <1>3, <1>5, <1>6, <1>7, <1>8, SlotKeeps

\* finishTask
LEMMA FinishKeeps ==
  ASSUME BrokerInv, NEW o \in Offers, slot[o] # "none", NEW queues, FinishTask(o, queues),
         queues = toBroker \/ queues = Sent(toBroker, owner[o], Msg("end", o)),
         LosesOnly(toRunner, toRunner'), UNCHANGED <<brokerVars, requesterVars, conn>>
  PROVE  BrokerInv'
<1> DEFINE sent == Sent(toBroker, owner[o], Msg("end", o))
           slots == [slot EXCEPT ![o] = "over"]
<1>1. toBroker \in Queues /\ slot \in [Offers -> SlotStates] /\ owner[o] \in Connections
  BY DEF BrokerInv, TaskTypeOK, Queues
<1>2. sent \in Queues /\ NothingNew(toBroker, sent, "offer") /\ NothingNew(toBroker, sent, "accepted")
  BY <1>1, SentMessage
<1>3. queues = toBroker \/ queues = sent
  OBVIOUS
<1> HIDE DEF sent
<1>4. queues \in Queues /\ NothingNew(toBroker, queues, "offer") /\ NothingNew(toBroker, queues, "accepted")
  BY <1>1, <1>2, <1>3, NothingNewCases
<1>5. slots \in [Offers -> SlotStates] /\ \A p \in Offers : slots[p] = slot[p] \/ (slots[p] = "over" /\ slot[p] # "none")
  BY <1>1 DEF SlotStates
<1>6. Offer(owner[o], slots, queues)
  BY DEF FinishTask
<1> HIDE DEF slots
<1> QED
  BY <1>1, <1>4, <1>5, <1>6, OfferStep

LEMMA TakeCancelKeeps ==
  ASSUME BrokerInv, NEW w \in Connections, TakeCancel(w)
  PROVE  BrokerInv'
<1> DEFINE o == Head(toRunner[w]).task
<1>1. toBroker \in Queues /\ toRunner \in Queues /\ slot \in [Offers -> SlotStates]
  BY DEF BrokerInv, TaskTypeOK, Queues
<1>2. toRunner' \in Queues /\ LosesOnly(toRunner, toRunner') /\ o \in Offers
  BY <1>1, TakeEffect DEF TakeCancel
<1>3. /\ UNCHANGED <<brokerVars, requesterVars, conn>>
      /\ \/ slot[o] = "waiting" /\ FinishTask(o, toBroker)
         \/ /\ slot' = [slot EXCEPT ![o] = IF @ = "running" THEN "cancelling" ELSE @]
            /\ UNCHANGED <<made, owner, toBroker>>
  BY DEF TakeCancel
<1> HIDE DEF o
<1>4. CASE slot[o] = "waiting" /\ FinishTask(o, toBroker)
  BY <1>2, <1>3, <1>4, FinishKeeps
<1>5. CASE slot[o] = "running" /\ slot' = [slot EXCEPT ![o] = "cancelling"] /\ UNCHANGED <<made, owner, toBroker>>
  <2>1. NothingNew(toRunner, toRunner', "settings") /\ NothingNew(toBroker, toBroker', "accepted")
        /\ NothingNew(toBroker, toBroker', "offer")
    BY <1>2, <1>5, NothingNewCases
  <2>2. SettingsInOrder'
    BY <1>1, <1>5, <2>1, SettingsStay DEF BrokerInv
  <2>3. "cancelling" \in SlotStates /\ slot[o] \in Busy \cup {"open"} /\ o <= made
    BY <1>2, <1>5, OfferWasMade DEF SlotStates, Busy
  <2> QED
    BY <1>1, <1>2, <1>3, <1>5, <2>1, <2>2, <2>3, SlotKeeps
<1>6. CASE slot' = slot /\ UNCHANGED <<made, owner, toBroker>>
  <2>1. NothingNew(toRunner, toRunner', "settings") /\ NothingNew(toRunner, toRunner', "accept")
        /\ NothingNew(toBroker, toBroker', "accepted") /\ NothingNew(toBroker, toBroker', "offer")
    BY <1>2, <1>6, NothingNewCases
  <2>2. SettingsInOrder'
    BY <1>6, <2>1, SettingsStay DEF BrokerInv
  <2>3. TaskTypeOK'
    BY <1>2, <1>3, <1>6 DEF BrokerInv, TaskTypeOK, Queues, brokerVars, requesterVars
  <2>4. QuietStep
    BY <1>3, <1>6, <2>1 DEF QuietStep, BrokerInv, brokerVars, OneActive, PendingAreNew, OffersAreNew
  <2>5. AwaitedTaskIsTimed' /\ AwaitedAlone'
    BY <1>3 DEF BrokerInv, AwaitedTaskIsTimed, AwaitedAlone, brokerVars, requesterVars
  <2> QED
    BY <2>2, <2>3, <2>4, <2>5, QuietSteps
<1>7. slot' = [slot EXCEPT ![o] = IF @ = "running" THEN "cancelling" ELSE @] =>
        slot' = slot \/ (slot[o] = "running" /\ slot' = [slot EXCEPT ![o] = "cancelling"])
  BY <1>1, <1>2
<1> QED
  BY <1>3, <1>4, <1>5, <1>6, <1>7

LEMMA ExecutedKeeps ==
  ASSUME BrokerInv, NEW o \in Offers, Executed(o)
  PROVE  BrokerInv'
<1> DEFINE queues == IF slot[o] = "cancelling" THEN toBroker ELSE Sent(toBroker, owner[o], Msg("end", o))
<1>1. LosesOnly(toRunner, toRunner')
  BY DEF Executed, LosesOnly, BrokerInv, TaskTypeOK, Queues
<1>2. /\ slot[o] # "none" /\ FinishTask(o, queues) /\ UNCHANGED <<brokerVars, requesterVars, conn>>
      /\ queues = toBroker \/ queues = Sent(toBroker, owner[o], Msg("end", o))
  BY DEF Executed
<1> HIDE DEF queues
<1> QED
  BY <1>1, <1>2, FinishKeeps

LEMMA TaskTimedOutKeeps ==
  ASSUME BrokerInv, NEW o \in Offers, TaskTimedOut(o)
  PROVE  BrokerInv'
<1>1. toRunner \in Queues /\ toBroker \in Queues /\ slot \in [Offers -> SlotStates]
  BY DEF BrokerInv, TaskTypeOK, Queues
<1>2. /\ UNCHANGED <<brokerVars, requesterVars, conn, toRunner>>
      /\ \/ slot[o] = "waiting" /\ FinishTask(o, Sent(toBroker, owner[o], Msg("end", o)))
         \/ slot[o] = "running" /\ slot' = [slot EXCEPT ![o] = "timingOut"] /\ UNCHANGED <<made, owner, toBroker>>
  BY DEF TaskTimedOut
<1>3. LosesOnly(toRunner, toRunner')
  BY <1>1, <1>2 DEF LosesOnly
<1>4. CASE slot[o] = "waiting" /\ FinishTask(o, Sent(toBroker, owner[o], Msg("end", o)))
  <2> DEFINE queues == Sent(toBroker, owner[o], Msg("end", o))
  <2>1. FinishTask(o, queues) /\ queues = Sent(toBroker, owner[o], Msg("end", o))
    BY <1>4
  <2> HIDE DEF queues
  <2> QED
    BY <1>2, <1>3, <1>4, <2>1, FinishKeeps
<1>5. CASE slot[o] = "running" /\ slot' = [slot EXCEPT ![o] = "timingOut"] /\ UNCHANGED <<made, owner, toBroker>>
  <2>1. NothingNew(toRunner, toRunner', "settings") /\ NothingNew(toBroker, toBroker', "accepted")
        /\ NothingNew(toBroker, toBroker', "offer")
    BY <1>3, <1>5, NothingNewCases
  <2>2. SettingsInOrder'
    BY <1>1, <1>5, <2>1, SettingsStay DEF BrokerInv
  <2>3. "timingOut" \in SlotStates /\ slot[o] \in Busy \cup {"open"} /\ o <= made
    BY <1>5, OfferWasMade DEF SlotStates, Busy
  <2> QED
    BY <1>1, <1>2, <1>3, <1>5, <2>1, <2>2, <2>3, SlotKeeps
<1> QED
  BY <1>2, <1>4, <1>5

LEMMA SendOffersKeeps ==
  ASSUME BrokerInv, NEW w \in Connections, SendOffers(w)
  PROVE  BrokerInv'
<1>1. toRunner \in Queues /\ toBroker \in Queues /\ slot \in [Offers -> SlotStates]
  BY DEF BrokerInv, TaskTypeOK, Queues
<1>2. Offer(w, slot, toBroker) /\ UNCHANGED <<brokerVars, requesterVars, conn, toRunner>>
  BY DEF SendOffers
<1>3. LosesOnly(toRunner, toRunner')
  BY <1>1, <1>2 DEF LosesOnly
<1>4. NothingNew(toBroker, toBroker, "offer") /\ NothingNew(toBroker, toBroker, "accepted")
  BY NothingNewCases
<1> QED
  BY <1>1, <1>2, <1>3, <1>4, OfferStep

-----------------------------------------------------------------------------
(***************************************************************************)
(* The theorems                                                            *)
(***************************************************************************)

LEMMA BrokerKeeps == BrokerInv /\ [TaskNext]_taskVars => BrokerInv'
<1> SUFFICES ASSUME BrokerInv, [TaskNext]_taskVars PROVE BrokerInv'
  OBVIOUS
<1>1. ASSUME NEW r \in Requests, StartTask(r) \/ CancelTasks(r) \/ RequestTimeout(r) PROVE BrokerInv'
  BY <1>1, StartTaskKeeps, CancelTasksKeeps, RequestTimeoutKeeps
<1>2. ASSUME NEW o \in Offers, AcceptTimeout(o) \/ TaskTimeout(o) \/ Executed(o) \/ TaskTimedOut(o) PROVE BrokerInv'
  BY <1>2, AcceptTimeoutKeeps, TaskTimeoutKeeps, ExecutedKeeps, TaskTimedOutKeeps
<1>3. ASSUME NEW w \in Connections, Connect(w) \/ Close(w) \/ Deregister(w) \/ SendOffers(w) PROVE BrokerInv'
  BY <1>3, ConnectKeeps, CloseKeeps, DeregisterKeeps, SendOffersKeeps
<1>4. ASSUME NEW w \in Connections, BrokerReceives(w) PROVE BrokerInv'
  BY <1>4, ReceiveOfferKeeps, ReceiveAcceptedKeeps, ReceiveRejectedKeeps, ReceiveDeferredKeeps, ReceiveEndKeeps
     DEF BrokerReceives
<1>5. ASSUME NEW w \in Connections, RunnerTakes(w) PROVE BrokerInv'
  BY <1>5, TakeAcceptKeeps, LauncherDefersKeeps, TakeSettingsKeeps, TakeCancelKeeps DEF RunnerTakes
<1>6. CASE UNCHANGED taskVars
  BY <1>6 DEF taskVars, brokerVars, requesterVars, runnerVars, netVars, BrokerInv, TaskTypeOK, OffersAreNew,
              AwaitedTaskIsTimed, AwaitedAlone, SettingsInOrder, OffersFitConcurrency, Own
<1> QED
  BY <1>1, <1>2, <1>3, <1>4, <1>5, <1>6 DEF TaskNext

LEMMA BrokerInvHolds == TaskSpec => []BrokerInv
BY BrokerInitially, BrokerKeeps, PTL DEF TaskSpec

\* The types of the broker, the requester, the runners and what is between
\* them.
THEOREM TaskTypesHold == TaskSpec => []TaskTypeOK
<1>1. BrokerInv => TaskTypeOK
  BY DEF BrokerInv
<1> QED
  BY <1>1, BrokerInvHolds, PTL

\* settleTasks relies on never yielding, acceptOffer yields: a request still
\* has one task at most, however late runners answer.
THEOREM OneTaskPerRequestHolds == TaskSpec => []OneTaskPerRequest
<1>1. BrokerInv => OneTaskPerRequest
  BY DEF BrokerInv, OneActive, Active, OneTaskPerRequest
<1> QED
  BY <1>1, BrokerInvHolds, PTL

\* A startTask that awaits a result has its task running at the broker, with
\* its timeout set.
THEOREM AwaitedTaskIsTimedHolds == TaskSpec => []AwaitedTaskIsTimed
<1>1. BrokerInv => AwaitedTaskIsTimed
  BY DEF BrokerInv
<1> QED
  BY <1>1, BrokerInvHolds, PTL

\* receivedSettings never meets the states it says "should never happen".
THEOREM SettingsAreExpectedHolds == TaskSpec => []SettingsAreExpected
<1>1. BrokerInv => SettingsAreExpected
  <2> SUFFICES ASSUME BrokerInv, NEW w \in Connections, IsNext(toRunner, w, "settings")
               PROVE  slot[Head(toRunner[w]).task] \in {"waiting", "over"}
    BY DEF SettingsAreExpected
  <2> DEFINE o == Head(toRunner[w]).task
  <2>1. toRunner \in Queues
    BY DEF BrokerInv, TaskTypeOK, Queues
  <2>2. toRunner[w] # <<>> /\ o \in Offers /\ Head(toRunner[w]) = Msg("settings", o)
    BY <2>1, NextMessage
  <2>3. InFlight(toRunner, Msg("settings", o))
    BY <2>1, <2>2, TakenFromQueue
  <2> HIDE DEF o
  <2>4. slot[o] \in {"waiting", "over"}
    BY <2>2, <2>3 DEF BrokerInv, SettingsInOrder
  <2> QED
    BY <2>4 DEF o
<1> QED
  BY <1>1, BrokerInvHolds, PTL

\* A runner's open offers and tasks fit its concurrency.
THEOREM OffersFitConcurrencyHolds == TaskSpec => []OffersFitConcurrency
<1>1. BrokerInv => OffersFitConcurrency
  BY DEF BrokerInv
<1> QED
  BY <1>1, BrokerInvHolds, PTL
=============================================================================

------------------------- MODULE WorkflowEngineProofs -------------------------
(***************************************************************************)
(* For all workflows, and any number of runs, failures, waits and          *)
(* cancellations: the variables keep their types, and the keys of          *)
(* waitingExecution those of the nodes with entries (EngineTypesHold);     *)
(* what a node sends is never in two places (NothingDoubledHolds), and in  *)
(* one as long as little is sent (EachInOnePlaceHolds); nodes do not wait  *)
(* when nothing is left to run (NobodyLeftWaitingHolds).                   *)
(***************************************************************************)
EXTENDS WorkflowEngine, FiniteSetTheorems, SequenceTheorems,
        WellFoundedInduction, TLAPS

\* A set of numbers that is not empty has its least one as Earliest.
LEMMA EarliestIn ==
  ASSUME NEW S, S \subseteq Nat, S # {}
  PROVE  Earliest(S) \in S /\ \A j \in S : Earliest(S) <= j
<1>1. IsWellFoundedOn({ss \in Nat \X Nat : ss[1] < ss[2]}, Nat)
  BY NatLessThanWellFounded DEF OpToRel
<1>2. PICK x \in S : \A y \in S : <<y, x>> \notin {ss \in Nat \X Nat : ss[1] < ss[2]}
  BY <1>1, WFMin
<1>3. ASSUME NEW y \in S PROVE x <= y
  <2>1. <<y, x>> \in Nat \X Nat
    OBVIOUS
  <2>2. ~(<<y, x>>[1] < <<y, x>>[2])
    BY <1>2, <2>1
  <2> QED
    BY <2>2
<1> QED
  BY <1>3 DEF Earliest

\* unshift: the new element is the first, the others move up.
LEMMA PrependSeq ==
  ASSUME NEW S, NEW s \in Seq(S), NEW x \in S
  PROVE  /\ <<x>> \o s \in Seq(S)
         /\ Len(<<x>> \o s) = Len(s) + 1
         /\ (<<x>> \o s)[1] = x
         /\ \A k \in 2 .. Len(s) + 1 : (<<x>> \o s)[k] = s[k - 1]
<1>1. <<x>> \in Seq(S) /\ Len(<<x>>) = 1 /\ <<x>>[1] = x
  OBVIOUS
<1> QED
  BY <1>1, ConcatProperties

\* An element leaves a sequence without repetitions: it is the only one that is
\* missing afterwards, and there are still none.
LEMMA RemoveAtSeq ==
  ASSUME NEW S, NEW s \in Seq(S), NEW i \in DOMAIN s,
         \A k, l \in DOMAIN s : s[k] = s[l] => k = l
  PROVE  /\ RemoveAt(s, i) \in Seq(S)
         /\ \A k, l \in DOMAIN RemoveAt(s, i) :
              RemoveAt(s, i)[k] = RemoveAt(s, i)[l] => k = l
         /\ {RemoveAt(s, i)[k] : k \in DOMAIN RemoveAt(s, i)}
              = {s[k] : k \in DOMAIN s} \ {s[i]}
<1> DEFINE r == RemoveAt(s, i)
<1>1. Len(s) \in Nat /\ DOMAIN s = 1 .. Len(s) /\ Len(s) >= 1
  OBVIOUS
<1>2. r \in [1 .. Len(s) - 1 -> S]
  BY <1>1 DEF RemoveAt
<1>3. r \in Seq(S)
  BY <1>1, <1>2, IsASeq
<1>4. \A k \in 1 .. Len(s) - 1 : r[k] = IF k < i THEN s[k] ELSE s[k + 1]
  BY DEF RemoveAt
<1>5. DOMAIN r = 1 .. Len(s) - 1
  BY <1>2
<1> HIDE DEF r
<1>6. \A k, l \in DOMAIN r : r[k] = r[l] => k = l
  BY <1>1, <1>4, <1>5
<1>7. {r[k] : k \in DOMAIN r} = {s[k] : k \in DOMAIN s} \ {s[i]}
  <2>1. ASSUME NEW k \in DOMAIN r PROVE r[k] \in {s[l] : l \in DOMAIN s} \ {s[i]}
    BY <1>1, <1>4, <1>5
  <2>2. ASSUME NEW k \in DOMAIN s, k # i PROVE \E l \in DOMAIN r : r[l] = s[k]
    <3>1. CASE k < i
      BY <3>1, <1>1, <1>4, <1>5
    <3>2. CASE k > i
      <4>1. k - 1 \in DOMAIN r /\ r[k - 1] = s[k]
        BY <3>2, <1>1, <1>4, <1>5
      <4> QED BY <4>1
    <3> QED BY <3>1, <3>2, <2>2, <1>1
  <2> QED BY <2>1, <2>2
<1> QED
  BY <1>3, <1>6, <1>7 DEF r

-------------------------------------------------------------------------------
\* The nodes and inputs that the edges of a workflow name.
LEMMA FlowFacts ==
  ASSUME flow \in Flows
  PROVE  /\ flow.trigger \in Nodes
         /\ \A e \in flow.edges : /\ e.from \in Nodes /\ e.to \in Nodes
                                  /\ e.out \in Nat /\ e.in \in Nat
         /\ \A d \in Delivery : /\ d.edge \in flow.edges
                                /\ d.edge.from \in Nodes /\ d.edge.to \in Nodes
                                /\ d.edge.in \in Nat /\ d.run \in 1 .. MaxRuns
  BY EngineAssumption DEF Nodes, Edges, Delivery

\* The workflow stays the same, and with it the sets the types are made of.
LEMMA SameFlow ==
  ASSUME flow' = flow
  PROVE  /\ Nodes' = Nodes /\ Delivery' = Delivery /\ Entry' = Entry /\ Run' = Run
         /\ \A n, i, outs : Sent(n, i, outs)' = Sent(n, i, outs)
  BY DEF Nodes, Delivery, Entry, Run, Sent

\* waitingExecution and its keys.
WaitingOK ==
  /\ DOMAIN waiting = Nodes
  /\ \A n \in Nodes : /\ DOMAIN waiting[n] \subseteq Nat
                      /\ IsFiniteSet(DOMAIN waiting[n])
                      /\ \A i \in DOMAIN waiting[n] : waiting[n][i] \subseteq Delivery
  /\ keyed \in Seq(Nodes)
  /\ {keyed[k] : k \in DOMAIN keyed} = WaitingNodes
  /\ \A k, l \in DOMAIN keyed : keyed[k] = keyed[l] => k = l

\* The other variables.
RestOK ==
  /\ flow \in Flows
  /\ phase \in {"loop", "node", "adding", "over"}
  /\ stack \in Seq(Entry)
  /\ current \in Entry
  /\ pending \subseteq Delivery
  /\ runs \in [Nodes -> Seq(Run)]
  /\ dropped \subseteq Delivery
  /\ canceled \in BOOLEAN
  /\ fate \in {"running", "success", "error", "waiting", "canceled"}
  /\ upsets \in 0 .. MaxUpsets

\* The two parts of the types: what waits, and the rest.
LEMMA InvIsType == WaitingOK /\ RestOK => EngineTypeOK
  BY DEF WaitingOK, RestOK, EngineTypeOK

\* The types hold at the start.
LEMMA InitType == EngineInit => WaitingOK /\ RestOK
<1> SUFFICES ASSUME EngineInit PROVE WaitingOK /\ RestOK
  OBVIOUS
<1> USE DEF EngineInit
<1>1. flow.trigger \in Nodes
  BY FlowFacts
<1>2. current \in Entry
  BY <1>1 DEF Entry
<1>3. RestOK
  <2>1. stack \in Seq(Entry)
    <3> HIDE DEF EngineInit
    <3> QED BY <1>2 DEF EngineInit
  <2>2. runs \in [Nodes -> Seq(Run)]
    OBVIOUS
  <2>3. upsets \in 0 .. MaxUpsets
    BY EngineAssumption
  <2> QED
    BY <1>2, <2>1, <2>2, <2>3 DEF RestOK
<1>4. \A n \in Nodes : waiting[n] = <<>> /\ DOMAIN waiting[n] = {}
  OBVIOUS
<1>5. WaitingNodes = {} /\ DOMAIN keyed = {} /\ keyed \in Seq(Nodes)
  BY <1>4 DEF WaitingNodes
<1>6. IsFiniteSet({})
  BY FS_EmptySet
<1>7. WaitingOK
  BY <1>4, <1>5, <1>6 DEF WaitingOK
<1> QED
  BY <1>3, <1>7

\* A step that leaves waitingExecution alone.
LEMMA WaitingSame ==
  ASSUME WaitingOK, flow' = flow, waiting' = waiting, keyed' = keyed
  PROVE  WaitingOK'
  BY DEF WaitingOK, WaitingNodes, Nodes, Delivery

\* A record appended to a node's runs.
LEMMA RecordOK ==
  ASSUME RestOK, flow' = flow, NEW status \in {"success", "error", "waiting"},
         NEW outs \in SUBSET Nat, Record(status, outs)
  PROVE  /\ runs' \in [Nodes' -> Seq(Run')]
         /\ \A n \in Nodes \ {current.node} : runs'[n] = runs[n]
         /\ Len(runs'[current.node]) = Len(runs[current.node]) + 1
         /\ \A i \in 1 .. Len(runs[current.node]) :
              runs'[current.node][i] = runs[current.node][i]
         /\ runs'[current.node][Len(runs[current.node]) + 1] =
              [got |-> current.got, outs |-> outs, status |-> status]
<1>1. current.node \in Nodes /\ current.got \subseteq Delivery
  BY DEF RestOK, Entry
<1> DEFINE r == [got |-> current.got, outs |-> outs, status |-> status]
<1>2. r \in Run
  BY <1>1 DEF Run
<1>3. runs' = [runs EXCEPT ![current.node] = Append(@, r)]
  BY DEF Record
<1> HIDE DEF r
<1>4. runs[current.node] \in Seq(Run) /\ runs \in [Nodes -> Seq(Run)]
  BY <1>1 DEF RestOK
<1>5. runs'[current.node] = Append(runs[current.node], r)
  BY <1>1, <1>3, <1>4
<1>6. /\ Append(runs[current.node], r) \in Seq(Run)
      /\ Len(Append(runs[current.node], r)) = Len(runs[current.node]) + 1
      /\ \A i \in 1 .. Len(runs[current.node]) :
           Append(runs[current.node], r)[i] = runs[current.node][i]
      /\ Append(runs[current.node], r)[Len(runs[current.node]) + 1] = r
  BY <1>2, <1>4, AppendProperties
<1>7. runs' \in [Nodes -> Seq(Run)] /\ \A n \in Nodes \ {current.node} : runs'[n] = runs[n]
  BY <1>1, <1>3, <1>4, <1>6
<1> QED
  BY <1>5, <1>6, <1>7, SameFlow DEF r

\* The last run of a node is forgotten.
LEMMA ForgetOK ==
  ASSUME RestOK, flow' = flow,
         runs' = [runs EXCEPT ![current.node] = SubSeq(@, 1, Len(@) - 1)]
  PROVE  /\ runs' \in [Nodes' -> Seq(Run')]
         /\ \A n \in Nodes \ {current.node} : runs'[n] = runs[n]
         /\ DOMAIN runs'[current.node] = 1 .. Len(runs[current.node]) - 1
         /\ \A i \in 1 .. Len(runs[current.node]) - 1 :
              runs'[current.node][i] = runs[current.node][i]
<1>1. current.node \in Nodes /\ runs \in [Nodes -> Seq(Run)]
  BY DEF RestOK, Entry
<1> DEFINE s == runs[current.node]
<1>2. s \in Seq(Run) /\ Len(s) \in Nat
  BY <1>1
<1>3. runs'[current.node] = SubSeq(s, 1, Len(s) - 1)
  BY <1>1
<1> HIDE DEF s
<1>4. /\ SubSeq(s, 1, Len(s) - 1) \in Seq(Run)
      /\ DOMAIN SubSeq(s, 1, Len(s) - 1) = 1 .. Len(s) - 1
      /\ \A i \in 1 .. Len(s) - 1 : SubSeq(s, 1, Len(s) - 1)[i] = s[i]
  <2>1. SubSeq(s, 1, Len(s) - 1) = [i \in 1 .. Len(s) - 1 |-> s[i]]
    BY <1>2
  <2>2. \A i \in 1 .. Len(s) - 1 : s[i] \in Run
    BY <1>2
  <2> QED
    BY <1>2, <2>1, <2>2, IsASeq
<1>5. runs' \in [Nodes -> Seq(Run)] /\ \A n \in Nodes \ {current.node} : runs'[n] = runs[n]
  BY <1>1, <1>3, <1>4
<1> QED
  BY <1>3, <1>4, <1>5, SameFlow DEF s
\* The head of the stack is taken.
LEMMA ShiftOK ==
  ASSUME RestOK, flow' = flow, Shift
  PROVE  /\ stack' \in Seq(Entry') /\ current' \in Entry'
         /\ Len(stack) >= 1 /\ Len(stack') = Len(stack) - 1
         /\ current' = stack[1]
         /\ \A k \in 1 .. Len(stack) - 1 : stack'[k] = stack[k + 1]
<1>1. stack \in Seq(Entry) /\ stack # <<>> /\ current' = Head(stack) /\ stack' = Tail(stack)
  BY DEF RestOK, Shift
<1> QED
  BY <1>1, HeadTailProperties, SameFlow

\* An entry is put on top of it.
LEMMA PushOK ==
  ASSUME RestOK, flow' = flow, NEW e \in Entry, stack' = <<e>> \o stack
  PROVE  /\ stack' \in Seq(Entry')
         /\ Len(stack') = Len(stack) + 1
         /\ stack'[1] = e
         /\ \A k \in 2 .. Len(stack) + 1 : stack'[k] = stack[k - 1]
  BY PrependSeq, SameFlow DEF RestOK

\* addNodeToBeExecuted puts an entry on the stack.
LEMMA UnshiftOK ==
  ASSUME RestOK, flow' = flow, NEW n \in Nodes, NEW got \in SUBSET Delivery,
         Unshift(n, got)
  PROVE  /\ stack' \in Seq(Entry')
         /\ Len(stack') = Len(stack) + 1
         /\ stack'[1].got = got
         /\ \A k \in 2 .. Len(stack) + 1 : stack'[k] = stack[k - 1]
<1> DEFINE e == [node |-> n, got |-> got, disabled |-> FALSE]
<1>1. e \in Entry /\ e.got = got
  BY DEF Entry
<1>2. stack' = <<e>> \o stack
  BY DEF Unshift
<1> HIDE DEF e
<1> QED
  BY <1>1, <1>2, PushOK

\* An entry leaves waiting.
LEMMA TakeOutOK ==
  ASSUME WaitingOK, flow' = flow, NEW n \in Nodes, NEW i \in DOMAIN waiting[n],
         TakeOut(n, i)
  PROVE  /\ WaitingOK'
         /\ \A m \in Nodes \ {n} : waiting'[m] = waiting[m]
         /\ DOMAIN waiting'[n] = DOMAIN waiting[n] \ {i}
         /\ \A j \in DOMAIN waiting[n] \ {i} : waiting'[n][j] = waiting[n][j]
<1> USE SameFlow
<1>1. /\ DOMAIN waiting' = Nodes
      /\ \A m \in Nodes \ {n} : waiting'[m] = waiting[m]
      /\ waiting'[n] = Without(waiting[n], i)
  BY DEF WaitingOK, TakeOut
<1>2. /\ DOMAIN waiting'[n] = DOMAIN waiting[n] \ {i}
      /\ \A j \in DOMAIN waiting[n] \ {i} : waiting'[n][j] = waiting[n][j]
  BY <1>1 DEF Without
<1>3. IsFiniteSet(DOMAIN waiting[n] \ {i})
  BY FS_RemoveElement DEF WaitingOK
<1>4. \A m \in Nodes : /\ DOMAIN waiting'[m] \subseteq Nat
                       /\ IsFiniteSet(DOMAIN waiting'[m])
                       /\ \A j \in DOMAIN waiting'[m] : waiting'[m][j] \subseteq Delivery
  <2>1. ASSUME NEW m \in Nodes, m # n
        PROVE /\ DOMAIN waiting'[m] \subseteq Nat
              /\ IsFiniteSet(DOMAIN waiting'[m])
              /\ \A j \in DOMAIN waiting'[m] : waiting'[m][j] \subseteq Delivery
    BY <2>1, <1>1 DEF WaitingOK
  <2>2. /\ DOMAIN waiting'[n] \subseteq Nat
        /\ IsFiniteSet(DOMAIN waiting'[n])
        /\ \A j \in DOMAIN waiting'[n] : waiting'[n][j] \subseteq Delivery
    BY <1>2, <1>3 DEF WaitingOK
  <2> QED
    BY <2>1, <2>2
<1>5. /\ keyed' \in Seq(Nodes)
      /\ {keyed'[k] : k \in DOMAIN keyed'} = WaitingNodes'
      /\ \A k, l \in DOMAIN keyed' : keyed'[k] = keyed'[l] => k = l
  <2>0. /\ keyed \in Seq(Nodes)
        /\ {keyed[k] : k \in DOMAIN keyed} = WaitingNodes
        /\ \A k, l \in DOMAIN keyed : keyed[k] = keyed[l] => k = l
    BY DEF WaitingOK
  <2>1. CASE DOMAIN waiting[n] = {i}
    <3>1. WaitingNodes' = WaitingNodes \ {n}
      BY <2>1, <1>1, <1>2 DEF WaitingNodes
    <3>2. PICK k \in DOMAIN keyed : keyed[k] = n /\ keyed' = RemoveAt(keyed, k)
      BY <2>1 DEF TakeOut
    <3>3. /\ RemoveAt(keyed, k) \in Seq(Nodes)
          /\ \A j, l \in DOMAIN RemoveAt(keyed, k) :
               RemoveAt(keyed, k)[j] = RemoveAt(keyed, k)[l] => j = l
          /\ {RemoveAt(keyed, k)[j] : j \in DOMAIN RemoveAt(keyed, k)}
               = {keyed[j] : j \in DOMAIN keyed} \ {keyed[k]}
      BY <2>0, RemoveAtSeq
    <3>4. {keyed[j] : j \in DOMAIN keyed} \ {keyed[k]} = WaitingNodes'
      BY <2>0, <3>1, <3>2
    <3>5. {keyed'[j] : j \in DOMAIN keyed'} = WaitingNodes'
      BY <3>2, <3>3, <3>4
    <3> QED
      BY <3>2, <3>3, <3>5
  <2>2. CASE DOMAIN waiting[n] # {i}
    <3>1. WaitingNodes' = WaitingNodes
      BY <2>2, <1>1, <1>2 DEF WaitingNodes
    <3>2. keyed' = keyed
      BY <2>2 DEF TakeOut
    <3> QED
      BY <2>0, <3>1, <3>2
  <2> QED
    BY <2>1, <2>2
<1> QED
  BY <1>1, <1>2, <1>4, <1>5 DEF WaitingOK

\* A delivery is put with an entry that lacks it, or with a new one.
LEMMA GatheredOK ==
  ASSUME WaitingOK, RestOK, NEW d \in Delivery
  PROVE  /\ WaitingIndex(d) \in Nat
         /\ Gathered(d) \subseteq Delivery
         /\ \/ /\ WaitingIndex(d) \in DOMAIN waiting[d.edge.to]
               /\ Gathered(d) = {d} \cup waiting[d.edge.to][WaitingIndex(d)]
            \/ Gathered(d) = {d}
<1>1. d.edge.to \in Nodes
  BY FlowFacts DEF RestOK
<1>2. /\ DOMAIN waiting[d.edge.to] \subseteq Nat
      /\ IsFiniteSet(DOMAIN waiting[d.edge.to])
      /\ \A i \in DOMAIN waiting[d.edge.to] : waiting[d.edge.to][i] \subseteq Delivery
  BY <1>1 DEF WaitingOK
<1>3. CASE Lacking(d) # {}
  <2>1. Lacking(d) \subseteq DOMAIN waiting[d.edge.to]
    BY DEF Lacking
  <2>2. Earliest(Lacking(d)) \in Lacking(d)
    BY <1>2, <1>3, <2>1, EarliestIn
  <2> QED
    BY <1>2, <1>3, <2>1, <2>2 DEF WaitingIndex, Gathered
<1>4. CASE Lacking(d) = {}
  <2>1. Cardinality(DOMAIN waiting[d.edge.to]) \in Nat
    BY <1>2, FS_CardinalityType
  <2> QED
    BY <1>4, <2>1 DEF WaitingIndex, Gathered
<1> QED
  BY <1>3, <1>4

\* addNodeToBeExecuted puts a delivery among those that wait.
LEMMA AddToWaitingOK ==
  ASSUME WaitingOK, RestOK, NEW d \in pending, AddToWaiting(d)
  PROVE  /\ WaitingOK'
         /\ \A m \in Nodes \ {d.edge.to} : waiting'[m] = waiting[m]
         /\ DOMAIN waiting'[d.edge.to] = DOMAIN waiting[d.edge.to] \cup {WaitingIndex(d)}
         /\ waiting'[d.edge.to][WaitingIndex(d)] = Gathered(d)
         /\ \A j \in DOMAIN waiting[d.edge.to] \ {WaitingIndex(d)} :
              waiting'[d.edge.to][j] = waiting[d.edge.to][j]
<1> DEFINE n == d.edge.to  x == WaitingIndex(d)  g == Gathered(d)
<1>1. d \in Delivery /\ n \in Nodes /\ flow' = flow
  BY FlowFacts DEF RestOK, AddToWaiting, NextDelivery
<1>2. x \in Nat /\ g \subseteq Delivery
  BY <1>1, GatheredOK
<1>3. /\ waiting' = [waiting EXCEPT ![n] = With(@, x, g)]
      /\ keyed' = IF DOMAIN waiting[n] = {} THEN Append(keyed, n) ELSE keyed
  BY DEF AddToWaiting
<1> HIDE DEF n, x, g
<1>4. /\ DOMAIN waiting' = Nodes
      /\ \A m \in Nodes \ {n} : waiting'[m] = waiting[m]
      /\ waiting'[n] = With(waiting[n], x, g)
  BY <1>1, <1>3 DEF WaitingOK
<1>5. /\ DOMAIN waiting'[n] = DOMAIN waiting[n] \cup {x}
      /\ waiting'[n][x] = g
      /\ \A j \in DOMAIN waiting[n] \ {x} : waiting'[n][j] = waiting[n][j]
  BY <1>4 DEF With
<1>6. IsFiniteSet(DOMAIN waiting[n] \cup {x})
  BY <1>1, FS_AddElement DEF WaitingOK
<1>7. \A m \in Nodes : /\ DOMAIN waiting'[m] \subseteq Nat
                       /\ IsFiniteSet(DOMAIN waiting'[m])
                       /\ \A j \in DOMAIN waiting'[m] : waiting'[m][j] \subseteq Delivery
  <2>1. ASSUME NEW m \in Nodes, m # n
        PROVE /\ DOMAIN waiting'[m] \subseteq Nat
              /\ IsFiniteSet(DOMAIN waiting'[m])
              /\ \A j \in DOMAIN waiting'[m] : waiting'[m][j] \subseteq Delivery
    BY <2>1, <1>4 DEF WaitingOK
  <2>2. /\ DOMAIN waiting'[n] \subseteq Nat
        /\ IsFiniteSet(DOMAIN waiting'[n])
        /\ \A j \in DOMAIN waiting'[n] : waiting'[n][j] \subseteq Delivery
    BY <1>1, <1>2, <1>5, <1>6 DEF WaitingOK
  <2> QED
    BY <2>1, <2>2
<1>8. /\ keyed' \in Seq(Nodes)
      /\ {keyed'[k] : k \in DOMAIN keyed'} = WaitingNodes'
      /\ \A k, l \in DOMAIN keyed' : keyed'[k] = keyed'[l] => k = l
  <2>0. /\ keyed \in Seq(Nodes)
        /\ {keyed[k] : k \in DOMAIN keyed} = WaitingNodes
        /\ \A k, l \in DOMAIN keyed : keyed[k] = keyed[l] => k = l
    BY DEF WaitingOK
  <2>1. WaitingNodes' = WaitingNodes \cup {n}
    BY <1>1, <1>4, <1>5, SameFlow DEF WaitingNodes
  <2>2. CASE DOMAIN waiting[n] = {}
    <3>1. n \notin WaitingNodes
      BY <2>2 DEF WaitingNodes
    <3>2. keyed' = Append(keyed, n)
      BY <2>2, <1>3
    <3>3. /\ Append(keyed, n) \in Seq(Nodes)
          /\ Len(Append(keyed, n)) = Len(keyed) + 1
          /\ \A k \in 1 .. Len(keyed) : Append(keyed, n)[k] = keyed[k]
          /\ Append(keyed, n)[Len(keyed) + 1] = n
      BY <2>0, <1>1, AppendProperties
    <3>4. /\ DOMAIN keyed = 1 .. Len(keyed) /\ Len(keyed) \in Nat
          /\ DOMAIN keyed' = 1 .. Len(keyed) + 1
      BY <2>0, <3>2, <3>3
    <3>5. \A k \in DOMAIN keyed : keyed[k] # n
      BY <2>0, <3>1
    <3>6. \A k, l \in DOMAIN keyed' : keyed'[k] = keyed'[l] => k = l
      BY <2>0, <3>2, <3>3, <3>4, <3>5
    <3>7. {keyed'[k] : k \in DOMAIN keyed'} = {keyed[k] : k \in DOMAIN keyed} \cup {n}
      BY <3>2, <3>3, <3>4
    <3> QED
      BY <2>0, <2>1, <3>2, <3>3, <3>6, <3>7
  <2>3. CASE DOMAIN waiting[n] # {}
    <3>1. WaitingNodes' = WaitingNodes
      BY <2>1, <2>3, <1>1 DEF WaitingNodes
    <3> QED
      BY <2>0, <2>3, <3>1, <1>3
  <2> QED
    BY <2>2, <2>3
<1> QED
  BY <1>1, <1>4, <1>5, <1>7, <1>8, SameFlow DEF WaitingOK, n, x, g

\* The entry on top is disabled.
LEMMA DisableOK ==
  ASSUME NEW s \in Seq(Entry)
  PROVE  /\ [s EXCEPT ![1].disabled = TRUE] \in Seq(Entry)
         /\ DOMAIN [s EXCEPT ![1].disabled = TRUE] = DOMAIN s
         /\ \A k \in DOMAIN s : /\ [s EXCEPT ![1].disabled = TRUE][k].got = s[k].got
                                /\ [s EXCEPT ![1].disabled = TRUE][k].node = s[k].node
<1> DEFINE t == [s EXCEPT ![1].disabled = TRUE]
           e == [s[1] EXCEPT !.disabled = TRUE]
<1>1. Len(s) \in Nat /\ DOMAIN s = 1 .. Len(s) /\ DOMAIN t = DOMAIN s
  OBVIOUS
<1>2. \A k \in DOMAIN s : t[k] = IF k = 1 THEN e ELSE s[k]
  OBVIOUS
<1>3. 1 \in DOMAIN s => e \in Entry /\ e.got = s[1].got /\ e.node = s[1].node
  <2>1. SUFFICES ASSUME 1 \in DOMAIN s
                 PROVE  e \in Entry /\ e.got = s[1].got /\ e.node = s[1].node
    OBVIOUS
  <2>2. s[1] \in Entry
    BY <2>1
  <2>3. \A x \in Entry : [x EXCEPT !.disabled = TRUE] \in Entry
                         /\ [x EXCEPT !.disabled = TRUE].got = x.got
                         /\ [x EXCEPT !.disabled = TRUE].node = x.node
    BY DEF Entry
  <2> QED
    BY <2>2, <2>3
<1> HIDE DEF t, e
<1>4. \A k \in DOMAIN s : t[k] \in Entry /\ t[k].got = s[k].got /\ t[k].node = s[k].node
  BY <1>1, <1>2, <1>3
<1>5. t = [k \in 1 .. Len(s) |-> t[k]]
  BY <1>1 DEF t
<1>6. t \in Seq(Entry)
  BY <1>1, <1>4, <1>5, IsASeq
<1> QED
  BY <1>1, <1>4, <1>6 DEF t

\* What the node that ran sends are deliveries.
LEMMA SentOK ==
  ASSUME RestOK, NEW outs \in SUBSET Outputs(current.node),
         Len(runs[current.node]) < MaxRuns \/ outs = {}
  PROVE  /\ Sent(current.node, Len(runs[current.node]) + 1, outs) \subseteq Delivery
         /\ outs \subseteq Nat
<1>1. current.node \in Nodes /\ runs[current.node] \in Seq(Run)
  BY DEF RestOK, Entry
<1>2. Len(runs[current.node]) \in Nat
  BY <1>1
<1>3. outs \subseteq Nat
  BY FlowFacts DEF RestOK, Outputs
<1>4. CASE outs = {}
  BY <1>3, <1>4 DEF Sent
<1>5. CASE Len(runs[current.node]) < MaxRuns
  <2>1. Len(runs[current.node]) + 1 \in 1 .. MaxRuns
    BY <1>2, <1>5, EngineAssumption
  <2> QED
    BY <1>3, <2>1 DEF Sent, Delivery
<1> QED
  BY <1>4, <1>5

\* An entry with two inputs filled was there before the delivery came.
LEMMA LastIsOld ==
  ASSUME WaitingOK, RestOK, NEW d \in pending, AddLast(d)
  PROVE  /\ d.edge.to \in Nodes
         /\ WaitingIndex(d) \in DOMAIN waiting[d.edge.to]
         /\ Gathered(d) = {d} \cup waiting[d.edge.to][WaitingIndex(d)]
         /\ Gathered(d) \subseteq Delivery
<1>1. d \in Delivery /\ d.edge.to \in Nodes
  BY FlowFacts DEF RestOK
<1>2. Gathered(d) # {d}
  <2>1. SUFFICES ASSUME Gathered(d) = {d} PROVE FALSE
    OBVIOUS
  <2>2. Filled(Gathered(d)) = {d.edge.in}
    BY <2>1 DEF Filled
  <2>3. Cardinality(Inputs(d.edge.to)) = 1
    BY <2>2, FS_Singleton DEF AddLast
  <2> QED
    BY <2>3 DEF AddLast
<1> QED
  BY <1>1, <1>2, GatheredOK

\* The node whose turn it is has an entry.
LEMMA TurnOK ==
  ASSUME WaitingOK, NEW k \in DOMAIN keyed
  PROVE  /\ keyed[k] \in Nodes
         /\ Earliest(DOMAIN waiting[keyed[k]]) \in DOMAIN waiting[keyed[k]]
         /\ waiting[keyed[k]][Earliest(DOMAIN waiting[keyed[k]])] \subseteq Delivery
<1>1. keyed[k] \in Nodes /\ DOMAIN waiting[keyed[k]] # {}
  BY DEF WaitingOK, WaitingNodes
<1>2. DOMAIN waiting[keyed[k]] \subseteq Nat
  BY <1>1 DEF WaitingOK
<1>3. Earliest(DOMAIN waiting[keyed[k]]) \in DOMAIN waiting[keyed[k]]
  BY <1>1, <1>2, EarliestIn
<1> QED
  BY <1>1, <1>3 DEF WaitingOK

\* No step breaks the types.
LEMMA NextType ==
  ASSUME WaitingOK, RestOK, [EngineNext]_engineVars
  PROVE  WaitingOK' /\ RestOK'
<1>1. CASE RunNode
  <2>1. WaitingOK'
    BY <1>1, WaitingSame DEF RunNode
  <2>2. RestOK'
    BY <1>1, ShiftOK, SameFlow DEF RunNode, RestOK
  <2> QED
    BY <2>1, <2>2
<1>2. CASE SkipNode
  <2>1. WaitingOK'
    BY <1>2, WaitingSame DEF SkipNode
  <2>2. stack' \in Seq(Entry') /\ current' \in Entry'
    BY <1>2, ShiftOK DEF SkipNode
  <2>3. current'.got \subseteq Delivery
    BY <1>2, <2>2, SameFlow DEF Entry, SkipNode
  <2>4. RestOK'
    BY <1>2, <2>2, <2>3, SameFlow DEF SkipNode, RestOK
  <2> QED
    BY <2>1, <2>4
<1>3. CASE EndLoop
  BY <1>3, WaitingSame, SameFlow DEF EndLoop, EndWith, RestOK
<1>4. CASE Cancel
  <2>1. upsets' \in 0 .. MaxUpsets
    BY <1>4, EngineAssumption DEF Cancel, RestOK
  <2> QED
    BY <1>4, <2>1, WaitingSame, SameFlow DEF Cancel, RestOK
<1>5. ASSUME NEW status \in {"error", "waiting"}, Record(status, {}), PutBack,
             EndWith(status)
      PROVE  WaitingOK' /\ RestOK'
  <2>0. flow' = flow
    BY <1>5 DEF PutBack
  <2>1. upsets' \in 0 .. MaxUpsets
    BY <1>5, EngineAssumption DEF PutBack, RestOK
  <2>2. runs' \in [Nodes' -> Seq(Run')]
    BY <1>5, <2>0, RecordOK
  <2>3. stack' \in Seq(Entry')
    BY <1>5, <2>0, PushOK DEF PutBack, RestOK
  <2>4. WaitingOK'
    BY <1>5, <2>0, WaitingSame DEF PutBack
  <2> QED
    BY <1>5, <2>1, <2>2, <2>3, <2>4, SameFlow DEF PutBack, EndWith, RestOK
<1>6. CASE Fail
  BY <1>5, <1>6 DEF Fail
<1>7. CASE Wait
  BY <1>5, <1>7 DEF Wait
<1>8. CASE ReturnNull
  <2>1. current.got \subseteq Delivery
    BY DEF RestOK, Entry
  <2> QED
    BY <1>8, <2>1, WaitingSame, SameFlow DEF ReturnNull, RestOK
<1>9. ASSUME NEW outs \in SUBSET Outputs(current.node), Succeed(outs)
      PROVE  WaitingOK' /\ RestOK'
  <2>0. flow' = flow
    BY <1>9 DEF Succeed
  <2>1. Sent(current.node, Len(runs[current.node]) + 1, outs) \subseteq Delivery
        /\ outs \subseteq Nat
    BY <1>9, SentOK DEF Succeed
  <2>2. runs' \in [Nodes' -> Seq(Run')]
    BY <1>9, <2>0, <2>1, RecordOK DEF Succeed
  <2>3. pending' \subseteq Delivery /\ phase' \in {"loop", "adding"}
    BY <1>9, <2>1 DEF Succeed
  <2>4. WaitingOK'
    BY <1>9, <2>0, WaitingSame DEF Succeed
  <2> QED
    BY <1>9, <2>2, <2>3, <2>4, SameFlow DEF Succeed, RestOK
<1>10. ASSUME NEW d \in pending, AddToStack(d)
       PROVE  WaitingOK' /\ RestOK'
  <2>0. flow' = flow /\ d \in Delivery /\ d.edge.to \in Nodes
    BY <1>10, FlowFacts DEF AddToStack, NextDelivery, RestOK
  <2>1. stack' \in Seq(Entry')
    BY <1>10, <2>0, UnshiftOK DEF AddToStack
  <2>2. WaitingOK'
    BY <1>10, <2>0, WaitingSame DEF AddToStack
  <2> QED
    BY <1>10, <2>1, <2>2, SameFlow DEF AddToStack, NextDelivery, RestOK
<1>11. ASSUME NEW d \in pending, AddLast(d)
       PROVE  WaitingOK' /\ RestOK'
  <2>0. flow' = flow
    BY <1>11 DEF AddLast, NextDelivery
  <2>1. stack' \in Seq(Entry')
    BY <1>11, <2>0, LastIsOld, UnshiftOK DEF AddLast
  <2>2. WaitingOK'
    BY <1>11, <2>0, LastIsOld, TakeOutOK DEF AddLast
  <2> QED
    BY <1>11, <2>1, <2>2, SameFlow DEF AddLast, NextDelivery, RestOK
<1>12. ASSUME NEW d \in pending, AddToWaiting(d)
       PROVE  WaitingOK' /\ RestOK'
  <2>1. WaitingOK'
    BY <1>12, AddToWaitingOK
  <2> QED
    BY <1>12, <2>1, SameFlow DEF AddToWaiting, NextDelivery, RestOK
<1>13. CASE GoOn
  BY <1>13, WaitingSame, SameFlow DEF GoOn, AfterNode, RestOK
<1>14. ASSUME NEW k \in DOMAIN keyed, TakeWaiting(k)
       PROVE  WaitingOK' /\ RestOK'
  <2>0. flow' = flow
    BY <1>14 DEF TakeWaiting, AfterNode
  <2>1. stack' \in Seq(Entry')
    BY <1>14, <2>0, TurnOK, UnshiftOK DEF TakeWaiting
  <2>2. WaitingOK'
    BY <1>14, <2>0, TurnOK, TakeOutOK DEF TakeWaiting
  <2> QED
    BY <1>14, <2>1, <2>2, SameFlow DEF TakeWaiting, AfterNode, RestOK
<1>15. ASSUME ForgetRun, stack' \in Seq(Entry)
       PROVE  WaitingOK' /\ RestOK'
  <2>0. flow' = flow
    BY <1>15 DEF ForgetRun
  <2>1. runs' \in [Nodes' -> Seq(Run')]
    BY <1>15, <2>0, ForgetOK DEF ForgetRun
  <2>2. WaitingOK'
    BY <1>15, <2>0, WaitingSame DEF ForgetRun
  <2> QED
    BY <1>15, <2>1, <2>2, SameFlow DEF ForgetRun, RestOK
<1>16. CASE Resume
  <2>1. stack \in Seq(Entry) /\ stack' = [stack EXCEPT ![1].disabled = TRUE]
    BY <1>16 DEF Resume, RestOK
  <2>2. stack' \in Seq(Entry)
    BY <2>1, DisableOK
  <2> QED
    BY <1>15, <1>16, <2>2 DEF Resume
<1>17. CASE Retry
  BY <1>15, <1>17 DEF Retry, RestOK
<1>18. CASE UNCHANGED engineVars
  BY <1>18, WaitingSame, SameFlow DEF engineVars, RestOK
<1> QED
  BY <1>1, <1>2, <1>3, <1>4, <1>6, <1>7, <1>8, <1>9, <1>10, <1>11, <1>12, <1>13,
     <1>14, <1>16, <1>17, <1>18 DEF EngineNext

\* The variables keep their types, and the keys of waitingExecution are those
\* of the nodes with entries there.
THEOREM EngineTypesHold == EngineSpec => []EngineTypeOK
<1>1. EngineInit => WaitingOK /\ RestOK
  BY InitType
<1>2. (WaitingOK /\ RestOK) /\ [EngineNext]_engineVars => (WaitingOK /\ RestOK)'
  BY NextType
<1>3. WaitingOK /\ RestOK => EngineTypeOK
  BY InvIsType
<1> QED
  BY <1>1, <1>2, <1>3, PTL DEF EngineSpec

-------------------------------------------------------------------------------
(***************************************************************************)
(* A delivery is in no two places.  Of each delivery the invariant names   *)
(* the only place, kind a and index j, where it can be; it says "none"     *)
(* when no run that succeeded has sent it, so that what a run sends is     *)
(* nowhere yet.                                                            *)
(***************************************************************************)
StackOnly(d, a, j) ==
  \A k \in DOMAIN stack : d \in stack[k].got => a = "stack" /\ j = k

WaitOnly(d, a, j) ==
  \A i \in DOMAIN waiting[d.edge.to] :
    d \in waiting[d.edge.to][i] => a = "waiting" /\ j = i

RunOnly(d, a, j) ==
  \A i \in Succeeded(d.edge.to) :
    d \in runs[d.edge.to][i].got => a = "run" /\ j = i

RestOnly(d, a) ==
  /\ phase = "node" /\ d \in current.got => a = "node"
  /\ d \in pending => a = "pending"
  /\ d \in dropped => a = "dropped"

Only(d, a, j) ==
  StackOnly(d, a, j) /\ WaitOnly(d, a, j) /\ RunOnly(d, a, j) /\ RestOnly(d, a)

\* Entries that wait hold what was sent to their node.
Addressed ==
  \A n \in Nodes : \A i \in DOMAIN waiting[n] : \A d \in waiting[n][i] : d.edge.to = n

\* An execution that can be run again stopped with a run that did not succeed.
LastRun ==
  fate \in {"error", "waiting"} =>
    /\ phase = "over"
    /\ Len(runs[current.node]) \notin Succeeded(current.node)

OnePlace(d) ==
  /\ \E a, j : Only(d, a, j)
  /\ d.run \notin Succeeded(d.edge.from) => Only(d, "none", 0)

Apart == \A d \in Delivery : OnePlace(d)

\* A delivery with an only place is in no two.
LEMMA ApartIsNothingDoubled == RestOK /\ Apart => NothingDoubled
<1> SUFFICES ASSUME RestOK, Apart, NEW d \in Delivery, NEW p \in Places(d),
                    NEW q \in Places(d)
             PROVE  p = q
  BY DEF NothingDoubled
<1>1. PICK a, j : Only(d, a, j)
  BY DEF Apart, OnePlace
<1>2. ASSUME NEW r \in Places(d)
      PROVE  r = IF a \in {"stack", "waiting", "run"} THEN <<a, j>> ELSE <<a, 0>>
  <2>1. CASE \E k \in DOMAIN stack : d \in stack[k].got /\ r = <<"stack", k>>
    BY <1>1, <2>1 DEF Only, StackOnly
  <2>2. CASE \E i \in DOMAIN waiting[d.edge.to] :
               d \in waiting[d.edge.to][i] /\ r = <<"waiting", i>>
    BY <1>1, <2>2 DEF Only, WaitOnly
  <2>3. CASE \E i \in Succeeded(d.edge.to) :
               d \in runs[d.edge.to][i].got /\ r = <<"run", i>>
    BY <1>1, <2>3 DEF Only, RunOnly
  <2>4. CASE \/ phase = "node" /\ d \in current.got /\ r = <<"node", 0>>
             \/ d \in pending /\ r = <<"pending", 0>>
             \/ d \in dropped /\ r = <<"dropped", 0>>
    BY <1>1, <2>4 DEF Only, RestOnly
  <2> QED
    BY <1>2, <2>1, <2>2, <2>3, <2>4 DEF Places
<1> QED
  BY <1>2

\* Under each step what is in one place stays in one: the entries of the stack
\* move down when one is taken, and up when one is added.
Lower(a, j) == IF a = "stack" THEN j - 1 ELSE j
Raise(a, j) == IF a = "stack" THEN j + 1 ELSE j

\* What is taken from the stack is no longer on it; the rest moves down.
LEMMA ShiftMoves ==
  ASSUME RestOK, flow' = flow, Shift,
         NEW d \in Delivery, NEW a, NEW j, StackOnly(d, a, j)
  PROVE  /\ d \in current'.got => a = "stack" /\ j = 1
         /\ d \notin current'.got => StackOnly(d, a, Lower(a, j))'
         /\ d \in current'.got => \A b, l : StackOnly(d, b, l)'
<1>1. /\ Len(stack) \in Nat /\ DOMAIN stack = 1 .. Len(stack)
      /\ Len(stack) >= 1
      /\ DOMAIN stack' = 1 .. Len(stack) - 1
      /\ current' = stack[1]
      /\ \A k \in 1 .. Len(stack) - 1 : stack'[k] = stack[k + 1]
  BY ShiftOK DEF RestOK
<1>2. \A k \in DOMAIN stack' : d \in stack'[k].got => a = "stack" /\ j = k + 1
  BY <1>1 DEF StackOnly
<1> QED
  BY <1>1, <1>2 DEF StackOnly, Lower

\* What is put on top of the stack, and was not below it.
LEMMA PushMoves ==
  ASSUME stack \in Seq(Entry), stack' \in Seq(Entry'), Len(stack') = Len(stack) + 1,
         \A k \in 2 .. Len(stack) + 1 : stack'[k] = stack[k - 1],
         NEW d \in Delivery, NEW a, NEW j, StackOnly(d, a, j)
  PROVE  /\ d \notin stack'[1].got => StackOnly(d, a, Raise(a, j))'
         /\ a # "stack" => StackOnly(d, "stack", 1)'
<1>1. /\ Len(stack) \in Nat /\ DOMAIN stack = 1 .. Len(stack)
      /\ DOMAIN stack' = 1 .. Len(stack) + 1
  OBVIOUS
<1>2. \A k \in 2 .. Len(stack) + 1 : d \in stack'[k].got => a = "stack" /\ j = k - 1
  BY <1>1 DEF StackOnly
<1> QED
  BY <1>1, <1>2 DEF StackOnly, Raise

\* A run that did not succeed is recorded, or forgotten.
LEMMA RecordUnsuccessful ==
  ASSUME RestOK, flow' = flow, current' = current,
         NEW status \in {"error", "waiting"}, Record(status, {}), NEW n \in Nodes
  PROVE  /\ \A i : i \in Succeeded(n)' <=> i \in Succeeded(n)
         /\ \A i \in Succeeded(n) : runs'[n][i] = runs[n][i]
         /\ Len(runs'[current.node]) \notin Succeeded(current.node)'
<1>1. /\ runs' \in [Nodes -> Seq(Run)]
      /\ \A m \in Nodes \ {current.node} : runs'[m] = runs[m]
      /\ Len(runs'[current.node]) = Len(runs[current.node]) + 1
      /\ \A i \in 1 .. Len(runs[current.node]) :
           runs'[current.node][i] = runs[current.node][i]
      /\ runs'[current.node][Len(runs[current.node]) + 1].status = status
  <2>1. status \in {"success", "error", "waiting"} /\ {} \in SUBSET Nat
    OBVIOUS
  <2>2. /\ runs' \in [Nodes' -> Seq(Run')]
        /\ \A m \in Nodes \ {current.node} : runs'[m] = runs[m]
        /\ Len(runs'[current.node]) = Len(runs[current.node]) + 1
        /\ \A i \in 1 .. Len(runs[current.node]) :
             runs'[current.node][i] = runs[current.node][i]
        /\ runs'[current.node][Len(runs[current.node]) + 1] =
             [got |-> current.got, outs |-> {}, status |-> status]
    BY <2>1, RecordOK
  <2> QED
    BY <2>2, SameFlow
<1>2. current.node \in Nodes /\ runs \in [Nodes -> Seq(Run)]
  BY DEF RestOK, Entry
<1>3. /\ Len(runs[current.node]) \in Nat
      /\ DOMAIN runs[current.node] = 1 .. Len(runs[current.node])
      /\ DOMAIN runs'[current.node] = 1 .. Len(runs[current.node]) + 1
  BY <1>1, <1>2
<1>4. Len(runs'[current.node]) \notin Succeeded(current.node)'
  <2>1. runs'[current'.node][Len(runs'[current.node])].status # "success"
    BY <1>1
  <2> QED
    BY <2>1 DEF Succeeded
<1>5. CASE n = current.node
  <2> DEFINE s == runs[current.node]  t == runs'[current.node]  m == Len(s) + 1
  <2>1. /\ DOMAIN s = 1 .. Len(s) /\ DOMAIN t = 1 .. m /\ m = Len(s) + 1
        /\ Len(s) \in Nat /\ t[m].status # "success"
        /\ \A i \in 1 .. Len(s) : t[i] = s[i]
    BY <1>1, <1>3
  <2>2. /\ Succeeded(n) = {i \in DOMAIN s : s[i].status = "success"}
        /\ Succeeded(n)' = {i \in DOMAIN t : t[i].status = "success"}
    BY <1>5 DEF Succeeded
  <2> HIDE DEF s, t, m
  <2>3. /\ \A i : i \in Succeeded(n)' <=> i \in Succeeded(n)
        /\ \A i \in Succeeded(n) : t[i] = s[i]
    BY <2>1, <2>2
  <2> QED
    BY <1>4, <1>5, <2>3 DEF s, t
<1>6. CASE n # current.node
  BY <1>1, <1>4, <1>6 DEF Succeeded
<1> QED
  BY <1>5, <1>6

\* What waits stays where it is, and nothing else comes there.
LEMMA WaitSame ==
  ASSUME waiting' = waiting, NEW d, NEW a, NEW j, WaitOnly(d, a, j)
  PROVE  /\ WaitOnly(d, a, j)'
         /\ a # "waiting" => \A b, k : WaitOnly(d, b, k)'
  BY DEF WaitOnly

\* The runs that succeeded stay, and no other does.
LEMMA RunSame ==
  ASSUME NEW d, \A i : i \in Succeeded(d.edge.to)' =>
                  /\ i \in Succeeded(d.edge.to)
                  /\ runs'[d.edge.to][i] = runs[d.edge.to][i],
         NEW a, NEW j, RunOnly(d, a, j)
  PROVE  /\ RunOnly(d, a, j)'
         /\ a # "run" => \A b, k : RunOnly(d, b, k)'
  BY DEF RunOnly

\* The data of the entry on top goes to the node.
LEMMA RunNodeMoves ==
  ASSUME RestOK, RunNode, NEW d \in Delivery, NEW a, NEW j, Only(d, a, j)
  PROVE  \E b, k : Only(d, b, k)' /\ (a = "none" => b = "none")
<1>1. /\ flow' = flow /\ Shift /\ waiting' = waiting /\ runs' = runs
      /\ pending' = pending /\ dropped' = dropped
  BY DEF RunNode
<1>2. WaitOnly(d, a, j)' /\ (a # "waiting" => \A b, k : WaitOnly(d, b, k)')
  BY <1>1, WaitSame DEF Only
<1>3. RunOnly(d, a, j)' /\ (a # "run" => \A b, k : RunOnly(d, b, k)')
  BY <1>1, RunSame DEF Only, Succeeded
<1>4. CASE d \in current'.got
  <2>1. a = "stack" /\ \A b, k : StackOnly(d, b, k)'
    BY <1>1, <1>4, ShiftMoves DEF Only
  <2>2. RestOnly(d, "node")'
    BY <2>1, <1>1 DEF Only, RestOnly
  <2>3. Only(d, "node", 0)'
    BY <1>2, <1>3, <2>1, <2>2 DEF Only
  <2> QED
    BY <2>1, <2>3
<1>5. CASE d \notin current'.got
  <2>1. StackOnly(d, a, Lower(a, j))'
    BY <1>1, <1>5, ShiftMoves DEF Only
  <2>2. RestOnly(d, a)'
    BY <1>1, <1>5 DEF Only, RestOnly
  <2>3. WaitOnly(d, a, Lower(a, j))' /\ RunOnly(d, a, Lower(a, j))'
    BY <1>2, <1>3 DEF Lower
  <2>4. Only(d, a, Lower(a, j))'
    BY <2>1, <2>2, <2>3 DEF Only
  <2> QED
    BY <2>4
<1> QED
  BY <1>4, <1>5

\* The data of an entry that is passed over is dropped.
LEMMA SkipNodeMoves ==
  ASSUME RestOK, SkipNode, NEW d \in Delivery, NEW a, NEW j, Only(d, a, j)
  PROVE  \E b, k : Only(d, b, k)' /\ (a = "none" => b = "none")
<1>1. /\ flow' = flow /\ Shift /\ waiting' = waiting /\ runs' = runs
      /\ phase' = "loop" /\ pending' = pending /\ dropped' = dropped \cup current'.got
  BY DEF SkipNode, Shift
<1>2. WaitOnly(d, a, j)' /\ (a # "waiting" => \A b, k : WaitOnly(d, b, k)')
  BY <1>1, WaitSame DEF Only
<1>3. RunOnly(d, a, j)' /\ (a # "run" => \A b, k : RunOnly(d, b, k)')
  BY <1>1, RunSame DEF Only, Succeeded
<1>4. CASE d \in current'.got
  <2>1. a = "stack" /\ \A b, k : StackOnly(d, b, k)'
    BY <1>1, <1>4, ShiftMoves DEF Only
  <2>2. RestOnly(d, "dropped")'
    BY <2>1, <1>1 DEF Only, RestOnly
  <2>3. Only(d, "dropped", 0)'
    BY <1>2, <1>3, <2>1, <2>2 DEF Only
  <2> QED
    BY <2>1, <2>3
<1>5. CASE d \notin current'.got
  <2>1. StackOnly(d, a, Lower(a, j))'
    BY <1>1, <1>5, ShiftMoves DEF Only
  <2>2. RestOnly(d, a)'
    BY <1>1, <1>5 DEF Only, RestOnly
  <2>3. WaitOnly(d, a, Lower(a, j))' /\ RunOnly(d, a, Lower(a, j))'
    BY <1>2, <1>3 DEF Lower
  <2>4. Only(d, a, Lower(a, j))'
    BY <2>1, <2>2, <2>3 DEF Only
  <2> QED
    BY <2>4
<1> QED
  BY <1>4, <1>5

\* Fail and Wait put the entry back: its data moves to the top of the stack.
LEMMA PutBackMoves ==
  ASSUME RestOK, phase = "node", phase' = "over", PutBack,
         NEW status \in {"error", "waiting"}, Record(status, {}),
         NEW d \in Delivery, NEW a, NEW j, Only(d, a, j)
  PROVE  \E b, k : Only(d, b, k)' /\ (a = "none" => b = "none")
<1>1. /\ flow' = flow /\ stack' = <<current>> \o stack /\ waiting' = waiting
      /\ pending' = pending /\ dropped' = dropped /\ current \in Entry
      /\ d.edge.to \in Nodes /\ current' = current
  BY FlowFacts DEF PutBack, RestOK
<1>2. WaitOnly(d, a, j)' /\ (a # "waiting" => \A b, k : WaitOnly(d, b, k)')
  BY <1>1, WaitSame DEF Only
<1>3. /\ stack \in Seq(Entry) /\ stack' \in Seq(Entry') /\ stack'[1] = current
      /\ Len(stack') = Len(stack) + 1
      /\ \A k \in 2 .. Len(stack) + 1 : stack'[k] = stack[k - 1]
  BY <1>1, PushOK DEF RestOK
<1>4. RunOnly(d, a, j)' /\ (a # "run" => \A b, k : RunOnly(d, b, k)')
  <2>1. \A i : i \in Succeeded(d.edge.to)' =>
                 /\ i \in Succeeded(d.edge.to)
                 /\ runs'[d.edge.to][i] = runs[d.edge.to][i]
    BY <1>1, RecordUnsuccessful
  <2> QED
    BY <2>1, RunSame DEF Only
<1>5. CASE d \in current.got
  <2>1. a = "node"
    BY <1>5 DEF Only, RestOnly
  <2>2. StackOnly(d, "stack", 1)'
    BY <1>3, <2>1, PushMoves DEF Only
  <2>3. RestOnly(d, "stack")'
    BY <2>1, <1>1 DEF Only, RestOnly
  <2>4. Only(d, "stack", 1)'
    BY <1>2, <1>4, <2>1, <2>2, <2>3 DEF Only
  <2> QED
    BY <2>1, <2>4
<1>6. CASE d \notin current.got
  <2>1. StackOnly(d, a, Raise(a, j))'
    BY <1>3, <1>6, PushMoves DEF Only
  <2>2. RestOnly(d, a)'
    BY <1>1 DEF Only, RestOnly
  <2>3. WaitOnly(d, a, Raise(a, j))' /\ RunOnly(d, a, Raise(a, j))'
    BY <1>2, <1>4 DEF Raise
  <2>4. Only(d, a, Raise(a, j))'
    BY <2>1, <2>2, <2>3 DEF Only
  <2> QED
    BY <2>4
<1> QED
  BY <1>5, <1>6

\* The data of a node that returns null is dropped.
LEMMA ReturnNullMoves ==
  ASSUME RestOK, ReturnNull, NEW d \in Delivery, NEW a, NEW j, Only(d, a, j)
  PROVE  \E b, k : Only(d, b, k)' /\ (a = "none" => b = "none")
<1>1. /\ phase = "node" /\ phase' = "loop" /\ stack' = stack /\ waiting' = waiting
      /\ runs' = runs /\ pending' = pending /\ dropped' = dropped \cup current.got
  BY DEF ReturnNull
<1>2. WaitOnly(d, a, j)' /\ (a # "waiting" => \A b, k : WaitOnly(d, b, k)')
  BY <1>1, WaitSame DEF Only
<1>3. RunOnly(d, a, j)' /\ (a # "run" => \A b, k : RunOnly(d, b, k)')
  BY <1>1, RunSame DEF Only, Succeeded
<1>4. StackOnly(d, a, j)' /\ (a # "stack" => \A b, k : StackOnly(d, b, k)')
  BY <1>1 DEF Only, StackOnly
<1>5. CASE d \in current.got
  <2>1. a = "node"
    BY <1>1, <1>5 DEF Only, RestOnly
  <2>2. RestOnly(d, "dropped")'
    BY <2>1, <1>1 DEF Only, RestOnly
  <2>3. Only(d, "dropped", 0)'
    BY <1>2, <1>3, <1>4, <2>1, <2>2 DEF Only
  <2> QED
    BY <2>1, <2>3
<1>6. CASE d \notin current.got
  <2>1. RestOnly(d, a)'
    BY <1>1, <1>6 DEF Only, RestOnly
  <2>2. Only(d, a, j)'
    BY <1>2, <1>3, <1>4, <2>1 DEF Only
  <2> QED
    BY <2>2
<1> QED
  BY <1>5, <1>6

\* A step that moves no data.
LEMMA NothingMoves ==
  ASSUME stack' = stack, waiting' = waiting, runs' = runs, pending' = pending,
         dropped' = dropped, current' = current, phase' = "node" => phase = "node",
         NEW d \in Delivery, NEW a, NEW j, Only(d, a, j)
  PROVE  \E b, k : Only(d, b, k)' /\ (a = "none" => b = "none")
<1>1. WaitOnly(d, a, j)'
  BY WaitSame DEF Only
<1>2. RunOnly(d, a, j)'
  BY RunSame DEF Only, Succeeded
<1>3. StackOnly(d, a, j)' /\ RestOnly(d, a)'
  BY DEF Only, StackOnly, RestOnly
<1> QED
  BY <1>1, <1>2, <1>3 DEF Only

\* A delivery to a node with one input goes on the stack.
LEMMA AddToStackMoves ==
  ASSUME RestOK, NEW e \in pending, AddToStack(e),
         NEW d \in Delivery, NEW a, NEW j, Only(d, a, j)
  PROVE  \E b, k : Only(d, b, k)' /\ (a = "none" => b = "none")
<1>1. /\ flow' = flow /\ phase = "adding" /\ phase' = "adding" /\ waiting' = waiting
      /\ runs' = runs /\ pending' = pending \ {e} /\ dropped' = dropped
      /\ e \in Delivery /\ e.edge.to \in Nodes /\ Unshift(e.edge.to, {e})
  BY FlowFacts DEF AddToStack, NextDelivery, RestOK
<1>2. WaitOnly(d, a, j)' /\ (a # "waiting" => \A b, k : WaitOnly(d, b, k)')
  BY <1>1, WaitSame DEF Only
<1>3. RunOnly(d, a, j)' /\ (a # "run" => \A b, k : RunOnly(d, b, k)')
  BY <1>1, RunSame DEF Only, Succeeded
<1>4. /\ stack \in Seq(Entry) /\ stack' \in Seq(Entry') /\ stack'[1].got = {e}
      /\ Len(stack') = Len(stack) + 1
      /\ \A k \in 2 .. Len(stack) + 1 : stack'[k] = stack[k - 1]
  BY <1>1, UnshiftOK DEF RestOK
<1>5. CASE d = e
  <2>1. a = "pending"
    BY <1>5 DEF Only, RestOnly
  <2>2. StackOnly(d, "stack", 1)'
    BY <1>4, <2>1, PushMoves DEF Only
  <2>3. RestOnly(d, "stack")'
    BY <2>1, <1>1, <1>5 DEF Only, RestOnly
  <2>4. Only(d, "stack", 1)'
    BY <1>2, <1>3, <2>1, <2>2, <2>3 DEF Only
  <2> QED
    BY <2>1, <2>4
<1>6. CASE d # e
  <2>1. StackOnly(d, a, Raise(a, j))'
    BY <1>4, <1>6, PushMoves DEF Only
  <2>2. RestOnly(d, a)'
    BY <1>1 DEF Only, RestOnly
  <2>3. WaitOnly(d, a, Raise(a, j))' /\ RunOnly(d, a, Raise(a, j))'
    BY <1>2, <1>3 DEF Raise
  <2>4. Only(d, a, Raise(a, j))'
    BY <2>1, <2>2, <2>3 DEF Only
  <2> QED
    BY <2>4
<1> QED
  BY <1>5, <1>6

\* What an entry of waitingExecution held is not waiting after it left.
LEMMA TakeOutMoves ==
  ASSUME WaitingOK, RestOK, Addressed, flow' = flow, NEW n \in Nodes,
         NEW i \in DOMAIN waiting[n], TakeOut(n, i),
         NEW d \in Delivery, NEW a, NEW j, WaitOnly(d, a, j)
  PROVE  /\ d \in waiting[n][i] => a = "waiting" /\ \A b, k : WaitOnly(d, b, k)'
         /\ WaitOnly(d, a, j)'
         /\ a # "waiting" => \A b, k : WaitOnly(d, b, k)'
<1>1. /\ \A m \in Nodes \ {n} : waiting'[m] = waiting[m]
      /\ DOMAIN waiting'[n] = DOMAIN waiting[n] \ {i}
      /\ \A k \in DOMAIN waiting[n] \ {i} : waiting'[n][k] = waiting[n][k]
  BY TakeOutOK
<1>2. d.edge.to \in Nodes /\ (d \in waiting[n][i] => d.edge.to = n)
  BY FlowFacts DEF RestOK, Addressed
<1>3. CASE d.edge.to = n
  BY <1>1, <1>3 DEF WaitOnly
<1>4. CASE d.edge.to # n
  BY <1>1, <1>2, <1>4 DEF WaitOnly
<1> QED
  BY <1>3, <1>4

\* An entry that waited goes on the stack, alone or with the delivery that
\* completes it.
LEMMA LeaveWaitingMoves ==
  ASSUME WaitingOK, RestOK, Addressed, flow' = flow, runs' = runs,
         dropped' = dropped, phase = "adding", phase' # "node",
         NEW n \in Nodes, NEW i \in DOMAIN waiting[n], TakeOut(n, i),
         NEW more \in SUBSET pending, pending' = pending \ more,
         Unshift(n, more \cup waiting[n][i]), 
         NEW d \in Delivery, NEW a, NEW j, Only(d, a, j)
  PROVE  \E b, k : Only(d, b, k)' /\ (a = "none" => b = "none")
<1>1. /\ d \in waiting[n][i] => a = "waiting" /\ \A b, k : WaitOnly(d, b, k)'
      /\ WaitOnly(d, a, j)'
      /\ a # "waiting" => \A b, k : WaitOnly(d, b, k)'
  BY TakeOutMoves DEF Only
<1>2. RunOnly(d, a, j)' /\ (a # "run" => \A b, k : RunOnly(d, b, k)')
  BY RunSame DEF Only, Succeeded
<1>3. more \cup waiting[n][i] \in SUBSET Delivery
  BY DEF RestOK, WaitingOK
<1>4. /\ stack \in Seq(Entry) /\ stack' \in Seq(Entry')
      /\ stack'[1].got = more \cup waiting[n][i]
      /\ Len(stack') = Len(stack) + 1
      /\ \A k \in 2 .. Len(stack) + 1 : stack'[k] = stack[k - 1]
  BY <1>3, UnshiftOK DEF RestOK
<1>5. CASE d \in more \cup waiting[n][i]
  <2>1. a \in {"pending", "waiting"} /\ \A b, k : WaitOnly(d, b, k)'
    BY <1>1, <1>5 DEF Only, RestOnly
  <2>2. StackOnly(d, "stack", 1)'
    BY <1>4, <2>1, PushMoves DEF Only
  <2>3. RestOnly(d, "stack")'
    BY <2>1, <1>1, <1>5 DEF Only, RestOnly
  <2>4. Only(d, "stack", 1)'
    BY <1>2, <2>1, <2>2, <2>3 DEF Only
  <2> QED
    BY <2>1, <2>4
<1>6. CASE d \notin more \cup waiting[n][i]
  <2>1. StackOnly(d, a, Raise(a, j))'
    BY <1>4, <1>6, PushMoves DEF Only
  <2>2. RestOnly(d, a)'
    BY DEF Only, RestOnly
  <2>3. WaitOnly(d, a, Raise(a, j))' /\ RunOnly(d, a, Raise(a, j))'
    BY <1>1, <1>2 DEF Raise
  <2>4. Only(d, a, Raise(a, j))'
    BY <2>1, <2>2, <2>3 DEF Only
  <2> QED
    BY <2>4
<1> QED
  BY <1>5, <1>6

\* A delivery joins an entry that lacks its input, or makes a new one.
LEMMA AddToWaitingMoves ==
  ASSUME WaitingOK, RestOK, NEW e \in pending, AddToWaiting(e),
         NEW d \in Delivery, NEW a, NEW j, Only(d, a, j)
  PROVE  \E b, k : Only(d, b, k)' /\ (a = "none" => b = "none")
<1> DEFINE n == e.edge.to
<1>0. PICK x : x = WaitingIndex(e)
  OBVIOUS
<1>1. /\ flow' = flow /\ phase = "adding" /\ phase' = "adding" /\ stack' = stack
      /\ runs' = runs /\ pending' = pending \ {e} /\ dropped' = dropped
      /\ e \in Delivery /\ n \in Nodes /\ d.edge.to \in Nodes
  BY FlowFacts DEF AddToWaiting, NextDelivery, RestOK
<1>2. StackOnly(d, a, j)' /\ (a # "stack" => \A b, k : StackOnly(d, b, k)')
  BY <1>1 DEF Only, StackOnly
<1>3. RunOnly(d, a, j)' /\ (a # "run" => \A b, k : RunOnly(d, b, k)')
  BY <1>1, RunSame DEF Only, Succeeded
<1>4. /\ \A m \in Nodes \ {n} : waiting'[m] = waiting[m]
      /\ DOMAIN waiting'[n] = DOMAIN waiting[n] \cup {x}
      /\ waiting'[n][x] = Gathered(e)
      /\ \A k \in DOMAIN waiting[n] \ {x} : waiting'[n][k] = waiting[n][k]
  BY <1>0, AddToWaitingOK
<1>5. \/ x \in DOMAIN waiting[n] /\ Gathered(e) = {e} \cup waiting[n][x]
      \/ Gathered(e) = {e}
  BY <1>0, <1>1, GatheredOK
<1> HIDE DEF n
<1>6. CASE d = e
  <2>1. a = "pending" /\ d.edge.to = n
    BY <1>6 DEF Only, RestOnly, n
  <2>2. \A k \in DOMAIN waiting[n] : d \notin waiting[n][k]
    BY <2>1 DEF Only, WaitOnly
  <2>3. WaitOnly(d, "waiting", x)'
    <3>1. \A k \in DOMAIN waiting'[n] : d \in waiting'[n][k] => k = x
      BY <1>4, <2>2
    <3> QED
      BY <2>1, <3>1 DEF WaitOnly
  <2>4. RestOnly(d, "waiting")'
    BY <2>1, <1>1, <1>6 DEF Only, RestOnly
  <2>5. Only(d, "waiting", x)'
    BY <1>2, <1>3, <2>1, <2>3, <2>4 DEF Only
  <2> QED
    BY <2>1, <2>5
<1>7. CASE d # e
  <2>1. WaitOnly(d, a, j)'
    <3>1. CASE d.edge.to = n
      BY <1>4, <1>5, <1>7, <3>1 DEF Only, WaitOnly
    <3>2. CASE d.edge.to # n
      BY <1>1, <1>4, <3>2 DEF Only, WaitOnly
    <3> QED
      BY <3>1, <3>2
  <2>2. RestOnly(d, a)'
    BY <1>1 DEF Only, RestOnly
  <2>3. Only(d, a, j)'
    BY <1>2, <1>3, <2>1, <2>2 DEF Only
  <2> QED
    BY <2>3
<1> QED
  BY <1>6, <1>7

\* A node succeeded: its data is used, and what it sends was nowhere.
LEMMA SucceedMoves ==
  ASSUME RestOK, NEW outs \in SUBSET Outputs(current.node), Succeed(outs),
         NEW d \in Delivery, NEW a, NEW j, Only(d, a, j)
  PROVE  /\ d \notin pending' => \E b, k : Only(d, b, k)' /\ (a = "none" => b = "none")
         /\ a = "none" => Only(d, "pending", 0)'
<1>0. PICK n, x : n = current.node /\ x = Len(runs[current.node]) + 1
  OBVIOUS
<1>1. /\ flow' = flow /\ phase = "node" /\ phase' # "node" /\ stack' = stack
      /\ current' = current /\ waiting' = waiting /\ dropped' = dropped
      /\ n \in Nodes /\ d.edge.to \in Nodes /\ runs \in [Nodes -> Seq(Run)]
  BY <1>0, FlowFacts DEF Succeed, RestOK, Entry
<1>2. WaitOnly(d, a, j)' /\ (a # "waiting" => \A b, k : WaitOnly(d, b, k)')
  BY <1>1, WaitSame DEF Only
<1>3. StackOnly(d, a, j)' /\ (a # "stack" => \A b, k : StackOnly(d, b, k)')
  BY <1>1 DEF Only, StackOnly
<1>4. /\ \A m \in Nodes \ {n} : runs'[m] = runs[m]
      /\ Len(runs'[n]) = x
      /\ \A i \in 1 .. x - 1 : runs'[n][i] = runs[n][i]
      /\ runs'[n][x].got = current.got
      /\ DOMAIN runs'[n] = 1 .. x /\ DOMAIN runs[n] = 1 .. x - 1 /\ x \in Nat \ {0}
  <2>1. outs \in SUBSET Nat
    BY SentOK DEF Succeed
  <2>2. /\ runs' \in [Nodes' -> Seq(Run')]
        /\ \A m \in Nodes \ {current.node} : runs'[m] = runs[m]
        /\ Len(runs'[current.node]) = Len(runs[current.node]) + 1
        /\ \A i \in 1 .. Len(runs[current.node]) :
             runs'[current.node][i] = runs[current.node][i]
        /\ runs'[current.node][Len(runs[current.node]) + 1] =
             [got |-> current.got, outs |-> outs, status |-> "success"]
    BY <1>1, <2>1, RecordOK DEF Succeed
  <2>3. runs'[n] \in Seq(Run) /\ runs[n] \in Seq(Run)
    BY <1>0, <1>1, <2>2, SameFlow
  <2> QED
    BY <1>0, <2>2, <2>3
<1>5. \A i \in Succeeded(d.edge.to)' :
        \/ i \in Succeeded(d.edge.to) /\ runs'[d.edge.to][i] = runs[d.edge.to][i]
        \/ d.edge.to = n /\ i = x
  <2>1. CASE d.edge.to = n
    BY <1>4, <2>1 DEF Succeeded
  <2>2. CASE d.edge.to # n
    BY <1>1, <1>4, <2>2 DEF Succeeded
  <2> QED
    BY <2>1, <2>2
<1>6. CASE d \in current.got
  <2>1. a = "node"
    BY <1>1, <1>6 DEF Only, RestOnly
  <2>2. RunOnly(d, "run", x)'
    BY <1>5, <2>1 DEF Only, RunOnly
  <2>3. d \notin pending' => RestOnly(d, "run")'
    BY <1>1, <2>1 DEF Only, RestOnly
  <2>4. d \notin pending' => Only(d, "run", x)'
    BY <1>2, <1>3, <2>1, <2>2, <2>3 DEF Only
  <2> QED
    BY <2>1, <2>4
<1>7. CASE d \notin current.got
  <2>1. RunOnly(d, a, j)' /\ (a # "run" => \A b, k : RunOnly(d, b, k)')
    BY <1>4, <1>5, <1>7 DEF Only, RunOnly
  <2>2. d \notin pending' => RestOnly(d, a)'
    BY <1>1 DEF Only, RestOnly
  <2>3. d \notin pending' => Only(d, a, j)'
    BY <1>2, <1>3, <2>1, <2>2 DEF Only
  <2>4. ASSUME a = "none" PROVE Only(d, "pending", 0)'
    <3>1. RestOnly(d, "pending")'
      BY <1>1, <2>4 DEF Only, RestOnly
    <3> QED
      BY <1>2, <1>3, <2>1, <2>4, <3>1 DEF Only
  <2> QED
    BY <2>3, <2>4
<1> QED
  BY <1>6, <1>7

\* The run of an execution that is run again is forgotten; it did not succeed.
LEMMA ForgetRunSucceeded ==
  ASSUME RestOK, LastRun, fate \in {"error", "waiting"}, ForgetRun, NEW n \in Nodes
  PROVE  /\ \A i : i \in Succeeded(n)' <=> i \in Succeeded(n)
         /\ \A i \in Succeeded(n) : runs'[n][i] = runs[n][i]
<1> DEFINE s == runs[current.node]  t == runs'[current.node]
<1>1. /\ \A m \in Nodes \ {current.node} : runs'[m] = runs[m]
      /\ DOMAIN t = 1 .. Len(s) - 1
      /\ \A i \in 1 .. Len(s) - 1 : t[i] = s[i]
  BY ForgetOK DEF ForgetRun
<1>2. s \in Seq(Run) /\ Len(s) \notin Succeeded(current.node)
  BY DEF RestOK, Entry, LastRun
<1>3. DOMAIN s = 1 .. Len(s) /\ Len(s) \in Nat
  BY <1>2
<1>4. CASE n = current.node
  <2>1. /\ Succeeded(n) = {i \in DOMAIN s : s[i].status = "success"}
        /\ Succeeded(n)' = {i \in DOMAIN t : t[i].status = "success"}
    BY <1>4 DEF Succeeded
  <2> HIDE DEF s, t
  <2>2. /\ \A i : i \in Succeeded(n)' <=> i \in Succeeded(n)
        /\ \A i \in Succeeded(n) : t[i] = s[i]
    BY <1>1, <1>2, <1>3, <1>4, <2>1
  <2> QED
    BY <1>4, <2>2 DEF s, t
<1>5. CASE n # current.node
  BY <1>1, <1>5 DEF Succeeded
<1> QED
  BY <1>4, <1>5

\* What is on the stack is the same, disabled or not.
LEMMA ForgetRunMoves ==
  ASSUME RestOK, LastRun, fate \in {"error", "waiting"}, ForgetRun,
         DOMAIN stack' = DOMAIN stack,
         \A k \in DOMAIN stack : stack'[k].got = stack[k].got,
         NEW d \in Delivery, NEW a, NEW j, Only(d, a, j)
  PROVE  \E b, k : Only(d, b, k)' /\ (a = "none" => b = "none")
<1>1. /\ waiting' = waiting /\ pending' = pending /\ dropped' = dropped
      /\ phase' = "loop" /\ d.edge.to \in Nodes
  BY FlowFacts DEF ForgetRun, RestOK
<1>2. WaitOnly(d, a, j)'
  BY <1>1, WaitSame DEF Only
<1>3. RunOnly(d, a, j)'
  <2>1. \A i : i \in Succeeded(d.edge.to)' =>
                 /\ i \in Succeeded(d.edge.to)
                 /\ runs'[d.edge.to][i] = runs[d.edge.to][i]
    BY <1>1, ForgetRunSucceeded
  <2> QED
    BY <2>1, RunSame DEF Only
<1>4. StackOnly(d, a, j)' /\ RestOnly(d, a)'
  BY <1>1 DEF Only, StackOnly, RestOnly
<1> QED
  BY <1>2, <1>3, <1>4 DEF Only

\* A delivery that moves as the lemmas above say is in one place afterwards.
LEMMA MoveKeeps ==
  ASSUME NEW d \in Delivery, OnePlace(d),
         \A i \in Succeeded(d.edge.from) : i \in Succeeded(d.edge.from)',
         \A a, j : Only(d, a, j) =>
                     \E b, k : Only(d, b, k)' /\ (a = "none" => b = "none")
  PROVE  OnePlace(d)'
<1>1. \E b, k : Only(d, b, k)'
  BY DEF OnePlace
<1>2. ASSUME d.run \notin Succeeded(d.edge.from)' PROVE Only(d, "none", 0)'
  <2>1. Only(d, "none", 0)
    BY <1>2 DEF OnePlace
  <2>2. PICK k : Only(d, "none", k)'
    BY <2>1
  <2> QED
    BY <2>2 DEF Only, StackOnly, WaitOnly, RunOnly, RestOnly
<1> QED
  BY <1>1, <1>2 DEF OnePlace

\* What a node that succeeds sends was sent by no run before.
LEMMA SucceedKeeps ==
  ASSUME RestOK, NEW outs \in SUBSET Outputs(current.node), Succeed(outs),
         NEW d \in Delivery, OnePlace(d)
  PROVE  OnePlace(d)'
<1>0. PICK n, x : n = current.node /\ x = Len(runs[current.node]) + 1
  OBVIOUS
<1>1. /\ flow' = flow /\ current' = current
      /\ n \in Nodes /\ runs \in [Nodes -> Seq(Run)] /\ d.edge.from \in Nodes
  BY <1>0, FlowFacts DEF Succeed, RestOK, Entry
<1>2. /\ \A m \in Nodes \ {n} : runs'[m] = runs[m]
      /\ \A i \in 1 .. x - 1 : runs'[n][i] = runs[n][i]
      /\ runs'[n][x].status = "success"
      /\ DOMAIN runs'[n] = 1 .. x /\ DOMAIN runs[n] = 1 .. x - 1 /\ x \in Nat \ {0}
  <2>1. outs \in SUBSET Nat
    BY SentOK DEF Succeed
  <2>2. /\ runs' \in [Nodes' -> Seq(Run')]
        /\ \A m \in Nodes \ {current.node} : runs'[m] = runs[m]
        /\ Len(runs'[current.node]) = Len(runs[current.node]) + 1
        /\ \A i \in 1 .. Len(runs[current.node]) :
             runs'[current.node][i] = runs[current.node][i]
        /\ runs'[current.node][Len(runs[current.node]) + 1] =
             [got |-> current.got, outs |-> outs, status |-> "success"]
    BY <1>1, <2>1, RecordOK DEF Succeed
  <2>3. runs'[n] \in Seq(Run) /\ runs[n] \in Seq(Run)
    BY <1>0, <1>1, <2>2, SameFlow
  <2> QED
    BY <1>0, <2>2, <2>3
<1>3. \A i \in Succeeded(d.edge.from) : i \in Succeeded(d.edge.from)'
  <2>1. CASE d.edge.from = n
    BY <1>2, <2>1 DEF Succeeded
  <2>2. CASE d.edge.from # n
    BY <1>1, <1>2, <2>2 DEF Succeeded
  <2> QED
    BY <2>1, <2>2
<1>4. CASE d \in pending'
  <2>1. d.edge.from = n /\ d.run = x
    BY <1>0, <1>4 DEF Succeed, Sent
  <2>2. d.run \notin Succeeded(d.edge.from)
    BY <1>2, <2>1 DEF Succeeded
  <2>3. d.run \in Succeeded(d.edge.from)'
    BY <1>2, <2>1 DEF Succeeded
  <2>4. Only(d, "none", 0)
    BY <2>2 DEF OnePlace
  <2>5. Only(d, "pending", 0)'
    BY <2>4, SucceedMoves
  <2> QED
    BY <2>3, <2>5 DEF OnePlace
<1>5. CASE d \notin pending'
  <2>1. \A a, j : Only(d, a, j) =>
                    \E b, k : Only(d, b, k)' /\ (a = "none" => b = "none")
    BY <1>5, SucceedMoves
  <2> QED
    BY <1>3, <2>1, MoveKeeps
<1> QED
  BY <1>4, <1>5

\* Entries that wait only ever get what was sent to their node.
LEMMA AddressedKept ==
  ASSUME WaitingOK, RestOK, Addressed, [EngineNext]_engineVars
  PROVE  Addressed'
<1>1. ASSUME flow' = flow, waiting' = waiting PROVE Addressed'
  BY <1>1 DEF Addressed, Nodes
<1>2. ASSUME NEW n \in Nodes, NEW i \in DOMAIN waiting[n], TakeOut(n, i), flow' = flow
      PROVE  Addressed'
  BY <1>2, TakeOutOK, SameFlow DEF Addressed
<1>3. ASSUME NEW d \in pending, AddToWaiting(d) PROVE Addressed'
  <2>0. PICK x : x = WaitingIndex(d)
    OBVIOUS
  <2> DEFINE n == d.edge.to
  <2>1. d \in Delivery /\ flow' = flow
    BY <1>3 DEF RestOK, AddToWaiting, NextDelivery
  <2>2. /\ \A m \in Nodes \ {n} : waiting'[m] = waiting[m]
        /\ DOMAIN waiting'[n] = DOMAIN waiting[n] \cup {x}
        /\ waiting'[n][x] = Gathered(d)
        /\ \A k \in DOMAIN waiting[n] \ {x} : waiting'[n][k] = waiting[n][k]
    BY <1>3, <2>0, AddToWaitingOK
  <2>3. \/ x \in DOMAIN waiting[n] /\ Gathered(d) = {d} \cup waiting[n][x]
        \/ Gathered(d) = {d}
    BY <2>0, <2>1, GatheredOK
  <2>4. n \in Nodes => \A k \in DOMAIN waiting[n] : \A c \in waiting[n][k] : c.edge.to = n
    BY DEF Addressed
  <2>5. n \in Nodes => \A k \in DOMAIN waiting'[n] : \A c \in waiting'[n][k] : c.edge.to = n
    BY <2>2, <2>3, <2>4
  <2> HIDE DEF n
  <2> QED
    BY <2>1, <2>2, <2>5, SameFlow DEF Addressed
<1>4. CASE \E outs \in SUBSET Outputs(current.node) : Succeed(outs)
  BY <1>1, <1>4 DEF Succeed
<1>5. ASSUME NEW d \in pending, AddLast(d) PROVE Addressed'
  BY <1>2, <1>5, LastIsOld DEF AddLast, NextDelivery
<1>6. ASSUME NEW k \in DOMAIN keyed, TakeWaiting(k) PROVE Addressed'
  BY <1>2, <1>6, TurnOK DEF TakeWaiting, AfterNode
<1>7. CASE \/ RunNode \/ SkipNode \/ EndLoop \/ Cancel \/ Fail \/ Wait \/ ReturnNull
           \/ GoOn \/ Resume \/ Retry \/ UNCHANGED engineVars
  BY <1>1, <1>7 DEF RunNode, SkipNode, EndLoop, Cancel, Fail, Wait, PutBack, ReturnNull,
                    GoOn, AfterNode, Resume, Retry, ForgetRun, engineVars
<1>8. ASSUME NEW d \in pending, AddToStack(d) PROVE Addressed'
  BY <1>1, <1>8 DEF AddToStack, NextDelivery
<1> QED
  BY <1>3, <1>4, <1>5, <1>6, <1>7, <1>8 DEF EngineNext

\* Only an execution that failed or waits can be run again.
LEMMA LastRunKept ==
  ASSUME RestOK, LastRun, [EngineNext]_engineVars
  PROVE  LastRun'
<1>1. ASSUME phase # "over", fate' \in {fate, "running", "success", "canceled"}
      PROVE  LastRun'
  BY <1>1 DEF LastRun
<1>2. ASSUME NEW status \in {"error", "waiting"}, Record(status, {}), PutBack,
             EndWith(status)
      PROVE  LastRun'
  <2>1. flow' = flow /\ current' = current /\ current.node \in Nodes
    BY <1>2 DEF PutBack, RestOK, Entry
  <2>2. Len(runs'[current.node]) \notin Succeeded(current.node)'
    BY <1>2, <2>1, RecordUnsuccessful
  <2> QED
    BY <1>2, <2>1, <2>2 DEF LastRun, EndWith
<1>3. CASE Fail
  BY <1>2, <1>3 DEF Fail
<1>4. CASE Wait
  BY <1>2, <1>4 DEF Wait
<1>5. CASE RunNode \/ SkipNode \/ EndLoop \/ Cancel \/ ReturnNull \/ GoOn
  BY <1>1, <1>5 DEF RunNode, SkipNode, Shift, EndLoop, EndWith, Cancel, ReturnNull,
                    GoOn, AfterNode
<1>6. CASE \E outs \in SUBSET Outputs(current.node) : Succeed(outs)
  BY <1>1, <1>6 DEF Succeed
<1>7. CASE \/ \E d \in pending : AddToStack(d) \/ AddLast(d) \/ AddToWaiting(d)
           \/ \E k \in DOMAIN keyed : TakeWaiting(k)
  BY <1>1, <1>7 DEF AddToStack, AddLast, AddToWaiting, NextDelivery, TakeWaiting, AfterNode
<1>8. CASE Resume \/ Retry
  BY <1>8 DEF Resume, Retry, ForgetRun, LastRun
<1>9. CASE UNCHANGED engineVars
  BY <1>9 DEF engineVars, LastRun, Succeeded
<1> QED
  BY <1>3, <1>4, <1>5, <1>6, <1>7, <1>8, <1>9 DEF EngineNext

\* No step puts a delivery into a second place.
LEMMA ApartKept ==
  ASSUME WaitingOK, RestOK, Addressed, LastRun, Apart, [EngineNext]_engineVars
  PROVE  Apart'
<1> SUFFICES ASSUME NEW d \in Delivery PROVE OnePlace(d)'
  <2>1. flow' = flow
    BY DEF EngineNext, RunNode, SkipNode, EndLoop, Cancel, Fail, Wait, PutBack, ReturnNull,
           Succeed, AddToStack, AddLast, AddToWaiting, NextDelivery, GoOn, TakeWaiting,
           AfterNode, Resume, Retry, ForgetRun, engineVars
  <2> QED
    BY <2>1, SameFlow DEF Apart
<1>1. OnePlace(d) /\ d.edge.from \in Nodes
  BY FlowFacts DEF Apart, RestOK
<1>2. ASSUME runs' = runs
      PROVE  \A i \in Succeeded(d.edge.from) : i \in Succeeded(d.edge.from)'
  BY <1>2 DEF Succeeded
<1>3. ASSUME stack' = stack, waiting' = waiting, runs' = runs, pending' = pending,
             dropped' = dropped, current' = current, phase' = "node" => phase = "node"
      PROVE  OnePlace(d)'
  BY <1>1, <1>2, <1>3, NothingMoves, MoveKeeps
<1>4. CASE RunNode
  BY <1>1, <1>2, <1>4, RunNodeMoves, MoveKeeps DEF RunNode
<1>5. CASE SkipNode
  BY <1>1, <1>2, <1>5, SkipNodeMoves, MoveKeeps DEF SkipNode
<1>6. CASE EndLoop \/ Cancel \/ GoOn \/ UNCHANGED engineVars
  BY <1>3, <1>6 DEF EndLoop, EndWith, Cancel, GoOn, AfterNode, engineVars
<1>7. ASSUME NEW status \in {"error", "waiting"}, Record(status, {}), PutBack,
             phase = "node", phase' = "over"
      PROVE  OnePlace(d)'
  <2>1. flow' = flow /\ current' = current
    BY <1>7 DEF PutBack
  <2>2. \A i \in Succeeded(d.edge.from) : i \in Succeeded(d.edge.from)'
    BY <1>1, <1>7, <2>1, RecordUnsuccessful
  <2>3. \A a, j : Only(d, a, j) =>
                    \E b, k : Only(d, b, k)' /\ (a = "none" => b = "none")
    BY <1>7, PutBackMoves
  <2> QED
    BY <1>1, <2>2, <2>3, MoveKeeps
<1>8. CASE Fail
  BY <1>7, <1>8 DEF Fail, EndWith
<1>9. CASE Wait
  BY <1>7, <1>9 DEF Wait, EndWith
<1>10. CASE ReturnNull
  BY <1>1, <1>2, <1>10, ReturnNullMoves, MoveKeeps DEF ReturnNull
<1>11. CASE \E outs \in SUBSET Outputs(current.node) : Succeed(outs)
  BY <1>1, <1>11, SucceedKeeps
<1>12. ASSUME NEW e \in pending, AddToStack(e) PROVE OnePlace(d)'
  BY <1>1, <1>2, <1>12, AddToStackMoves, MoveKeeps DEF AddToStack, NextDelivery
<1>13. ASSUME NEW e \in pending, AddLast(e) PROVE OnePlace(d)'
  <2>1. /\ e.edge.to \in Nodes
        /\ WaitingIndex(e) \in DOMAIN waiting[e.edge.to]
        /\ Gathered(e) = {e} \cup waiting[e.edge.to][WaitingIndex(e)]
    BY <1>13, LastIsOld
  <2>2. /\ flow' = flow /\ runs' = runs /\ dropped' = dropped
        /\ phase = "adding" /\ phase' # "node"
        /\ TakeOut(e.edge.to, WaitingIndex(e)) /\ pending' = pending \ {e}
        /\ Unshift(e.edge.to, {e} \cup waiting[e.edge.to][WaitingIndex(e)])
    BY <1>13, <2>1 DEF AddLast, NextDelivery
  <2>3. {e} \in SUBSET pending
    BY <1>13
  <2>4. \A a, j : Only(d, a, j) =>
                    \E b, k : Only(d, b, k)' /\ (a = "none" => b = "none")
    BY <2>1, <2>2, <2>3, LeaveWaitingMoves
  <2> QED
    BY <1>1, <1>2, <2>2, <2>4, MoveKeeps
<1>14. ASSUME NEW e \in pending, AddToWaiting(e) PROVE OnePlace(d)'
  BY <1>1, <1>2, <1>14, AddToWaitingMoves, MoveKeeps DEF AddToWaiting, NextDelivery
<1>15. ASSUME NEW k \in DOMAIN keyed, TakeWaiting(k) PROVE OnePlace(d)'
  <2>0. PICK n, i : n = keyed[k] /\ i = Earliest(DOMAIN waiting[n])
    OBVIOUS
  <2>1. n \in Nodes /\ i \in DOMAIN waiting[n]
    BY <2>0, TurnOK
  <2>2. /\ flow' = flow /\ runs' = runs /\ dropped' = dropped
        /\ phase = "adding" /\ phase' # "node" /\ TakeOut(n, i)
        /\ pending' = pending \ {} /\ Unshift(n, {} \cup waiting[n][i])
    BY <1>15, <2>0 DEF TakeWaiting, AfterNode
  <2>3. {} \in SUBSET pending
    OBVIOUS
  <2>4. \A a, j : Only(d, a, j) =>
                    \E b, l : Only(d, b, l)' /\ (a = "none" => b = "none")
    BY <2>1, <2>2, <2>3, LeaveWaitingMoves
  <2> QED
    BY <1>1, <1>2, <2>2, <2>4, MoveKeeps
<1>16. ASSUME fate \in {"error", "waiting"}, ForgetRun, DOMAIN stack' = DOMAIN stack,
              \A k \in DOMAIN stack : stack'[k].got = stack[k].got
       PROVE  OnePlace(d)'
  <2>1. \A i \in Succeeded(d.edge.from) : i \in Succeeded(d.edge.from)'
    BY <1>1, <1>16, ForgetRunSucceeded
  <2>2. \A a, j : Only(d, a, j) =>
                    \E b, k : Only(d, b, k)' /\ (a = "none" => b = "none")
    BY <1>16, ForgetRunMoves
  <2> QED
    BY <1>1, <2>1, <2>2, MoveKeeps
<1>17. CASE Resume
  <2>1. stack \in Seq(Entry) /\ stack' = [stack EXCEPT ![1].disabled = TRUE]
    BY <1>17 DEF Resume, RestOK
  <2>2. DOMAIN stack' = DOMAIN stack /\ \A k \in DOMAIN stack : stack'[k].got = stack[k].got
    BY <2>1, DisableOK
  <2> QED
    BY <1>16, <1>17, <2>2 DEF Resume
<1>18. CASE Retry
  BY <1>16, <1>18 DEF Retry
<1> QED
  BY <1>4, <1>5, <1>6, <1>8, <1>9, <1>10, <1>11, <1>12, <1>13, <1>14, <1>15, <1>17,
     <1>18 DEF EngineNext

\* At the start nothing was sent.
LEMMA InitApart == EngineInit => Addressed /\ LastRun /\ Apart
<1> SUFFICES ASSUME EngineInit PROVE Addressed /\ LastRun /\ Apart
  OBVIOUS
<1>1. /\ phase = "loop" /\ pending = {} /\ dropped = {} /\ fate = "running"
      /\ \A k \in DOMAIN stack : stack[k].got = {}
      /\ \A n \in Nodes : DOMAIN waiting[n] = {} /\ DOMAIN runs[n] = {}
  BY DEF EngineInit
<1>2. Addressed /\ LastRun
  BY <1>1 DEF Addressed, LastRun
<1>3. ASSUME NEW d \in Delivery PROVE OnePlace(d)
  <2>1. d.edge.to \in Nodes
    BY FlowFacts DEF EngineInit
  <2>2. Only(d, "none", 0)
    BY <1>1, <2>1 DEF Only, StackOnly, WaitOnly, RunOnly, RestOnly, Succeeded
  <2> QED
    BY <2>2 DEF OnePlace
<1> QED
  BY <1>2, <1>3 DEF Apart

\* Whatever a node sent to another is never used by two runs, on the stack
\* twice, or both on the stack and waiting: in no workflow, with any number of
\* runs, failures, waits and cancellations.
THEOREM NothingDoubledHolds == EngineSpec => []NothingDoubled
<1> DEFINE Inv == WaitingOK /\ RestOK /\ Addressed /\ LastRun /\ Apart
<1>1. EngineInit => Inv
  BY InitType, InitApart
<1>2. Inv /\ [EngineNext]_engineVars => Inv'
  BY NextType, AddressedKept, LastRunKept, ApartKept
<1>3. Inv => NothingDoubled
  BY ApartIsNothingDoubled
<1> QED
  BY <1>1, <1>2, <1>3, PTL DEF EngineSpec

-------------------------------------------------------------------------------
(***************************************************************************)
(* Nobody is left waiting.  Of the nodes that wait, one has no ancestor    *)
(* among them, and it may go on.                                           *)
(***************************************************************************)
\* An ancestor of an ancestor is one.
LEMMA AncestorsOfAncestors ==
  ASSUME NEW n \in Nodes, NEW m \in Ancestors(n), NEW a \in Ancestors(m), a # n
  PROVE  a \in Ancestors(n)
BY DEF Ancestors

\* Among finitely many nodes, none of which is an ancestor of its ancestor, one
\* has no ancestor.
LEMMA FirstNode ==
  ASSUME NEW W \in SUBSET Nodes, IsFiniteSet(W), W # {},
         \A m, n \in W : ~(m \in Ancestors(n) /\ n \in Ancestors(m))
  PROVE  \E n \in W : Ancestors(n) \cap W = {}
<1> DEFINE above == {Ancestors(n) \cap W : n \in W}
<1>1. above # {} /\ above \subseteq FiniteSubsetsOf(W)
  <2>1. ASSUME NEW A \in above PROVE A \subseteq W /\ IsFiniteSet(A)
    <3>1. A \subseteq W
      OBVIOUS
    <3> QED
      BY <3>1, FS_Subset
  <2>2. above # {}
    OBVIOUS
  <2> HIDE DEF above
  <2> QED
    BY <2>1, <2>2 DEF FiniteSubsetsOf
<1>2. PICK A \in above : \A B \in above : <<B, A>> \notin StrictSubsetOrdering(W)
  <2> HIDE DEF above
  <2> QED
    BY <1>1, FS_StrictSubsetOrderingWellFounded, WFMin
<1>3. PICK n \in W : A = Ancestors(n) \cap W
  OBVIOUS
<1>4. ASSUME NEW m \in A PROVE FALSE
  <2> DEFINE B == Ancestors(m) \cap W
  <2>1. m \in W /\ m \in Ancestors(n) /\ n \notin Ancestors(m) /\ m \notin Ancestors(m)
    BY <1>3 DEF Ancestors
  <2>2. B \subseteq A
    BY <1>3, <2>1, AncestorsOfAncestors
  <2>3. B # A /\ B \in above
    BY <2>1
  <2>4. <<B, A>> \in StrictSubsetOrdering(W)
    BY <2>2, <2>3 DEF StrictSubsetOrdering
  <2> QED
    BY <1>2, <2>3, <2>4
<1> QED
  BY <1>3, <1>4

\* Entries that wait have data, and are for nodes with several inputs.
Joins ==
  \A n \in Nodes : \A i \in DOMAIN waiting[n] :
    waiting[n][i] # {} /\ Cardinality(Inputs(n)) > 1

\* The inputs that data is for are finitely many, and some if there is data.
LEMMA FilledSome ==
  ASSUME RestOK, NEW got \in SUBSET Delivery, got # {}
  PROVE  Cardinality(Filled(got)) \in Nat /\ Cardinality(Filled(got)) >= 1
<1> DEFINE all == {e.in : e \in flow.edges}
           f == [e \in flow.edges |-> e.in]
<1>1. IsFiniteSet(flow.edges)
  BY EngineAssumption DEF RestOK
<1>2. f \in Surjection(flow.edges, all)
  BY DEF Surjection
<1>3. IsFiniteSet(all)
  BY <1>1, <1>2, FS_Surjection
<1>4. Filled(got) \subseteq all /\ Filled(got) # {}
  BY DEF Filled, Delivery
<1>5. IsFiniteSet(Filled(got))
  BY <1>3, <1>4, FS_Subset
<1> QED
  BY <1>4, <1>5, FS_CardinalityType, FS_EmptySet

\* If nodes wait, one may go on.
LEMMA SomeMayGoOn ==
  ASSUME WaitingOK, RestOK, Joins, Unhindered, WaitingNodes # {}
  PROVE  \E k \in DOMAIN keyed : MayGoOn(keyed[k])
<1>1. IsFiniteSet(WaitingNodes)
  <2>1. /\ keyed \in [1 .. Len(keyed) -> Nodes] /\ Len(keyed) \in Nat
        /\ WaitingNodes = {keyed[k] : k \in 1 .. Len(keyed)}
    BY DEF WaitingOK
  <2>2. keyed \in Surjection(1 .. Len(keyed), WaitingNodes)
    BY <2>1 DEF Surjection
  <2> QED
    BY <2>1, <2>2, FS_Interval, FS_Surjection
<1>2. \A n \in WaitingNodes : n \in Nodes /\ Cardinality(Inputs(n)) > 1 /\ flow.needs[n] <= 1
  BY DEF WaitingNodes, Joins, Unhindered
<1>3. \A m, n \in WaitingNodes : ~(m \in Ancestors(n) /\ n \in Ancestors(m))
  BY <1>2 DEF Unhindered
<1>4. PICK n \in WaitingNodes : Ancestors(n) \cap WaitingNodes = {}
  BY <1>1, <1>2, <1>3, FirstNode
<1>5. PICK k \in DOMAIN keyed : keyed[k] = n
  BY DEF WaitingOK
<1> DEFINE first == waiting[n][Earliest(DOMAIN waiting[n])]
<1>6. first \subseteq Delivery /\ first # {}
  BY <1>2, <1>5, TurnOK DEF Joins
<1>7. flow.needs[n] \in Nat
  BY <1>2, EngineAssumption DEF RestOK, Nodes
<1>8. Cardinality(Filled(first)) \in Nat /\ Cardinality(Filled(first)) >= 1
  BY <1>6, FilledSome
<1>9. flow.needs[n] # Cardinality(Inputs(n)) /\ Cardinality(Filled(first)) >= flow.needs[n]
  BY <1>2, <1>7, <1>8
<1>10. MayGoOn(n)
  BY <1>4, <1>9 DEF MayGoOn
<1> QED
  BY <1>5, <1>10

\* While a workflow runs, nodes wait only for data.
Ended ==
  /\ phase = "loop" /\ stack = <<>> /\ Unhindered =>
       \A k \in DOMAIN keyed : ~MayGoOn(keyed[k])
  /\ fate \in {"waiting", "error"} => stack # <<>>
  /\ fate = "running" <=> phase # "over"
  /\ NobodyLeftWaiting

\* What depends on the workflow and on what waits only.
LEMMA SameWaiting ==
  ASSUME flow' = flow
  PROVE  /\ Unhindered' = Unhindered
         /\ \A n : Inputs(n)' = Inputs(n)
         /\ waiting' = waiting => /\ WaitingNodes' = WaitingNodes
                                 /\ \A n : MayGoOn(n)' = MayGoOn(n)
<1>1. /\ \A n : Inputs(n)' = Inputs(n) /\ Ancestors(n)' = Ancestors(n)
      /\ Nodes' = Nodes
  BY DEF Inputs, InputsUsed, Ancestors, Parents, Nodes
<1>2. Unhindered' = Unhindered
  BY <1>1 DEF Unhindered
<1>3. waiting' = waiting => WaitingNodes' = WaitingNodes
  BY <1>1 DEF WaitingNodes
<1>4. ASSUME waiting' = waiting, NEW n PROVE MayGoOn(n)' = MayGoOn(n)
  BY <1>1, <1>3, <1>4 DEF MayGoOn
<1> QED
  BY <1>1, <1>2, <1>3, <1>4

\* An entry that leaves is gone, the others stay as they are.
LEMMA TakeOutLeaves ==
  ASSUME WaitingOK, NEW n \in Nodes, NEW i, TakeOut(n, i)
  PROVE  /\ waiting'[n] = Without(waiting[n], i)
         /\ \A m \in Nodes \ {n} : waiting'[m] = waiting[m]
BY DEF TakeOut, WaitingOK

\* Every step keeps it so that entries that wait have data.
LEMMA JoinsKept ==
  ASSUME WaitingOK, RestOK, Joins, [EngineNext]_engineVars
  PROVE  Joins'
<1>0. flow' = flow
  BY DEF EngineNext, engineVars, RunNode, SkipNode, EndLoop, Cancel, Fail, Wait, PutBack,
         ReturnNull, Succeed, AddToStack, AddLast, AddToWaiting, NextDelivery, GoOn,
         TakeWaiting, AfterNode, Resume, Retry, ForgetRun
<1>1. Nodes' = Nodes /\ \A n : Inputs(n)' = Inputs(n)
  BY <1>0, SameFlow, SameWaiting
<1>2. ASSUME waiting' = waiting PROVE Joins'
  BY <1>1, <1>2 DEF Joins
<1>3. ASSUME NEW n \in Nodes, NEW i, TakeOut(n, i) PROVE Joins'
  <2>1. /\ waiting'[n] = Without(waiting[n], i)
        /\ \A m \in Nodes \ {n} : waiting'[m] = waiting[m]
    BY <1>3, TakeOutLeaves
  <2>2. /\ DOMAIN Without(waiting[n], i) \subseteq DOMAIN waiting[n]
        /\ \A j \in DOMAIN Without(waiting[n], i) : Without(waiting[n], i)[j] = waiting[n][j]
    BY DEF Without
  <2>3. ASSUME NEW m \in Nodes, NEW j \in DOMAIN waiting'[m]
        PROVE  waiting'[m][j] # {} /\ Cardinality(Inputs(m)) > 1
    <3>1. j \in DOMAIN waiting[m] /\ waiting'[m][j] = waiting[m][j]
      BY <2>1, <2>2, <2>3
    <3> QED
      BY <3>1 DEF Joins
  <2> QED
    BY <1>1, <2>3 DEF Joins
<1>4. ASSUME NEW d \in pending, AddLast(d) PROVE Joins'
  BY <1>3, <1>4, FlowFacts DEF AddLast, RestOK
<1>5. ASSUME NEW d \in pending, AddToWaiting(d) PROVE Joins'
  <2>1. d.edge.to \in Nodes
    BY FlowFacts DEF RestOK
  <2>2. d \in Gathered(d) /\ Cardinality(Inputs(d.edge.to)) > 1
    BY <1>5 DEF Gathered, AddToWaiting
  <2>3. waiting' = [waiting EXCEPT ![d.edge.to] =
                      With(@, WaitingIndex(d), Gathered(d))]
    BY <1>5 DEF AddToWaiting
  <2> QED
    BY <1>1, <2>1, <2>2, <2>3 DEF Joins, With, WaitingOK
<1>6. ASSUME NEW k \in DOMAIN keyed, TakeWaiting(k) PROVE Joins'
  <2>1. keyed[k] \in Nodes
    BY DEF WaitingOK
  <2> QED
    BY <1>3, <1>6, <2>1 DEF TakeWaiting
<1>7. CASE RunNode \/ SkipNode \/ EndLoop \/ Cancel \/ Fail \/ Wait \/ ReturnNull \/ GoOn
             \/ Resume \/ Retry \/ UNCHANGED engineVars
  BY <1>2, <1>7 DEF engineVars, RunNode, SkipNode, EndLoop, Cancel, Fail, Wait, PutBack,
         ReturnNull, GoOn, Resume, Retry, ForgetRun
<1>8. ASSUME NEW outs, Succeed(outs) PROVE Joins'
  BY <1>2, <1>8 DEF Succeed
<1>9. ASSUME NEW d \in pending, AddToStack(d) PROVE Joins'
  BY <1>2, <1>9 DEF AddToStack
<1> QED
  BY <1>4, <1>5, <1>6, <1>7, <1>8, <1>9 DEF EngineNext

\* The loop is left with an empty stack only when no node may go on, and then
\* none waits.
LEMMA EndedKept ==
  ASSUME WaitingOK, RestOK, Joins, Ended, [EngineNext]_engineVars
  PROVE  Ended'
<1>1. ASSUME flow' = flow, fate = "running", fate' = "running", phase' # "over",
             phase' = "loop" => stack' # <<>> \/ ~Unhindered
      PROVE  Ended'
  BY <1>1, SameWaiting DEF Ended, NobodyLeftWaiting
<1>2. ASSUME flow' = flow, waiting' = waiting, keyed' = keyed, stack' = stack,
             fate' = fate, phase' = phase
      PROVE  Ended'
  <2>1. /\ Unhindered' = Unhindered /\ WaitingNodes' = WaitingNodes
        /\ \A n : MayGoOn(n)' = MayGoOn(n)
    BY <1>2, SameWaiting
  <2>2. NobodyLeftWaiting'
    BY <1>2, <2>1 DEF Ended, NobodyLeftWaiting
  <2>3. (phase = "loop" /\ stack = <<>> /\ Unhindered =>
           \A k \in DOMAIN keyed : ~MayGoOn(keyed[k]))'
    BY <1>2, <2>1 DEF Ended
  <2> QED
    BY <1>2, <2>2, <2>3 DEF Ended
<1>3. CASE RunNode
  BY <1>1, <1>3 DEF RunNode, Shift, Ended
<1>4. CASE SkipNode
  <2>1. stack \in Seq(Entry) /\ stack # <<>> /\ current' = Head(stack)
    BY <1>4 DEF SkipNode, Shift, RestOK
  <2>2. current' \in Entry
    BY <2>1
  <2>3. ~Unhindered
    BY <1>4, <2>2 DEF SkipNode, Entry, Unhindered
  <2> QED
    BY <1>1, <1>4, <2>3 DEF SkipNode, Shift, Ended
<1>5. CASE EndLoop
  <2>1. /\ flow' = flow /\ waiting' = waiting /\ stack' = stack /\ keyed' = keyed
        /\ phase' = "over" /\ phase = "loop" /\ (stack = <<>> \/ canceled)
        /\ fate' = IF canceled THEN "canceled" ELSE "success"
    BY <1>5 DEF EndLoop, EndWith
  <2>2. ASSUME fate' = "success", Unhindered PROVE WaitingNodes = {}
    BY <2>1, <2>2, SomeMayGoOn DEF Ended
  <2>3. NobodyLeftWaiting'
    BY <2>1, <2>2, SameWaiting DEF NobodyLeftWaiting
  <2> QED
    BY <2>1, <2>3 DEF Ended
<1>6. CASE Cancel
  BY <1>2, <1>6 DEF Cancel
<1>7. CASE Fail \/ Wait
  <2>1. phase' = "over" /\ fate' \in {"canceled", "error", "waiting"}
    BY <1>7 DEF Fail, Wait, EndWith
  <2>2. stack' = <<current>> \o stack /\ stack \in Seq(Entry) /\ current \in Entry
    BY <1>7 DEF Fail, Wait, PutBack, RestOK
  <2>3. Len(stack') = Len(stack) + 1 /\ Len(stack) \in Nat
    BY <2>2, PrependSeq
  <2>4. stack' # <<>>
    BY <2>3
  <2> QED
    BY <2>1, <2>4 DEF Ended, NobodyLeftWaiting
<1>8. CASE ReturnNull
  <2>1. ~Unhindered
    BY <1>8 DEF ReturnNull, Unhindered
  <2> QED
    BY <1>1, <1>8, <2>1 DEF ReturnNull, Ended
<1>9. ASSUME NEW outs, Succeed(outs) PROVE Ended'
  <2>1. current.node # Nobody
    BY EngineAssumption DEF RestOK, Entry, Nodes
  <2>2. phase' = "loop" => ~Unhindered
    BY <1>9, <2>1 DEF Succeed, Unhindered
  <2>3. phase' # "over"
    BY <1>9 DEF Succeed
  <2> QED
    BY <1>1, <1>9, <2>2, <2>3 DEF Succeed, Ended
<1>10. ASSUME NEW d \in pending, AddToStack(d) \/ AddLast(d) \/ AddToWaiting(d)
       PROVE  Ended'
  BY <1>1, <1>10 DEF AddToStack, AddLast, AddToWaiting, NextDelivery, Ended
<1>11. CASE GoOn
  <2>1. /\ flow' = flow /\ waiting' = waiting /\ stack' = stack /\ keyed' = keyed
        /\ fate' = fate /\ phase = "adding" /\ phase' = "loop"
        /\ stack # <<>> \/ \A k \in DOMAIN keyed : ~MayGoOn(keyed[k])
    BY <1>11 DEF GoOn, AfterNode
  <2> QED
    BY <2>1, SameWaiting DEF Ended, NobodyLeftWaiting
<1>12. ASSUME NEW k \in DOMAIN keyed, TakeWaiting(k) PROVE Ended'
  <2>1. PICK n, got : n = keyed[k] /\ got = waiting[n][Earliest(DOMAIN waiting[n])]
    OBVIOUS
  <2>2. /\ flow' = flow /\ fate' = fate /\ phase = "adding" /\ phase' = "loop"
        /\ stack' = <<[node |-> n, got |-> got, disabled |-> FALSE]>> \o stack
    BY <1>12, <2>1 DEF TakeWaiting, AfterNode, Unshift
  <2>3. stack \in Seq(Entry) /\ [node |-> n, got |-> got, disabled |-> FALSE] \in Entry
    BY <2>1, TurnOK DEF RestOK, Entry
  <2>4. Len(stack') = Len(stack) + 1 /\ Len(stack) \in Nat
    BY <2>2, <2>3, PrependSeq
  <2>5. stack' # <<>>
    BY <2>4
  <2> QED
    BY <1>1, <2>2, <2>5 DEF Ended
<1>13. CASE Resume
  <2>1. stack \in Seq(Entry) /\ stack' = [stack EXCEPT ![1].disabled = TRUE] /\ stack # <<>>
    BY <1>13 DEF Resume, RestOK, Ended
  <2>2. DOMAIN stack' = DOMAIN stack /\ DOMAIN stack # {}
    BY <2>1
  <2>3. stack' # <<>>
    BY <2>2
  <2> QED
    BY <1>13, <2>3, SameWaiting DEF Resume, ForgetRun, Ended, NobodyLeftWaiting
<1>14. CASE Retry
  BY <1>14, SameWaiting DEF Retry, ForgetRun, Ended, NobodyLeftWaiting
<1>15. CASE UNCHANGED engineVars
  BY <1>2, <1>15 DEF engineVars
<1> QED
  BY <1>3, <1>4, <1>5, <1>6, <1>7, <1>8, <1>9, <1>10, <1>11, <1>12, <1>13, <1>14, <1>15
     DEF EngineNext

\* A workflow whose nodes may all run and can each do with one of their inputs
\* never ends well while a node waits for data that does not come, unless nodes
\* with several inputs are each other's ancestors: for any order in which the
\* data comes, and any failures, waits and retries before that.
THEOREM NobodyLeftWaitingHolds == EngineSpec => []NobodyLeftWaiting
<1> DEFINE Inv == WaitingOK /\ RestOK /\ Joins /\ Ended
<1>1. EngineInit => Inv
  <2> SUFFICES ASSUME EngineInit PROVE Joins /\ Ended
    BY InitType
  <2>1. stack # <<>>
    BY DEF EngineInit
  <2>2. Joins
    BY DEF EngineInit, Joins
  <2> QED
    BY <2>1, <2>2 DEF EngineInit, Ended, NobodyLeftWaiting
<1>2. Inv /\ [EngineNext]_engineVars => Inv'
  BY NextType, JoinsKept, EndedKept
<1>3. Inv => NobodyLeftWaiting
  BY DEF Ended
<1> QED
  BY <1>1, <1>2, <1>3, PTL DEF EngineSpec

-------------------------------------------------------------------------------
(***************************************************************************)
(* Nothing is lost while few deliveries come to each input: the entry that *)
(* is made for the second one gets an index of its own.                    *)
(***************************************************************************)
OnStack(d) == \E k \in DOMAIN stack : d \in stack[k].got
Waits(d) == \E i \in DOMAIN waiting[d.edge.to] : d \in waiting[d.edge.to][i]
Used(d) == \E i \in Succeeded(d.edge.to) : d \in runs[d.edge.to][i].got

Somewhere(d) ==
  \/ OnStack(d) \/ Waits(d) \/ Used(d)
  \/ phase = "node" /\ d \in current.got
  \/ d \in pending \/ d \in dropped

\* What is somewhere has a place.
LEMMA SomewhereIsPlaces == ASSUME NEW d, Somewhere(d) PROVE Places(d) # {}
<1>1. CASE OnStack(d)
  <2>1. PICK k \in DOMAIN stack : d \in stack[k].got
    BY <1>1 DEF OnStack
  <2>2. <<"stack", k>> \in Places(d)
    BY <2>1 DEF Places
  <2> QED
    BY <2>2
<1>2. CASE Waits(d)
  <2>1. PICK i \in DOMAIN waiting[d.edge.to] : d \in waiting[d.edge.to][i]
    BY <1>2 DEF Waits
  <2>2. <<"waiting", i>> \in Places(d)
    BY <2>1 DEF Places
  <2> QED
    BY <2>2
<1>3. CASE Used(d)
  <2>1. PICK i \in Succeeded(d.edge.to) : d \in runs[d.edge.to][i].got
    BY <1>3 DEF Used
  <2>2. <<"run", i>> \in Places(d)
    BY <2>1 DEF Places
  <2> QED
    BY <2>2
<1>4. CASE phase = "node" /\ d \in current.got
  <2>1. <<"node", 0>> \in Places(d)
    BY <1>4 DEF Places
  <2> QED
    BY <2>1
<1>5. CASE d \in pending
  <2>1. <<"pending", 0>> \in Places(d)
    BY <1>5 DEF Places
  <2> QED
    BY <2>1
<1>6. CASE d \in dropped
  <2>1. <<"dropped", 0>> \in Places(d)
    BY <1>6 DEF Places
  <2> QED
    BY <2>1
<1> QED
  BY <1>1, <1>2, <1>3, <1>4, <1>5, <1>6 DEF Somewhere

\* A run that succeeded stays as it is, and only Succeed adds one.
LEMMA SucceededStay ==
  ASSUME RestOK, LastRun, [EngineNext]_engineVars, NEW n \in Nodes
  PROVE  /\ flow' = flow
         /\ \A i \in Succeeded(n) : i \in Succeeded(n)' /\ runs'[n][i] = runs[n][i]
         /\ (~\E outs \in SUBSET Outputs(current.node) : Succeed(outs)) =>
              Succeeded(n)' = Succeeded(n)
<1>1. flow' = flow
  BY DEF EngineNext, engineVars, RunNode, SkipNode, EndLoop, Cancel, Fail, Wait, PutBack,
         ReturnNull, Succeed, AddToStack, AddLast, AddToWaiting, NextDelivery, GoOn,
         TakeWaiting, AfterNode, Resume, Retry, ForgetRun
<1>2. ASSUME runs' = runs
      PROVE  /\ \A i \in Succeeded(n) : i \in Succeeded(n)' /\ runs'[n][i] = runs[n][i]
             /\ Succeeded(n)' = Succeeded(n)
  BY <1>2 DEF Succeeded
<1>3. CASE Fail \/ Wait
  <2>1. PICK status \in {"error", "waiting"} : Record(status, {})
    BY <1>3 DEF Fail, Wait
  <2>2. current' = current
    BY <1>3 DEF Fail, Wait, PutBack
  <2>3. /\ \A i : i \in Succeeded(n)' <=> i \in Succeeded(n)
        /\ \A i \in Succeeded(n) : runs'[n][i] = runs[n][i]
    BY <1>1, <2>1, <2>2, RecordUnsuccessful
  <2> QED
    BY <1>1, <2>3
<1>4. CASE Resume \/ Retry
  <2>1. fate \in {"error", "waiting"} /\ ForgetRun
    BY <1>4 DEF Resume, Retry
  <2>2. /\ \A i : i \in Succeeded(n)' <=> i \in Succeeded(n)
        /\ \A i \in Succeeded(n) : runs'[n][i] = runs[n][i]
    BY <1>1, <2>1, ForgetRunSucceeded
  <2> QED
    BY <1>1, <2>2
<1>5. ASSUME NEW outs \in SUBSET Outputs(current.node), Succeed(outs)
      PROVE  \A i \in Succeeded(n) : i \in Succeeded(n)' /\ runs'[n][i] = runs[n][i]
  <2>1. outs \in SUBSET Nat
    BY <1>5, SentOK DEF Succeed
  <2>2. /\ runs' \in [Nodes' -> Seq(Run')]
        /\ \A m \in Nodes \ {current.node} : runs'[m] = runs[m]
        /\ Len(runs'[current.node]) = Len(runs[current.node]) + 1
        /\ \A i \in 1 .. Len(runs[current.node]) :
             runs'[current.node][i] = runs[current.node][i]
    BY <1>1, <1>5, <2>1, RecordOK DEF Succeed
  <2>3. current.node \in Nodes /\ runs \in [Nodes -> Seq(Run)]
    BY DEF RestOK, Entry
  <2>4. CASE n = current.node
    <3>0. runs' \in [Nodes -> Seq(Run)]
      BY <1>1, <2>2, SameFlow
    <3>1. runs'[n] \in Seq(Run) /\ runs[n] \in Seq(Run)
      BY <2>3, <3>0
    <3>2. /\ Len(runs[n]) \in Nat /\ DOMAIN runs[n] = 1 .. Len(runs[n])
          /\ DOMAIN runs'[n] = 1 .. Len(runs[n]) + 1
      BY <2>2, <2>4, <3>1
    <3> QED
      BY <2>2, <2>4, <3>2 DEF Succeeded
  <2>5. CASE n # current.node
    BY <2>2, <2>5 DEF Succeeded
  <2> QED
    BY <2>4, <2>5
<1> QED
  BY <1>1, <1>2, <1>3, <1>4, <1>5
     DEF EngineNext, engineVars, RunNode, SkipNode, EndLoop, Cancel, ReturnNull,
         AddToStack, AddLast, AddToWaiting, NextDelivery, GoOn, TakeWaiting, AfterNode

\* What the runs that succeeded have sent, run by run.
SentBy(d, e, i) ==
  /\ i \in Succeeded(e.from)
  /\ e.from # flow.goal /\ e.out \in runs[e.from][i].outs
  /\ d = [edge |-> e, run |-> i]

LEMMA MadeIs ==
  ASSUME RestOK, NEW d
  PROVE  d \in Made <=> \E e \in flow.edges : \E i : SentBy(d, e, i)
<1>1. \A e \in flow.edges : e.from \in Nodes
  BY FlowFacts DEF RestOK
<1> QED
  BY <1>1 DEF Made, Sent, SentBy

LEMMA MadeIsNext ==
  ASSUME RestOK, flow' = flow, NEW d
  PROVE  d \in Made' <=> \E e \in flow.edges : \E i : SentBy(d, e, i)'
<1>1. \A e \in flow.edges : e.from \in Nodes
  BY FlowFacts DEF RestOK
<1>2. Nodes' = Nodes /\ \A n, i, outs : Sent(n, i, outs)' = Sent(n, i, outs)
  BY SameFlow
<1>3. Made' = UNION {UNION {Sent(n, i, runs'[n][i].outs) : i \in Succeeded(n)'} :
                     n \in Nodes \ {flow.goal}}
  BY <1>2 DEF Made, Nodes, Sent
<1> QED
  BY <1>1, <1>3 DEF Sent, SentBy

\* Nothing sent is unsent, and only Succeed sends: what was not sent before.
LEMMA MadeGrows ==
  ASSUME RestOK, LastRun, [EngineNext]_engineVars
  PROVE  /\ Made \subseteq Made'
         /\ (~\E outs \in SUBSET Outputs(current.node) : Succeed(outs)) => Made' = Made
<1>1. flow' = flow /\ \A e \in flow.edges : e.from \in Nodes
  BY SucceededStay, FlowFacts DEF RestOK
<1>2. \A n \in Nodes : \A i \in Succeeded(n) :
        i \in Succeeded(n)' /\ runs'[n][i] = runs[n][i]
  BY SucceededStay
<1>3. Made \subseteq Made'
  BY <1>1, <1>2, MadeIs, MadeIsNext DEF SentBy
<1>4. ASSUME ~\E outs \in SUBSET Outputs(current.node) : Succeed(outs)
      PROVE  Made' = Made
  <2>1. \A n \in Nodes : Succeeded(n)' = Succeeded(n)
    BY <1>4, SucceededStay
  <2>2. Made' \subseteq Made
    BY <1>1, <1>2, <2>1, MadeIs, MadeIsNext DEF SentBy
  <2> QED
    BY <1>3, <2>2
<1> QED
  BY <1>3, <1>4

LEMMA SucceedSends ==
  ASSUME RestOK, NEW outs \in SUBSET Outputs(current.node), Succeed(outs)
  PROVE  /\ pending' \subseteq Made' \ Made
         /\ Made' \subseteq Made \cup pending'
         /\ \A i \in Succeeded(current.node) : i \in Succeeded(current.node)'
         /\ \A d \in current.got :
              d \in runs'[current.node][Len(runs[current.node]) + 1].got
         /\ Len(runs[current.node]) + 1 \in Succeeded(current.node)'
<1>0. PICK n, x : n = current.node /\ x = Len(runs[current.node]) + 1
  OBVIOUS
<1>1. /\ flow' = flow /\ current' = current
      /\ n \in Nodes /\ runs \in [Nodes -> Seq(Run)]
      /\ \A e \in flow.edges : e.from \in Nodes
  BY <1>0, FlowFacts DEF Succeed, RestOK, Entry
<1>2. /\ \A m \in Nodes \ {n} : runs'[m] = runs[m]
      /\ \A i \in 1 .. x - 1 : runs'[n][i] = runs[n][i]
      /\ runs'[n][x] = [got |-> current.got, outs |-> outs, status |-> "success"]
      /\ DOMAIN runs'[n] = 1 .. x /\ DOMAIN runs[n] = 1 .. x - 1 /\ x \in Nat \ {0}
  <2>1. outs \in SUBSET Nat
    BY SentOK DEF Succeed
  <2>2. /\ runs' \in [Nodes' -> Seq(Run')]
        /\ \A m \in Nodes \ {current.node} : runs'[m] = runs[m]
        /\ Len(runs'[current.node]) = Len(runs[current.node]) + 1
        /\ \A i \in 1 .. Len(runs[current.node]) :
             runs'[current.node][i] = runs[current.node][i]
        /\ runs'[current.node][Len(runs[current.node]) + 1] =
             [got |-> current.got, outs |-> outs, status |-> "success"]
    BY <1>1, <2>1, RecordOK DEF Succeed
  <2>3. runs'[n] \in Seq(Run) /\ runs[n] \in Seq(Run)
    BY <1>0, <1>1, <2>2, SameFlow
  <2> QED
    BY <1>0, <2>2, <2>3
<1>3. /\ \A m \in Nodes \ {n} : Succeeded(m)' = Succeeded(m)
      /\ Succeeded(n)' = Succeeded(n) \cup {x}
      /\ x \notin Succeeded(n)
  BY <1>2 DEF Succeeded
<1>4. pending' = IF n = flow.goal THEN {} ELSE Sent(n, x, outs)
  BY <1>0 DEF Succeed
<1>5. \A d : d \in pending' <=>
         \E e \in flow.edges : /\ e.from = n /\ n # flow.goal /\ e.out \in outs
                             /\ d = [edge |-> e, run |-> x]
  BY <1>4 DEF Sent
<1>6. ASSUME NEW d \in pending' PROVE d \in Made' \ Made
  <2>1. PICK e \in flow.edges : /\ e.from = n /\ n # flow.goal /\ e.out \in outs
                                /\ d = [edge |-> e, run |-> x]
    BY <1>5
  <2>2. d \in Made'
    BY <1>1, <1>2, <1>3, <2>1, MadeIsNext DEF SentBy
  <2>3. d \notin Made
    <3>1. SUFFICES ASSUME d \in Made PROVE FALSE
      OBVIOUS
    <3>2. PICK f, i : i \in Succeeded(f.from) /\ d = [edge |-> f, run |-> i]
      BY <3>1, MadeIs DEF SentBy
    <3>3. f = e /\ i = x
      BY <2>1, <3>2
    <3> QED
      BY <1>3, <2>1, <3>2, <3>3
  <2> QED
    BY <2>2, <2>3
<1>7. ASSUME NEW d \in Made' PROVE d \in Made \cup pending'
  <2>1. PICK e, i :
               /\ e \in flow.edges /\ i \in Succeeded(e.from)' /\ e.from # flow.goal
               /\ e.out \in runs'[e.from][i].outs
               /\ d = [edge |-> e, run |-> i]
    BY <1>1, <1>7, MadeIsNext DEF SentBy
  <2>2. CASE e.from = n /\ i = x
    BY <1>2, <1>5, <2>1, <2>2
  <2>3. CASE e.from = n /\ i # x
    <3>1. i \in Succeeded(n) /\ i \in 1 .. x - 1
      BY <1>2, <1>3, <2>1, <2>3 DEF Succeeded
    <3> QED
      BY <1>2, <2>1, <2>3, <3>1, MadeIs DEF SentBy
  <2>4. CASE e.from # n
    BY <1>1, <1>2, <1>3, <2>1, <2>4, MadeIs DEF SentBy
  <2> QED
    BY <2>2, <2>3, <2>4
<1> QED
  BY <1>0, <1>1, <1>2, <1>3, <1>6, <1>7

\* What is to be delivered and what waits has been sent; and each entry of the
\* stack holds what was sent to its node.
Sending ==
  /\ phase # "adding" => pending = {}
  /\ pending \subseteq Made
  /\ \A n \in Nodes : \A i \in DOMAIN waiting[n] : waiting[n][i] \subseteq Made

StackFor ==
  /\ \A k \in DOMAIN stack : \A d \in stack[k].got : d.edge.to = stack[k].node
  /\ \A d \in current.got : d.edge.to = current.node

LEMMA SendingKept ==
  ASSUME WaitingOK, RestOK, LastRun, Sending, [EngineNext]_engineVars
  PROVE  Sending'
<1>0. flow' = flow /\ Nodes' = Nodes /\ Made \subseteq Made'
  <2>1. flow' = flow
    BY SucceededStay DEF RestOK, Entry
  <2> QED
    BY <2>1, SameFlow, MadeGrows
<1>1. ASSUME waiting' = waiting, pending' = pending, phase' # "adding" => phase # "adding" \/ pending = {}
      PROVE  Sending'
  BY <1>0, <1>1 DEF Sending
<1>2. ASSUME NEW n \in Nodes, NEW i \in DOMAIN waiting[n], TakeOut(n, i),
             pending' \subseteq pending, phase' # "adding" => pending' = {}
      PROVE  Sending'
  <2>1. /\ \A m \in Nodes \ {n} : waiting'[m] = waiting[m]
        /\ DOMAIN waiting'[n] = DOMAIN waiting[n] \ {i}
        /\ \A j \in DOMAIN waiting[n] \ {i} : waiting'[n][j] = waiting[n][j]
    BY <1>0, <1>2, TakeOutOK
  <2>2. ASSUME NEW m \in Nodes, NEW j \in DOMAIN waiting'[m]
        PROVE  waiting'[m][j] \subseteq Made'
    <3>1. j \in DOMAIN waiting[m] /\ waiting'[m][j] = waiting[m][j]
      BY <2>1, <2>2
    <3> QED
      BY <1>0, <3>1 DEF Sending
  <2> QED
    BY <1>0, <1>2, <2>2 DEF Sending
<1>3. ASSUME NEW d \in pending, AddToWaiting(d) PROVE Sending'
  <2>0. PICK n, x, g : n = d.edge.to /\ x = WaitingIndex(d) /\ g = Gathered(d)
    OBVIOUS
  <2>1. d \in Delivery /\ n \in Nodes
    BY <2>0, FlowFacts DEF RestOK
  <2>2. /\ \A m \in Nodes \ {n} : waiting'[m] = waiting[m]
        /\ DOMAIN waiting'[n] = DOMAIN waiting[n] \cup {x}
        /\ waiting'[n][x] = g
        /\ \A k \in DOMAIN waiting[n] \ {x} : waiting'[n][k] = waiting[n][k]
    BY <1>3, <2>0, AddToWaitingOK
  <2>3. \/ x \in DOMAIN waiting[n] /\ g = {d} \cup waiting[n][x]
        \/ g = {d}
    BY <2>0, <2>1, GatheredOK
  <2>4. g \subseteq Made
    BY <2>1, <2>3 DEF Sending
  <2>5. ASSUME NEW m \in Nodes, NEW j \in DOMAIN waiting'[m]
        PROVE  waiting'[m][j] \subseteq Made'
    <3>1. waiting'[m][j] = g \/ (j \in DOMAIN waiting[m] /\ waiting'[m][j] = waiting[m][j])
      BY <2>2, <2>5
    <3> QED
      BY <1>0, <2>4, <3>1 DEF Sending
  <2>6. phase' = "adding" /\ pending' \subseteq pending
    BY <1>3 DEF AddToWaiting, NextDelivery
  <2> QED
    BY <1>0, <2>5, <2>6 DEF Sending
<1>4. ASSUME NEW outs \in SUBSET Outputs(current.node), Succeed(outs) PROVE Sending'
  <2>1. pending' \subseteq Made' /\ waiting' = waiting
    BY <1>4, SucceedSends DEF Succeed
  <2>2. phase' # "adding" => pending' = {}
    BY <1>4 DEF Succeed
  <2> QED
    BY <1>0, <2>1, <2>2 DEF Sending
<1>5. ASSUME NEW d \in pending, AddToStack(d) PROVE Sending'
  BY <1>0, <1>5 DEF AddToStack, NextDelivery, Sending
<1>6. ASSUME NEW d \in pending, AddLast(d) PROVE Sending'
  BY <1>2, <1>6, LastIsOld DEF AddLast, NextDelivery
<1>7. ASSUME NEW k \in DOMAIN keyed, TakeWaiting(k) PROVE Sending'
  BY <1>2, <1>7, TurnOK DEF TakeWaiting, AfterNode
<1> QED
  BY <1>1, <1>3, <1>4, <1>5, <1>6, <1>7
     DEF EngineNext, engineVars, RunNode, SkipNode, Shift, EndLoop, EndWith, Cancel, Fail,
         Wait, PutBack, ReturnNull, GoOn, AfterNode, Resume, Retry, ForgetRun

\* An entry is put on top of the stack.
LEMMA StackForPush ==
  ASSUME RestOK, flow' = flow, StackFor, NEW e \in Entry, stack' = <<e>> \o stack,
         \A d \in e.got : d.edge.to = e.node
  PROVE  \A k \in DOMAIN stack' : \A d \in stack'[k].got : d.edge.to = stack'[k].node
<1>1. /\ Len(stack') = Len(stack) + 1
      /\ stack'[1] = e
      /\ \A k \in 2 .. Len(stack) + 1 : stack'[k] = stack[k - 1]
      /\ stack' \in Seq(Entry) /\ stack \in Seq(Entry)
  BY PushOK, SameFlow DEF RestOK
<1>2. ASSUME NEW k \in DOMAIN stack'
      PROVE  stack'[k] = e \/ \E l \in DOMAIN stack : stack'[k] = stack[l]
  <2>1. /\ DOMAIN stack' = 1 .. Len(stack) + 1 /\ DOMAIN stack = 1 .. Len(stack)
        /\ Len(stack) \in Nat
    BY <1>1
  <2>2. CASE k = 1
    BY <1>1, <2>2
  <2>3. CASE k # 1
    <3>1. k - 1 \in DOMAIN stack /\ stack'[k] = stack[k - 1]
      BY <1>1, <2>1, <2>3
    <3> QED
      BY <3>1
  <2> QED
    BY <2>2, <2>3
<1> QED
  BY <1>2 DEF StackFor

LEMMA StackForUnshift ==
  ASSUME RestOK, flow' = flow, StackFor, NEW n \in Nodes, NEW got \in SUBSET Delivery,
         Unshift(n, got), current' = current, \A d \in got : d.edge.to = n
  PROVE  StackFor'
<1> DEFINE e == [node |-> n, got |-> got, disabled |-> FALSE]
<1>1. e \in Entry /\ e.got = got /\ e.node = n
  BY DEF Entry
<1>2. stack' = <<e>> \o stack
  BY DEF Unshift
<1>3. \A d \in e.got : d.edge.to = e.node
  BY <1>1
<1> HIDE DEF e
<1> QED
  BY <1>1, <1>2, <1>3, StackForPush DEF StackFor

LEMMA StackForKept ==
  ASSUME WaitingOK, RestOK, LastRun, Addressed, StackFor, [EngineNext]_engineVars
  PROVE  StackFor'
<1>0. flow' = flow
  BY SucceededStay DEF RestOK, Entry
<1>1. ASSUME stack' = stack, current' = current PROVE StackFor'
  BY <1>1 DEF StackFor
<1>2. ASSUME Shift PROVE StackFor'
  <2>1. /\ Len(stack) >= 1 /\ Len(stack') = Len(stack) - 1
        /\ current' = stack[1]
        /\ \A k \in 1 .. Len(stack) - 1 : stack'[k] = stack[k + 1]
        /\ stack' \in Seq(Entry) /\ stack \in Seq(Entry)
    BY <1>0, <1>2, ShiftOK, SameFlow DEF RestOK
  <2>2. /\ DOMAIN stack = 1 .. Len(stack) /\ DOMAIN stack' = 1 .. Len(stack) - 1
        /\ Len(stack) \in Nat
    BY <2>1
  <2>3. \A k \in DOMAIN stack' : k + 1 \in DOMAIN stack /\ stack'[k] = stack[k + 1]
    BY <2>1, <2>2
  <2>4. 1 \in DOMAIN stack
    BY <2>1, <2>2
  <2> QED
    BY <2>1, <2>3, <2>4 DEF StackFor
<1>3. ASSUME PutBack PROVE StackFor'
  <2>1. current \in Entry /\ \A d \in current.got : d.edge.to = current.node
    BY DEF RestOK, StackFor
  <2> QED
    BY <1>0, <1>3, <2>1, StackForPush DEF PutBack, StackFor
<1>4. ASSUME NEW d \in pending, AddToStack(d) PROVE StackFor'
  <2>1. d.edge.to \in Nodes /\ {d} \in SUBSET Delivery
    BY FlowFacts DEF RestOK
  <2> QED
    BY <1>0, <1>4, <2>1, StackForUnshift DEF AddToStack, NextDelivery
<1>5. ASSUME NEW d \in pending, AddLast(d) PROVE StackFor'
  <2>0. PICK n, g : n = d.edge.to /\ g = Gathered(d)
    OBVIOUS
  <2>1. /\ n \in Nodes /\ g \subseteq Delivery
        /\ WaitingIndex(d) \in DOMAIN waiting[n]
        /\ g = {d} \cup waiting[n][WaitingIndex(d)]
    BY <1>5, <2>0, LastIsOld
  <2>2. \A c \in g : c.edge.to = n
    BY <2>0, <2>1 DEF Addressed
  <2> QED
    BY <1>0, <1>5, <2>0, <2>1, <2>2, StackForUnshift DEF AddLast, NextDelivery
<1>6. ASSUME NEW k \in DOMAIN keyed, TakeWaiting(k) PROVE StackFor'
  <2>0. PICK n, i, g : n = keyed[k] /\ i = Earliest(DOMAIN waiting[n]) /\ g = waiting[n][i]
    OBVIOUS
  <2>1. n \in Nodes /\ i \in DOMAIN waiting[n] /\ g \subseteq Delivery
    BY <2>0, TurnOK
  <2>2. \A c \in g : c.edge.to = n
    BY <2>0, <2>1 DEF Addressed
  <2>3. Unshift(n, g) /\ current' = current
    BY <1>6, <2>0 DEF TakeWaiting, AfterNode
  <2> QED
    BY <1>0, <2>1, <2>2, <2>3, StackForUnshift
<1>7. CASE Resume
  <2>1. stack \in Seq(Entry) /\ stack' = [stack EXCEPT ![1].disabled = TRUE] /\ current' = current
    BY <1>7 DEF Resume, ForgetRun, RestOK
  <2>2. /\ DOMAIN stack' = DOMAIN stack
        /\ \A k \in DOMAIN stack : stack'[k].got = stack[k].got /\ stack'[k].node = stack[k].node
    BY <2>1, DisableOK
  <2> QED
    BY <2>1, <2>2 DEF StackFor
<1> QED
  BY <1>1, <1>2, <1>3, <1>4, <1>5, <1>6, <1>7
     DEF EngineNext, engineVars, RunNode, SkipNode, EndLoop, Cancel, Fail, Wait,
         ReturnNull, Succeed, AddToWaiting, NextDelivery, GoOn, AfterNode, Retry, ForgetRun

\* An entry with an index other than 0 was made when its input had data before.
Second ==
  \A n \in Nodes : \A j \in DOMAIN waiting[n] \ {0} : \A c \in waiting[n][j] :
    \E e \in Made \ pending : e # c /\ SameInput(e, c)

\* What waits in two entries, or waits and is to be delivered, is not the same.
LEMMA WaitsOnce ==
  ASSUME RestOK, Addressed, Apart, NEW n \in Nodes, NEW i \in DOMAIN waiting[n],
         NEW d \in Delivery, d \in waiting[n][i]
  PROVE  d \notin pending /\ \A j \in DOMAIN waiting[n] : d \in waiting[n][j] => j = i
<1>1. d.edge.to = n
  BY DEF Addressed
<1>2. PICK a, k : Only(d, a, k)
  BY DEF Apart, OnePlace
<1>3. a = "waiting" /\ k = i
  BY <1>1, <1>2 DEF Only, WaitOnly
<1>4. \A j \in DOMAIN waiting[n] : d \in waiting[n][j] => j = i
  BY <1>1, <1>2, <1>3 DEF Only, WaitOnly
<1> QED
  BY <1>2, <1>3, <1>4 DEF Only, RestOnly

\* With two inputs and few deliveries, an entry that stays waiting is a new one,
\* and its index is free.
LEMMA IndexIsFree ==
  ASSUME WaitingOK, RestOK, Joins, Addressed, Apart, Sending, FewSent, Second,
         NEW d \in pending, AddToWaiting(d)
  PROVE  /\ Gathered(d) = {d}
         /\ WaitingIndex(d) \notin DOMAIN waiting[d.edge.to]
         /\ WaitingIndex(d) # 0 => \E e \in Made \ pending : e # d /\ SameInput(e, d)
<1>0. PICK n : n = d.edge.to
  OBVIOUS
<1>1. /\ d \in Delivery /\ n \in Nodes /\ d \in Made /\ d.edge.in \in InputsUsed(n)
      /\ d.edge.in \in Nat
  BY <1>0, FlowFacts DEF RestOK, Sending, InputsUsed
<1>2. /\ DOMAIN waiting[n] \subseteq Nat /\ IsFiniteSet(DOMAIN waiting[n])
      /\ \A i \in DOMAIN waiting[n] : waiting[n][i] \subseteq Delivery
  BY <1>1 DEF WaitingOK
<1>3. ASSUME NEW i \in Lacking(d) PROVE FALSE
  <2>1. Lacking(d) \subseteq DOMAIN waiting[n] /\ Lacking(d) # {}
    BY <1>0, <1>3 DEF Lacking
  <2>2. PICK x : x = WaitingIndex(d) /\ x \in Lacking(d)
    BY <1>2, <2>1, EarliestIn DEF WaitingIndex
  <2>3. /\ x \in DOMAIN waiting[n] /\ d.edge.in \notin Filled(waiting[n][x])
        /\ Gathered(d) = {d} \cup waiting[n][x]
    BY <1>0, <2>1, <2>2 DEF Lacking, Gathered
  <2>4. PICK c : c \in waiting[n][x]
    BY <1>1, <2>3 DEF Joins
  <2>5. c \in Delivery /\ c.edge \in flow.edges /\ c.edge.to = n /\ c.edge.in \in Nat
    BY <1>1, <1>2, <2>3, <2>4, FlowFacts DEF Addressed, RestOK
  <2>6. \A m \in InputsUsed(n) : m \in Nat => m \in Inputs(n)
    BY DEF Inputs
  <2>7. /\ c.edge.in \in Inputs(n) /\ d.edge.in \in Inputs(n) /\ c.edge.in # d.edge.in
        /\ Inputs(n) \subseteq {0, 1}
    BY <1>1, <2>3, <2>4, <2>5, <2>6 DEF FewSent, InputsUsed, Filled
  <2>8. Inputs(n) \subseteq Filled(Gathered(d))
    BY <2>3, <2>4, <2>7 DEF Filled
  <2>9. \A e \in Gathered(d) : e.edge.in \in Inputs(n)
    <3>1. ASSUME NEW e \in waiting[n][x] PROVE e.edge.in \in Inputs(n)
      <4>1. e \in Delivery /\ e.edge \in flow.edges /\ e.edge.to = n /\ e.edge.in \in Nat
        BY <1>1, <1>2, <2>3, <3>1, FlowFacts DEF Addressed, RestOK
      <4> QED
        BY <2>6, <4>1 DEF InputsUsed
    <3> QED
      BY <2>3, <2>7, <3>1
  <2>10. Filled(Gathered(d)) = Inputs(n)
    BY <2>8, <2>9 DEF Filled
  <2> QED
    BY <1>0, <2>10 DEF AddToWaiting
<1>4. Lacking(d) = {} /\ Gathered(d) = {d} /\ WaitingIndex(d) = Cardinality(DOMAIN waiting[n])
  BY <1>0, <1>3 DEF Gathered, WaitingIndex
<1>5. ASSUME NEW i \in DOMAIN waiting[n]
      PROVE  \E e \in waiting[n][i] : /\ e \in Delivery /\ e \in Made \ pending /\ e # d
                                    /\ SameInput(e, d)
  <2>1. d.edge.in \in Filled(waiting[n][i])
    BY <1>0, <1>4 DEF Lacking
  <2>2. PICK e \in waiting[n][i] : e.edge.in = d.edge.in
    BY <2>1 DEF Filled
  <2>3. e \in Delivery /\ e \in Made /\ e.edge.to = n
    BY <1>1, <1>2, <2>2 DEF Sending, Addressed
  <2>4. e \notin pending
    BY <1>1, <2>2, <2>3, WaitsOnce
  <2> QED
    BY <1>0, <2>2, <2>3, <2>4 DEF SameInput
<1>6. \A c, e \in Made \ {d} : SameInput(c, d) /\ SameInput(e, d) => c = e
  BY <1>1 DEF FewSent, SameInput
<1>7. \A i, j \in DOMAIN waiting[n] : i = j
  <2>1. SUFFICES ASSUME NEW i \in DOMAIN waiting[n], NEW j \in DOMAIN waiting[n] PROVE i = j
    OBVIOUS
  <2>2. PICK c \in waiting[n][i] : /\ c \in Delivery /\ c \in Made \ pending /\ c # d
                                  /\ SameInput(c, d)
    BY <1>5
  <2>3. PICK e \in waiting[n][j] : /\ e \in Delivery /\ e \in Made \ pending /\ e # d
                                  /\ SameInput(e, d)
    BY <1>5
  <2>4. c = e
    BY <1>6, <2>2, <2>3
  <2> QED
    BY <1>1, <2>2, <2>3, <2>4, WaitsOnce
<1>8. CASE DOMAIN waiting[n] = {}
  BY <1>0, <1>4, <1>8, FS_EmptySet
<1>9. CASE DOMAIN waiting[n] # {}
  <2>1. PICK i : DOMAIN waiting[n] = {i}
    BY <1>7, <1>9
  <2>2. Cardinality(DOMAIN waiting[n]) = 1
    BY <2>1, FS_Singleton
  <2>3. PICK c \in waiting[n][i] : c \in Made \ pending /\ c # d /\ SameInput(c, d)
    BY <1>5, <2>1
  <2>4. i # 1
    <3>1. SUFFICES ASSUME i = 1 PROVE FALSE
      OBVIOUS
    <3>2. PICK e \in Made \ pending : e # c /\ SameInput(e, c)
      BY <1>1, <2>1, <2>3, <3>1 DEF Second
    <3>3. e # d /\ SameInput(e, d)
      BY <2>3, <3>2 DEF SameInput
    <3> QED
      BY <1>6, <2>3, <3>2, <3>3
  <2> QED
    BY <1>0, <1>4, <2>1, <2>2, <2>3, <2>4
<1> QED
  BY <1>8, <1>9

\* Few deliveries now: few before.
LEMMA FewBefore ==
  ASSUME RestOK, LastRun, [EngineNext]_engineVars, FewSent'
  PROVE  FewSent
<1>1. flow' = flow
  BY SucceededStay DEF RestOK, Entry
<1>2. Made \subseteq Made' /\ Nodes' = Nodes /\ \A n : Inputs(n)' = Inputs(n)
  BY <1>1, MadeGrows, SameWaiting, SameFlow
<1> QED
  BY <1>2 DEF FewSent, SameInput

LEMMA SecondKept ==
  ASSUME WaitingOK, RestOK, LastRun, Joins, Addressed, Apart, Sending, FewSent, Second,
         [EngineNext]_engineVars
  PROVE  Second'
<1>0. flow' = flow /\ Nodes' = Nodes /\ Made \subseteq Made'
  <2>1. flow' = flow
    BY SucceededStay DEF RestOK, Entry
  <2> QED
    BY <2>1, SameFlow, MadeGrows
<1>1. ASSUME Made \ pending \subseteq Made' \ pending',
             \A n \in Nodes : \A j \in DOMAIN waiting'[n] :
               j \in DOMAIN waiting[n] /\ waiting'[n][j] = waiting[n][j]
      PROVE  Second'
  <2>1. ASSUME NEW n \in Nodes, NEW j \in DOMAIN waiting'[n] \ {0}, NEW c \in waiting'[n][j]
        PROVE  \E e \in Made' \ pending' : e # c /\ SameInput(e, c)
    <3>1. j \in DOMAIN waiting[n] \ {0} /\ c \in waiting[n][j]
      BY <1>1, <2>1
    <3>2. PICK e \in Made \ pending : e # c /\ SameInput(e, c)
      BY <3>1 DEF Second
    <3> QED
      BY <1>1, <3>2
  <2> QED
    BY <1>0, <2>1 DEF Second, SameInput
<1>2. ASSUME waiting' = waiting, pending' \subseteq pending PROVE Second'
  BY <1>0, <1>1, <1>2
<1>3. ASSUME NEW n \in Nodes, NEW i \in DOMAIN waiting[n], TakeOut(n, i),
             pending' \subseteq pending
      PROVE  Second'
  <2>1. /\ \A m \in Nodes \ {n} : waiting'[m] = waiting[m]
        /\ DOMAIN waiting'[n] = DOMAIN waiting[n] \ {i}
        /\ \A j \in DOMAIN waiting[n] \ {i} : waiting'[n][j] = waiting[n][j]
    BY <1>0, <1>3, TakeOutOK
  <2>2. \A m \in Nodes : \A j \in DOMAIN waiting'[m] :
          j \in DOMAIN waiting[m] /\ waiting'[m][j] = waiting[m][j]
    BY <2>1
  <2> QED
    BY <1>0, <1>1, <1>3, <2>2
<1>4. ASSUME NEW outs \in SUBSET Outputs(current.node), Succeed(outs) PROVE Second'
  <2>1. pending' \cap Made = {} /\ waiting' = waiting
    BY <1>4, SucceedSends DEF Succeed
  <2> QED
    BY <1>0, <1>1, <2>1
<1>5. ASSUME NEW d \in pending, AddToWaiting(d) PROVE Second'
  <2>0. PICK n, x : n = d.edge.to /\ x = WaitingIndex(d)
    OBVIOUS
  <2>1. n \in Nodes /\ pending' = pending \ {d}
    BY <1>5, <2>0, FlowFacts DEF RestOK, AddToWaiting, NextDelivery
  <2>2. /\ \A m \in Nodes \ {n} : waiting'[m] = waiting[m]
        /\ DOMAIN waiting'[n] = DOMAIN waiting[n] \cup {x}
        /\ waiting'[n][x] = {d}
        /\ \A k \in DOMAIN waiting[n] \ {x} : waiting'[n][k] = waiting[n][k]
    BY <1>5, <2>0, AddToWaitingOK, IndexIsFree
  <2>3. x # 0 => \E e \in Made \ pending : e # d /\ SameInput(e, d)
    BY <1>5, <2>0, IndexIsFree
  <2>4. ASSUME NEW m \in Nodes, NEW j \in DOMAIN waiting'[m] \ {0}, NEW c \in waiting'[m][j]
        PROVE  \E e \in Made' \ pending' : e # c /\ SameInput(e, c)
    <3>1. CASE m = n /\ j = x
      BY <1>0, <2>1, <2>2, <2>3, <2>4, <3>1
    <3>2. CASE ~(m = n /\ j = x)
      <4>1. j \in DOMAIN waiting[m] \ {0} /\ c \in waiting[m][j]
        BY <2>2, <2>4, <3>2
      <4>2. PICK e \in Made \ pending : e # c /\ SameInput(e, c)
        BY <4>1 DEF Second
      <4> QED
        BY <1>0, <2>1, <4>2
    <3> QED
      BY <3>1, <3>2
  <2> QED
    BY <1>0, <2>4 DEF Second, SameInput
<1>6. ASSUME NEW d \in pending, AddToStack(d) PROVE Second'
  BY <1>2, <1>6 DEF AddToStack, NextDelivery
<1>7. ASSUME NEW d \in pending, AddLast(d) PROVE Second'
  BY <1>3, <1>7, LastIsOld DEF AddLast, NextDelivery
<1>8. ASSUME NEW k \in DOMAIN keyed, TakeWaiting(k) PROVE Second'
  BY <1>3, <1>8, TurnOK DEF TakeWaiting, AfterNode
<1> QED
  BY <1>2, <1>4, <1>5, <1>6, <1>7, <1>8
     DEF EngineNext, engineVars, RunNode, SkipNode, Shift, EndLoop, EndWith, Cancel, Fail,
         Wait, PutBack, ReturnNull, GoOn, AfterNode, Resume, Retry, ForgetRun

\* What is on the stack stays there when another entry comes on top.
LEMMA PushKeeps ==
  ASSUME RestOK, flow' = flow, NEW e \in Entry, stack' = <<e>> \o stack, NEW d
  PROVE  OnStack(d) \/ d \in e.got => OnStack(d)'
<1>1. /\ Len(stack') = Len(stack) + 1
      /\ stack'[1] = e
      /\ \A k \in 2 .. Len(stack) + 1 : stack'[k] = stack[k - 1]
      /\ stack' \in Seq(Entry) /\ stack \in Seq(Entry)
  BY PushOK, SameFlow DEF RestOK
<1>2. /\ DOMAIN stack' = 1 .. Len(stack) + 1 /\ DOMAIN stack = 1 .. Len(stack)
      /\ Len(stack) \in Nat
  BY <1>1
<1>3. 1 \in DOMAIN stack'
  BY <1>2
<1>4. \A k \in DOMAIN stack : k + 1 \in DOMAIN stack' /\ stack'[k + 1] = stack[k]
  BY <1>1, <1>2
<1> QED
  BY <1>1, <1>3, <1>4 DEF OnStack

LEMMA UnshiftKeeps ==
  ASSUME RestOK, flow' = flow, NEW n \in Nodes, NEW got \in SUBSET Delivery,
         Unshift(n, got), NEW d
  PROVE  OnStack(d) \/ d \in got => OnStack(d)'
<1> DEFINE e == [node |-> n, got |-> got, disabled |-> FALSE]
<1>1. e \in Entry /\ e.got = got
  BY DEF Entry
<1>2. stack' = <<e>> \o stack
  BY DEF Unshift
<1> HIDE DEF e
<1> QED
  BY <1>1, <1>2, PushKeeps

\* What is on top of the stack goes to `current`.
LEMMA ShiftKeeps ==
  ASSUME RestOK, flow' = flow, Shift, NEW d
  PROVE  OnStack(d) => OnStack(d)' \/ d \in current'.got
<1>1. /\ Len(stack) >= 1 /\ Len(stack') = Len(stack) - 1
      /\ current' = stack[1]
      /\ \A k \in 1 .. Len(stack) - 1 : stack'[k] = stack[k + 1]
      /\ stack' \in Seq(Entry) /\ stack \in Seq(Entry)
  BY ShiftOK, SameFlow DEF RestOK
<1>2. /\ DOMAIN stack = 1 .. Len(stack) /\ DOMAIN stack' = 1 .. Len(stack) - 1
      /\ Len(stack) \in Nat
  BY <1>1
<1>3. SUFFICES ASSUME NEW k \in DOMAIN stack, d \in stack[k].got
               PROVE  OnStack(d)' \/ d \in current'.got
  BY DEF OnStack
<1>4. CASE k = 1
  BY <1>1, <1>3, <1>4
<1>5. CASE k # 1
  <2>1. k - 1 \in DOMAIN stack' /\ stack'[k - 1] = stack[k]
    BY <1>1, <1>2, <1>5
  <2> QED
    BY <1>3, <2>1 DEF OnStack
<1> QED
  BY <1>4, <1>5

\* No step loses what was sent.
LEMMA SomewhereKept ==
  ASSUME WaitingOK, RestOK, LastRun, Joins, Addressed, Apart, Sending, StackFor, FewSent,
         Second, [EngineNext]_engineVars, NEW d, d.edge.to \in Nodes, Somewhere(d)
  PROVE  Somewhere(d)'
<1>0. flow' = flow
  BY SucceededStay
<1>1. Used(d) => Used(d)'
  <2>1. \A i \in Succeeded(d.edge.to) :
          i \in Succeeded(d.edge.to)' /\ runs'[d.edge.to][i] = runs[d.edge.to][i]
    BY SucceededStay
  <2> QED
    BY <2>1 DEF Used
<1>2. /\ stack' = stack => (OnStack(d) => OnStack(d)')
      /\ waiting' = waiting => (Waits(d) => Waits(d)')
  BY DEF OnStack, Waits
<1>3. CASE RunNode
  <2>1. Shift /\ waiting' = waiting /\ pending' = pending /\ dropped' = dropped
        /\ phase = "loop" /\ phase' = "node"
    BY <1>3 DEF RunNode, Shift
  <2> QED
    BY <1>0, <1>1, <1>2, <2>1, ShiftKeeps DEF Somewhere
<1>4. CASE SkipNode
  <2>1. Shift /\ waiting' = waiting /\ pending' = pending
        /\ dropped' = dropped \cup current'.got /\ phase = "loop"
    BY <1>4 DEF SkipNode, Shift
  <2> QED
    BY <1>0, <1>1, <1>2, <2>1, ShiftKeeps DEF Somewhere
<1>5. CASE Fail \/ Wait
  <2>1. /\ current \in Entry /\ stack' = <<current>> \o stack /\ waiting' = waiting
        /\ pending' = pending /\ dropped' = dropped
    BY <1>5 DEF Fail, Wait, PutBack, RestOK
  <2> QED
    BY <1>0, <1>1, <1>2, <2>1, PushKeeps DEF Somewhere
<1>6. CASE ReturnNull
  BY <1>1, <1>2, <1>6 DEF ReturnNull, Somewhere
<1>7. ASSUME NEW outs \in SUBSET Outputs(current.node), Succeed(outs) PROVE Somewhere(d)'
  <2>1. /\ stack' = stack /\ waiting' = waiting /\ dropped' = dropped
        /\ pending = {}
    BY <1>7 DEF Succeed, Sending
  <2>2. ASSUME d \in current.got PROVE Used(d)'
    <3>1. PICK n, x : n = d.edge.to /\ x = Len(runs[current.node]) + 1
      OBVIOUS
    <3>2. current.node = n /\ current' = current
      BY <1>7, <2>2, <3>1 DEF StackFor, Succeed
    <3>3. x \in Succeeded(current.node)' /\ d \in runs'[n][x].got
      BY <1>7, <2>2, <3>1, <3>2, SucceedSends
    <3>4. x \in Succeeded(n)'
      BY <3>2, <3>3 DEF Succeeded
    <3> QED
      BY <3>1, <3>3, <3>4 DEF Used
  <2> QED
    BY <1>1, <1>2, <2>1, <2>2 DEF Somewhere
<1>8. ASSUME NEW e \in pending, AddToStack(e) PROVE Somewhere(d)'
  <2>1. /\ e.edge.to \in Nodes /\ {e} \in SUBSET Delivery /\ Unshift(e.edge.to, {e})
        /\ waiting' = waiting /\ dropped' = dropped /\ pending' = pending \ {e}
        /\ phase = "adding"
    BY <1>8, FlowFacts DEF RestOK, AddToStack, NextDelivery
  <2>2. OnStack(d) \/ d \in {e} => OnStack(d)'
    BY <1>0, <2>1, UnshiftKeeps
  <2> QED
    BY <1>1, <1>2, <2>1, <2>2 DEF Somewhere
<1>9. ASSUME NEW n \in Nodes, NEW i \in DOMAIN waiting[n], NEW new \in SUBSET Delivery,
             TakeOut(n, i), Unshift(n, new \cup waiting[n][i]),
             pending' = pending \ new, dropped' = dropped, phase # "node"
      PROVE  Somewhere(d)'
  <2>0. PICK g : g = new \cup waiting[n][i]
    OBVIOUS
  <2>1. /\ \A m \in Nodes \ {n} : waiting'[m] = waiting[m]
        /\ DOMAIN waiting'[n] = DOMAIN waiting[n] \ {i}
        /\ \A j \in DOMAIN waiting[n] \ {i} : waiting'[n][j] = waiting[n][j]
    BY <1>0, <1>9, TakeOutOK
  <2>2. g \in SUBSET Delivery
    BY <2>0 DEF WaitingOK
  <2>3. OnStack(d) \/ d \in g => OnStack(d)'
    BY <1>0, <1>9, <2>0, <2>2, UnshiftKeeps
  <2>4. ASSUME Waits(d) PROVE Waits(d)' \/ d \in waiting[n][i]
    <3>1. PICK m, j : m = d.edge.to /\ j \in DOMAIN waiting[m] /\ d \in waiting[m][j]
      BY <2>4 DEF Waits
    <3>2. CASE m = n /\ j = i
      BY <3>1, <3>2
    <3>3. CASE ~(m = n /\ j = i)
      <4>1. j \in DOMAIN waiting'[m] /\ waiting'[m][j] = waiting[m][j]
        BY <2>1, <3>1, <3>3
      <4> QED
        BY <3>1, <4>1 DEF Waits
    <3> QED
      BY <3>2, <3>3
  <2> QED
    BY <1>1, <1>9, <2>0, <2>3, <2>4 DEF Somewhere
<1>10. ASSUME NEW e \in pending, AddLast(e) PROVE Somewhere(d)'
  <2>0. PICK n, i : n = e.edge.to /\ i = WaitingIndex(e)
    OBVIOUS
  <2>1. /\ n \in Nodes /\ i \in DOMAIN waiting[n]
        /\ Gathered(e) = {e} \cup waiting[n][i]
    BY <1>10, <2>0, LastIsOld
  <2>2. /\ TakeOut(n, i) /\ Unshift(n, {e} \cup waiting[n][i])
        /\ pending' = pending \ {e} /\ dropped' = dropped /\ phase # "node"
    BY <1>10, <2>0, <2>1 DEF AddLast, NextDelivery
  <2>3. {e} \in SUBSET Delivery
    BY DEF RestOK
  <2> QED
    BY <1>9, <2>1, <2>2, <2>3
<1>11. ASSUME NEW k \in DOMAIN keyed, TakeWaiting(k) PROVE Somewhere(d)'
  <2>0. PICK n, i : n = keyed[k] /\ i = Earliest(DOMAIN waiting[n])
    OBVIOUS
  <2>1. n \in Nodes /\ i \in DOMAIN waiting[n]
    BY <2>0, TurnOK
  <2>2. /\ TakeOut(n, i) /\ Unshift(n, {} \cup waiting[n][i])
        /\ pending' = pending \ {} /\ dropped' = dropped /\ phase # "node"
    BY <1>11, <2>0 DEF TakeWaiting, AfterNode
  <2>3. {} \in SUBSET Delivery
    OBVIOUS
  <2> QED
    BY <1>9, <2>1, <2>2, <2>3
<1>12. ASSUME NEW e \in pending, AddToWaiting(e) PROVE Somewhere(d)'
  <2>0. PICK n, x : n = e.edge.to /\ x = WaitingIndex(e)
    OBVIOUS
  <2>1. /\ stack' = stack /\ dropped' = dropped /\ pending' = pending \ {e}
        /\ phase = "adding" /\ n \in Nodes
    BY <1>12, <2>0, FlowFacts DEF AddToWaiting, NextDelivery, RestOK
  <2>2. /\ \A m \in Nodes \ {n} : waiting'[m] = waiting[m]
        /\ DOMAIN waiting'[n] = DOMAIN waiting[n] \cup {x}
        /\ waiting'[n][x] = {e} /\ x \notin DOMAIN waiting[n]
        /\ \A k \in DOMAIN waiting[n] \ {x} : waiting'[n][k] = waiting[n][k]
    BY <1>12, <2>0, AddToWaitingOK, IndexIsFree
  <2>3. ASSUME Waits(d) PROVE Waits(d)'
    <3>1. PICK m, j : m = d.edge.to /\ j \in DOMAIN waiting[m] /\ d \in waiting[m][j]
      BY <2>3 DEF Waits
    <3>2. j \in DOMAIN waiting'[m] /\ waiting'[m][j] = waiting[m][j]
      BY <2>2, <3>1
    <3> QED
      BY <3>1, <3>2 DEF Waits
  <2>4. ASSUME d = e PROVE Waits(d)'
    BY <2>0, <2>2, <2>4 DEF Waits
  <2> QED
    BY <1>1, <1>2, <2>1, <2>3, <2>4 DEF Somewhere
<1>13. CASE Resume
  <2>1. stack \in Seq(Entry) /\ stack' = [stack EXCEPT ![1].disabled = TRUE]
    BY <1>13 DEF Resume, RestOK
  <2>2. DOMAIN stack' = DOMAIN stack /\ \A k \in DOMAIN stack : stack'[k].got = stack[k].got
    BY <2>1, DisableOK
  <2>3. OnStack(d) => OnStack(d)'
    BY <2>2 DEF OnStack
  <2> QED
    BY <1>1, <1>2, <1>13, <2>3 DEF Resume, ForgetRun, Somewhere
<1>14. CASE EndLoop \/ Cancel \/ GoOn \/ Retry \/ UNCHANGED engineVars
  BY <1>1, <1>2, <1>14 DEF EndLoop, EndWith, Cancel, GoOn, AfterNode, Retry, ForgetRun,
                            engineVars, Somewhere
<1> QED
  BY <1>3, <1>4, <1>5, <1>6, <1>7, <1>8, <1>10, <1>11, <1>12, <1>13, <1>14 DEF EngineNext

\* Nothing is lost, and what that rests on, while few deliveries come.
Kept == FewSent => Second /\ \A d \in Made : Somewhere(d)

\* As long as no node has more than two inputs and no input gets data from three
\* runs, whatever a run sent is in one place, and in one only: it is not lost
\* when its index is the number of entries, nor when nodes fail, wait and are
\* run again.
THEOREM EachInOnePlaceHolds == EngineSpec => [](FewSent => EachInOnePlace)
<1> DEFINE Inv == /\ WaitingOK /\ RestOK /\ Addressed /\ LastRun /\ Apart
                  /\ Joins /\ Sending /\ StackFor /\ Kept
<1>1. EngineInit => Inv
  <2> SUFFICES ASSUME EngineInit PROVE Joins /\ Sending /\ StackFor /\ Kept
    BY InitType, InitApart
  <2>1. /\ phase = "loop" /\ pending = {} /\ current.got = {}
        /\ \A k \in DOMAIN stack : stack[k].got = {}
        /\ \A n \in Nodes : DOMAIN waiting[n] = {} /\ DOMAIN runs[n] = {}
    BY DEF EngineInit
  <2>2. Joins /\ Sending /\ StackFor /\ Second
    BY <2>1 DEF Joins, Sending, StackFor, Second
  <2>3. Made = {}
    BY <2>1, InitType, MadeIs, FlowFacts DEF SentBy, Succeeded, RestOK
  <2> QED
    BY <2>2, <2>3 DEF Kept
<1>2. Inv /\ [EngineNext]_engineVars => Inv'
  <2> SUFFICES ASSUME Inv, [EngineNext]_engineVars PROVE Inv'
    OBVIOUS
  <2>1. /\ WaitingOK' /\ RestOK' /\ Addressed' /\ LastRun' /\ Apart' /\ Joins'
        /\ Sending' /\ StackFor'
    BY NextType, AddressedKept, LastRunKept, ApartKept, JoinsKept, SendingKept, StackForKept
  <2>2. ASSUME FewSent' PROVE Second' /\ \A d \in Made' : Somewhere(d)'
    <3>1. FewSent /\ Second /\ \A d \in Made : Somewhere(d)
      BY <2>2, FewBefore DEF Kept
    <3>2. Second'
      BY <3>1, SecondKept
    <3>3. ASSUME NEW d \in Made PROVE Somewhere(d)'
      <4>1. d.edge.to \in Nodes
        BY <3>3, MadeIs, FlowFacts DEF SentBy, RestOK
      <4> QED
        BY <3>1, <3>3, <4>1, SomewhereKept
    <3>4. ASSUME NEW d \in Made' \ Made PROVE Somewhere(d)'
      <4>1. PICK outs \in SUBSET Outputs(current.node) : Succeed(outs)
        BY <3>4, MadeGrows
      <4>2. d \in pending'
        BY <3>4, <4>1, SucceedSends
      <4> QED
        BY <4>2 DEF Somewhere
    <3> QED
      BY <3>2, <3>3, <3>4
  <2> QED
    BY <2>1, <2>2 DEF Kept
<1>3. Inv => (FewSent => EachInOnePlace)
  BY SomewhereIsPlaces, ApartIsNothingDoubled DEF Kept, EachInOnePlace, NothingLost
<1> QED
  BY <1>1, <1>2, <1>3, PTL DEF EngineSpec
===============================================================================

---------------------------- MODULE WorkflowEngine ----------------------------
(***************************************************************************)
(* The execution of one workflow: processRunExecutionData and              *)
(* addNodeToBeExecuted of                                                  *)
(* packages/core/src/execution-engine/workflow-execute.ts, for workflows   *)
(* with execution order v1.                                                *)
(*                                                                         *)
(* A stack holds the nodes to run with their input data.  A node that ran  *)
(* hands the data of its outputs to its children: a child with one input   *)
(* goes on the stack; one with several waits, in `waitingExecution`, until *)
(* each of its inputs has data.  When the stack is empty, nodes that can   *)
(* do without some of their inputs are taken out of waiting one by one.    *)
(*                                                                         *)
(* Data is abstracted to where it comes from: a delivery is what one run   *)
(* of a node sent over one edge, and is never empty, for the code hands on *)
(* nothing else in this order (2036-2040).  What a node outputs is any     *)
(* subset of its outputs, the outcome of all its tries and of              *)
(* continueOnFail.  Requests of AI agents to the engine are left out.      *)
(***************************************************************************)
EXTENDS Naturals, FiniteSets, Sequences

CONSTANTS
  Flows,      \* the workflows
  Nobody,     \* no node
  MaxRuns,    \* after so many runs a node's outputs are empty
  MaxUpsets   \* how many failures, waits and cancellations there may be

(***************************************************************************)
(* A workflow is a record:                                                 *)
(*   nodes, trigger                                                        *)
(*   edges     connections [from, out, to, in], of type main               *)
(*   height    each node's place on the canvas, from the top left          *)
(*   needs     requiredInputs: with how many inputs each node can do, 0    *)
(*             when its type does not say                                  *)
(*   goal      destinationNode, or Nobody                                  *)
(*   filter    runNodeFilter: the nodes that may run                       *)
(*   mute      the nodes that may return null instead of items             *)
(*   single    the nodes that send on one output at a time, as loops do    *)
(***************************************************************************)
Edges(nodes) == [from : nodes, out : Nat, to : nodes, in : Nat]

ASSUME EngineAssumption ==
  /\ MaxRuns \in Nat \ {0}
  /\ MaxUpsets \in Nat
  /\ \A f \in Flows :
       /\ f.edges \subseteq Edges(f.nodes) /\ IsFiniteSet(f.edges)
       /\ f.trigger \in f.nodes
       /\ f.height \in [f.nodes -> Nat]
       /\ f.needs \in [f.nodes -> Nat]
       /\ f.filter \subseteq f.nodes
       /\ Nobody \notin f.nodes

VARIABLES
  flow,      \* the workflow
  phase,     \* where processRunExecutionData is
  stack,     \* nodeExecutionStack
  current,   \* executionData, the entry the node is run with
  pending,   \* nodesToAdd, what the node that ran has yet to deliver
  waiting,   \* waitingExecution: deliveries by node and index
  keyed,     \* the keys of waitingExecution, in order of insertion
  runs,      \* runData: the runs of each node
  dropped,   \* what was delivered to a node that was passed over
  canceled,  \* whether `status` is canceled
  fate,      \* the outcome
  upsets     \* how many failures, waits and cancellations there were

engineVars == <<flow, phase, stack, current, pending, waiting, keyed, runs,
                dropped, canceled, fate, upsets>>

Nodes == flow.nodes
Outputs(n) == {e.out : e \in {x \in flow.edges : x.from = n}}
InputsUsed(n) == {e.in : e \in {x \in flow.edges : x.to = n}}

\* connectionsByDestinationNode[n].main is as long as the highest input used.
Inputs(n) == UNION {0 .. j : j \in InputsUsed(n)}

Parents(S) == {e.from : e \in {x \in flow.edges : x.to \in S}}

\* getParentNodes: all ancestors, without the node itself.
Ancestors(n) ==
  {a \in Nodes \ {n} : \A S \in SUBSET Nodes :
                         n \in S /\ Parents(S) \subseteq S => a \in S}

Delivery == [edge : flow.edges, run : 1 .. MaxRuns]
Entry == [node : Nodes, got : SUBSET Delivery, disabled : BOOLEAN]
Run == [got : SUBSET Delivery, outs : SUBSET Nat,
        status : {"success", "error", "waiting"}]
Filled(got) == {d.edge.in : d \in got}

\* Functions with finitely many indices, as objects with numeric keys are.
With(f, k, v) == [i \in DOMAIN f \cup {k} |-> IF i = k THEN v ELSE f[i]]
Without(f, k) == [i \in DOMAIN f \ {k} |-> f[i]]
RemoveAt(s, i) == [k \in 1 .. Len(s) - 1 |-> IF k < i THEN s[k] ELSE s[k + 1]]
Earliest(S) == CHOOSE i \in S : \A j \in S : i <= j

EngineInit ==
  /\ flow \in Flows
  /\ phase = "loop"
  /\ current = [node |-> flow.trigger, got |-> {}, disabled |-> FALSE]
  /\ stack = <<current>>
  /\ pending = {}
  /\ waiting = [n \in Nodes |-> <<>>]
  /\ keyed = <<>>
  /\ runs = [n \in Nodes |-> <<>>]
  /\ dropped = {}
  /\ canceled = FALSE
  /\ fate = "running"
  /\ upsets = 0

(***************************************************************************)
(* The loop.  A node outside of the filter is passed over.                 *)
(***************************************************************************)
Shift ==
  /\ phase = "loop"
  /\ stack # <<>>
  /\ ~canceled
  /\ current' = Head(stack)
  /\ stack' = Tail(stack)

RunNode ==
  /\ Shift
  /\ current'.node \in flow.filter
  /\ phase' = "node"
  /\ UNCHANGED <<flow, pending, waiting, keyed, runs, dropped, canceled, fate,
                 upsets>>

SkipNode ==
  /\ Shift
  /\ current'.node \notin flow.filter
  /\ dropped' = dropped \cup current'.got
  /\ UNCHANGED <<flow, phase, pending, waiting, keyed, runs, canceled, fate,
                 upsets>>

EndWith(outcome) ==
  /\ phase' = "over"
  /\ fate' = IF canceled THEN "canceled" ELSE outcome

EndLoop ==
  /\ phase = "loop"
  /\ stack = <<>> \/ canceled
  /\ EndWith("success")
  /\ UNCHANGED <<flow, stack, current, pending, waiting, keyed, runs, dropped,
                 canceled, upsets>>

\* onCancel, while a node or a hook is awaited, and the timeout at the loop's
\* head.
Cancel ==
  /\ \/ phase = "node"
     \/ phase = "adding" /\ pending = {}
     \/ phase = "loop" /\ stack # <<>>
  /\ ~canceled
  /\ upsets < MaxUpsets
  /\ upsets' = upsets + 1
  /\ canceled' = TRUE
  /\ UNCHANGED <<flow, phase, stack, current, pending, waiting, keyed, runs,
                 dropped, fate>>

(***************************************************************************)
(* What the node's run comes to.                                           *)
(***************************************************************************)
Record(status, outs) ==
  runs' = [runs EXCEPT ![current.node] =
             Append(@, [got |-> current.got, outs |-> outs, status |-> status])]

\* An entry goes back on the stack, to be run once more, and the loop is left.
PutBack ==
  /\ stack' = <<current>> \o stack
  /\ ~current.disabled
  /\ upsets < MaxUpsets
  /\ upsets' = upsets + 1
  /\ UNCHANGED <<flow, current, pending, waiting, keyed, dropped, canceled>>

Fail ==
  /\ phase = "node"
  /\ Record("error", {})
  /\ PutBack
  /\ EndWith("error")

Wait ==
  /\ phase = "node"
  /\ Record("waiting", {})
  /\ PutBack
  /\ EndWith("waiting")

ReturnNull ==
  /\ phase = "node"
  /\ current.node \in flow.mute
  /\ ~current.disabled
  /\ dropped' = dropped \cup current.got
  /\ phase' = "loop"
  /\ UNCHANGED <<flow, stack, current, pending, waiting, keyed, runs, canceled,
                 fate, upsets>>

\* A node that was disabled by handleWaitingState passes on its first input.
PassedOn ==
  IF current.got = {} \/ 0 \in Filled(current.got)
    THEN Outputs(current.node) \cap {0}
    ELSE {}

Sent(n, i, outs) ==
  {[edge |-> e, run |-> i] : e \in {x \in flow.edges : x.from = n /\ x.out \in outs}}

Succeed(outs) ==
  /\ phase = "node"
  /\ outs \subseteq Outputs(current.node)
  /\ current.disabled => outs = PassedOn
  /\ current.node \in flow.single => Cardinality(outs) <= 1
  /\ Len(runs[current.node]) < MaxRuns \/ outs = {}
  /\ Record("success", outs)
  /\ IF current.node = flow.goal
       THEN phase' = "loop" /\ pending' = {}
       ELSE /\ phase' = "adding"
            /\ pending' = Sent(current.node, Len(runs[current.node]) + 1, outs)
  /\ UNCHANGED <<flow, stack, current, waiting, keyed, dropped, canceled, fate,
                 upsets>>
(***************************************************************************)
(* addNodeToBeExecuted, once for each delivery.  The lowest child comes    *)
(* first, so that the top left one ends on top of the stack.               *)
(***************************************************************************)
Before(d, e) ==
  LET x == d.edge  y == e.edge IN
  \/ flow.height[x.to] > flow.height[y.to]
  \/ /\ flow.height[x.to] = flow.height[y.to]
     /\ x.out < y.out \/ (x.out = y.out /\ x.in < y.in)

NextDelivery(d) ==
  /\ phase = "adding"
  /\ d \in pending
  /\ \A e \in pending : ~Before(e, d)
  /\ pending' = pending \ {d}
  /\ UNCHANGED <<flow, phase, current, runs, dropped, canceled, fate, upsets>>

Unshift(n, got) ==
  stack' = <<[node |-> n, got |-> got, disabled |-> FALSE]>> \o stack

AddToStack(d) ==
  /\ NextDelivery(d)
  /\ Cardinality(Inputs(d.edge.to)) <= 1
  /\ Unshift(d.edge.to, {d})
  /\ UNCHANGED <<waiting, keyed>>

\* The entries that lack the delivery's input, and the index it is put at.
Lacking(d) ==
  {i \in DOMAIN waiting[d.edge.to] : d.edge.in \notin Filled(waiting[d.edge.to][i])}

WaitingIndex(d) ==
  IF Lacking(d) # {} THEN Earliest(Lacking(d))
                     ELSE Cardinality(DOMAIN waiting[d.edge.to])

Gathered(d) ==
  {d} \cup IF Lacking(d) # {} THEN waiting[d.edge.to][WaitingIndex(d)] ELSE {}

\* SLIP: the key of a node stays when its last entry leaves.
TakeOutKeepingKey(n, i) ==
  /\ waiting' = [waiting EXCEPT ![n] = Without(@, i)]
  /\ keyed' = keyed

\* An entry leaves, and its node's key with the last one.
TakeOut(n, i) ==
  /\ waiting' = [waiting EXCEPT ![n] = Without(@, i)]
  /\ IF DOMAIN waiting[n] = {i}
       THEN \E k \in DOMAIN keyed : keyed[k] = n /\ keyed' = RemoveAt(keyed, k)
       ELSE keyed' = keyed

\* SLIP: the entry goes on the stack and stays among those that wait.
AddLastKeepingEntry(d) ==
  /\ NextDelivery(d)
  /\ Cardinality(Inputs(d.edge.to)) > 1
  /\ Filled(Gathered(d)) = Inputs(d.edge.to)
  /\ Unshift(d.edge.to, Gathered(d))
  /\ UNCHANGED <<waiting, keyed>>

AddLast(d) ==
  /\ NextDelivery(d)
  /\ Cardinality(Inputs(d.edge.to)) > 1
  /\ Filled(Gathered(d)) = Inputs(d.edge.to)
  /\ Unshift(d.edge.to, Gathered(d))
  /\ TakeOut(d.edge.to, WaitingIndex(d))

AddToWaiting(d) ==
  /\ NextDelivery(d)
  /\ Cardinality(Inputs(d.edge.to)) > 1
  /\ Filled(Gathered(d)) # Inputs(d.edge.to)
  /\ waiting' = [waiting EXCEPT ![d.edge.to] =
                   With(@, WaitingIndex(d), Gathered(d))]
  /\ keyed' = IF DOMAIN waiting[d.edge.to] = {} THEN Append(keyed, d.edge.to)
                                                ELSE keyed
  /\ UNCHANGED stack

(***************************************************************************)
(* After the node's hook: when the stack is empty, the first waiting node  *)
(* that can do without the inputs it lacks is run.                         *)
(***************************************************************************)
WaitingNodes == {n \in Nodes : DOMAIN waiting[n] # {}}

\* SLIP: one input more than required must have data.
MayGoOnWithMore(n) ==
  LET first == waiting[n][Earliest(DOMAIN waiting[n])] IN
  /\ flow.needs[n] # Cardinality(Inputs(n))
  /\ Ancestors(n) \cap WaitingNodes = {}
  /\ Cardinality(Filled(first)) > flow.needs[n]

MayGoOn(n) ==
  LET first == waiting[n][Earliest(DOMAIN waiting[n])] IN
  /\ flow.needs[n] # Cardinality(Inputs(n))
  /\ Ancestors(n) \cap WaitingNodes = {}
  /\ Cardinality(Filled(first)) >= flow.needs[n]

AfterNode ==
  /\ phase = "adding"
  /\ pending = {}
  /\ phase' = "loop"
  /\ UNCHANGED <<flow, current, pending, runs, dropped, canceled, fate, upsets>>

GoOn ==
  /\ AfterNode
  /\ stack # <<>> \/ \A k \in DOMAIN keyed : ~MayGoOn(keyed[k])
  /\ UNCHANGED <<stack, waiting, keyed>>

TakeWaiting(k) ==
  LET n == keyed[k]
      i == Earliest(DOMAIN waiting[n])
  IN
  /\ AfterNode
  /\ stack = <<>>
  /\ MayGoOn(n)
  /\ \A l \in 1 .. k - 1 : ~MayGoOn(keyed[l])
  /\ Unshift(n, waiting[n][i])
  /\ TakeOut(n, i)

(***************************************************************************)
(* An execution that waits is run again from the node that made it wait,   *)
(* disabled (handleWaitingState); one that failed may be retried.          *)
(***************************************************************************)
ForgetRun ==
  /\ runs' = [runs EXCEPT ![current.node] = SubSeq(@, 1, Len(@) - 1)]
  /\ phase' = "loop"
  /\ fate' = "running"
  /\ UNCHANGED <<flow, current, pending, waiting, keyed, dropped, canceled, upsets>>

Resume ==
  /\ phase = "over"
  /\ fate = "waiting"
  /\ stack' = [stack EXCEPT ![1].disabled = TRUE]
  /\ ForgetRun

Retry ==
  /\ phase = "over"
  /\ fate = "error"
  /\ ForgetRun
  /\ UNCHANGED stack

EngineNext ==
  \/ RunNode
  \/ SkipNode
  \/ EndLoop
  \/ Cancel
  \/ Fail
  \/ Wait
  \/ ReturnNull
  \/ \E outs \in SUBSET Outputs(current.node) : Succeed(outs)
  \/ \E d \in pending : AddToStack(d) \/ AddLast(d) \/ AddToWaiting(d)
  \/ GoOn
  \/ \E k \in DOMAIN keyed : TakeWaiting(k)
  \/ Resume
  \/ Retry

EngineSpec == EngineInit /\ [][EngineNext]_engineVars

-------------------------------------------------------------------------------
(***************************************************************************)
(* Properties.                                                             *)
(***************************************************************************)

\* The types of the variables.  The nodes with a key in waitingExecution are
\* those with entries there, each once.
EngineTypeOK ==
  /\ flow \in Flows
  /\ phase \in {"loop", "node", "adding", "over"}
  /\ stack \in Seq(Entry)
  /\ current \in Entry
  /\ pending \subseteq Delivery
  /\ DOMAIN waiting = Nodes
  /\ \A n \in Nodes : /\ DOMAIN waiting[n] \subseteq Nat
                      /\ \A i \in DOMAIN waiting[n] : waiting[n][i] \subseteq Delivery
  /\ keyed \in Seq(Nodes)
  /\ {keyed[k] : k \in DOMAIN keyed} = WaitingNodes
  /\ \A k, l \in DOMAIN keyed : keyed[k] = keyed[l] => k = l
  /\ runs \in [Nodes -> Seq(Run)]
  /\ dropped \subseteq Delivery
  /\ canceled \in BOOLEAN
  /\ fate \in {"running", "success", "error", "waiting", "canceled"}
  /\ upsets \in 0 .. MaxUpsets

Succeeded(n) == {i \in DOMAIN runs[n] : runs[n][i].status = "success"}

\* What the runs have sent.  The goal's children get nothing.
Made ==
  UNION {UNION {Sent(n, i, runs[n][i].outs) : i \in Succeeded(n)} :
           n \in Nodes \ {flow.goal}}

\* The places where a delivery can be.
Places(d) ==
  LET n == d.edge.to IN
    {<<"stack", k>> : k \in {x \in DOMAIN stack : d \in stack[x].got}}
      \cup {<<"waiting", i>> : i \in {x \in DOMAIN waiting[n] : d \in waiting[n][x]}}
      \cup {<<"run", i>> : i \in {x \in Succeeded(n) : d \in runs[n][x].got}}
      \cup {<<"node", 0>> : x \in {y \in {"node"} : phase = y /\ d \in current.got}}
      \cup {<<"pending", 0>> : x \in {d} \cap pending}
      \cup {<<"dropped", 0>> : x \in {d} \cap dropped}

\* Nothing a run sent is lost.  workflow-execute.ts:472 says of the case in which
\* a new entry is made for data that comes in: "There is currently no node
\* waiting that does not already have data for the given input, so create a new
\* entry".  Its index is the number of entries, and an older one may have it.
NothingLost == \A d \in Made : Places(d) # {}

\* Nothing is used twice or in two places at once, for all workflows.
NothingDoubled == \A d \in Delivery : \A p, q \in Places(d) : p = q

\* Whatever a run sent to another node is in one place: it waits there, is on
\* the stack or has been used by one run that succeeded, also when nodes fail
\* and are retried, or wait and are resumed.  Of NothingLost this holds as long
\* as no node has more than two inputs and no input gets data from three runs.
EachInOnePlace == NothingLost /\ NothingDoubled

SameInput(d, e) == d.edge.to = e.edge.to /\ d.edge.in = e.edge.in

FewSent ==
  /\ \A n \in Nodes : Inputs(n) \subseteq {0, 1}
  /\ \A c, d, e \in Made :
       SameInput(c, d) /\ SameInput(d, e) => c = d \/ d = e \/ c = e

\* Nodes that wait do not wait for each other for ever: when all nodes may run
\* and each can do with one of its inputs, none is left waiting at the end.
Unhindered ==
  LET joins == {n \in Nodes : Cardinality(Inputs(n)) > 1} IN
  /\ flow.filter = Nodes
  /\ flow.goal = Nobody
  /\ flow.mute = {}
  /\ \A n \in joins : flow.needs[n] <= 1
  /\ \A m, n \in joins : ~(m \in Ancestors(n) /\ n \in Ancestors(m))

NobodyLeftWaiting == fate = "success" /\ Unhindered => WaitingNodes = {}
===============================================================================

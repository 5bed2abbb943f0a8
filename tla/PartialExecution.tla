--------------------------- MODULE PartialExecution ---------------------------
(***************************************************************************)
(* Running a workflow up to one node with the data of an earlier run:      *)
(* runPartialWorkflow2 of                                                  *)
(* packages/core/src/execution-engine/workflow-execute.ts and the          *)
(* functions of partial-execution-utils/ it calls, one action for each of  *)
(* its numbered steps.  Partial runs of tools (rewireGraph) are left out.  *)
(*                                                                         *)
(* Nodes are numbers and sort by name as numbers do.  A graph lists its    *)
(* nodes and its connections in the order of insertion of the maps of      *)
(* DirectedGraph, for the searches depend on it.  Of a run of a node all   *)
(* that is kept is on which outputs it had items; of items, where they are *)
(* from.  The workflow may have been edited since the run that left data.  *)
(*                                                                         *)
(* Loops of the code are folds, and its recursive functions are functions  *)
(* of how deep they may still go, all over functions and not operators, so *)
(* that lemmas about them can be stated.                                   *)
(***************************************************************************)
EXTENDS Integers, Sequences, FiniteSets, SequencesExt, FiniteSetsExt

CONSTANT Families  \* of partial runs a user may ask for

(***************************************************************************)
(* A request is a record:                                                  *)
(*   nodes, conns  the workflow: sequences of nodes and of connections     *)
(*                 [from, out, type, in, to], the type "main" or "ai"      *)
(*   triggers      the trigger nodes                                       *)
(*   loops         the nodes of type splitInBatches                        *)
(*   disabled      the disabled nodes                                      *)
(*   runData       for the nodes that ran, the outputs with items, by run  *)
(*   pinned        the nodes with pinned data                              *)
(*   dirty         dirtyNodeNames, what the user changed since             *)
(*   goal          the destination node                                    *)
(* A family has for each of these the set of values it may take.           *)
(***************************************************************************)
RequestsOf(f) ==
  [nodes : f.nodes, conns : f.conns, triggers : f.triggers, loops : f.loops,
   disabled : f.disabled, runData : f.runData, pinned : f.pinned, dirty : f.dirty,
   goal : f.goal]

Conns == [from : Nat, out : Nat, type : {"main", "ai"}, in : Nat, to : Nat]

DirectedGraphs == [nodes : Seq(Nat), conns : Seq(Conns)]

\* The editor offers no run up to a disabled node.  A sub-node has no input or
\* output of type main, and no data can be pinned to it.
ASSUME PartialAssumption ==
  \A f \in Families :
    /\ \A nodes \in f.nodes :
         /\ nodes \in Seq(Nat)
         /\ \A conns \in f.conns :
              /\ conns \in Seq(Conns)
              /\ \A c \in ToSet(conns) : {c.from, c.to} \subseteq ToSet(nodes)
         /\ UNION (f.triggers \cup f.loops \cup f.disabled) \subseteq ToSet(nodes)
         /\ f.goal \subseteq ToSet(nodes)
    /\ f.goal \cap UNION f.disabled = {}
    /\ \A conns \in f.conns : \A c, d \in ToSet(conns) :
         c.type = "ai" =>
           c.from \notin UNION f.pinned /\ (d.type = "main" => c.from \notin {d.from, d.to})
    /\ \A data \in f.runData : \A n \in DOMAIN data :
         data[n] \in Seq(SUBSET Nat) /\ data[n] # <<>>

VARIABLES
  request,     \* what runPartialWorkflow2 is called with
  step,        \* the step it comes to next; "run", "refused" or "failed"
  trigger,     \* the node to search from, or None
  graph,       \* the graph, then the part of it that leads to the goal
  runData,     \* the data that is kept
  startNodes,  \* the start nodes, in order of insertion
  stack,       \* nodeExecutionStack
  waiting      \* waitingExecution: entries of inputs, in order of their index

vars == <<request, step, trigger, graph, runData, startNodes, stack, waiting>>

None == -1

----------------------------------------------------------------------------
(***************************************************************************)
(* Folds and closures                                                      *)
(***************************************************************************)
\* What a loop over s has gathered in the end, when f[gathered][x] is what it
\* makes of x.
Fold(f, base, s) ==
  LET after[k \in 0 .. Len(s)] == IF k = 0 THEN base ELSE f[after[k - 1]][s[k]]
  IN  after[Len(s)]

\* The elements of s that are in S, in order.
Only(s, S) ==
  Fold([r \in Seq(S) |-> [x \in ToSet(s) |-> IF x \in S THEN Append(r, x) ELSE r]], <<>>, s)

Add(s, x) == IF Contains(s, x) THEN s ELSE Append(s, x)

AddAll(s, t) ==
  Fold([r \in Seq(ToSet(s) \cup ToSet(t)) |-> [x \in ToSet(t) |-> Add(r, x)]], s, t)

\* N and what pairs of R lead to from there.
ReachedBy(R, N) ==
  LET Beyond(M) == {p[2] : p \in {q \in R : q[1] \in M}}
      further == [M \in SUBSET (N \cup {p[2] : p \in R}) |-> M \cup Beyond(M)]
      after[k \in Nat] == IF k = 0 THEN N ELSE further[after[k - 1]]
  IN  after[Cardinality(R)]

----------------------------------------------------------------------------
(***************************************************************************)
(* DirectedGraph                                                           *)
(***************************************************************************)
Nodes(g) == ToSet(g.nodes)

Main(c) == c.type = "main"

ChildConns(g, n) == Only(g.conns, {c \in ToSet(g.conns) : c.from = n})

ParentConns(g, n) == Only(g.conns, {c \in ToSet(g.conns) : c.to = n})

Heads(conns) == [i \in DOMAIN conns |-> conns[i].to]

\* The nodes of N and those downstream, or upstream, of them over connections.
Downstream(conns, N) == ReachedBy({<<c.from, c.to>> : c \in conns}, N)

Upstream(conns, N) == ReachedBy({<<c.to, c.from>> : c \in conns}, N)

\* getChildren: n is among them only when it is on a cycle.
Children(g, n) ==
  Downstream(ToSet(g.conns), {c.to : c \in {d \in ToSet(g.conns) : d.from = n}})

\* getParentConnections, of several nodes
ConnsAbove(g, N) ==
  LET upstream == Upstream(ToSet(g.conns), N)
  IN  {c \in ToSet(g.conns) : c.to \in upstream}

\* What removeNode connects instead: each main parent to each main child.
Bridges(g, n) ==
  LET parents  == Only(g.conns, {c \in ToSet(g.conns) : Main(c) /\ c.to = n})
      children == Only(g.conns, {c \in ToSet(g.conns) : Main(c) /\ c.from = n})
      Join(c, d) == [c EXCEPT !.to = d.to, !.in = d.in]
  IN  FlattenSeq([i \in DOMAIN parents |->
                    [j \in DOMAIN children |-> Join(parents[i], children[j])]])

\* SLIP: the connections that leave the node stay.
RemoveNodeOnly(g, n) ==
  [nodes |-> Only(g.nodes, Nodes(g) \ {n}),
   conns |-> AddAll(Only(g.conns, {c \in ToSet(g.conns) : n # c.to}), Bridges(g, n))]

\* removeNode with reconnectConnections
RemoveNode(g, n) ==
  [nodes |-> Only(g.nodes, Nodes(g) \ {n}),
   conns |-> AddAll(Only(g.conns, {c \in ToSet(g.conns) : n \notin {c.from, c.to}}),
                    Bridges(g, n))]

\* How deep a search can go: it enters no node twice.
Depth(g) == Len(g.conns) + 2

\* depthFirstSearch: the nodes in the order in which it comes to them.
Visit(g, deeper) ==
  [seen \in Seq(Nat) |-> [n \in Nat |->
     IF Contains(seen, n) THEN seen
     ELSE Fold(deeper, Append(seen, n), Heads(ChildConns(g, n)))]]

DepthFirst(g, n) ==
  LET visit[k \in Nat] ==
        IF k = 0 THEN [seen \in Seq(Nat) |-> [m \in Nat |-> seen]] ELSE Visit(g, visit[k - 1])
  IN  visit[Depth(g)][<<>>][n]

\* What getStronglyConnectedComponents keeps: the nodes in the order of their
\* numbers, their low links, the stack and the components that are complete.
Searches ==
  [order : Seq(Nat), low : Seq(Nat), stack : Seq(Nat), found : Seq(SUBSET Nat)]

NumberOf(t, n) == CHOOSE i \in DOMAIN t.order : t.order[i] = n

LowLink(t, n) == t.low[NumberOf(t, n)]

\* What a node, whose number is id, takes over from a child that was followed.
Lower(t, id, m) ==
  IF Contains(t.stack, m) THEN [t EXCEPT !.low[id] = Min({t.low[id], LowLink(t, m)})] ELSE t

\* Takes from the stack the nodes whose low link is id, if it is the node's own.
Pop(t, id) ==
  LET others == {i \in DOMAIN t.stack : LowLink(t, t.stack[i]) # id}
      rest   == IF others = {} THEN 0 ELSE Max(others)
      popped == {t.stack[i] : i \in rest + 1 .. Len(t.stack)}
  IN  IF t.low[id] # id \/ popped = {} THEN t
      ELSE [t EXCEPT !.stack = SubSeq(@, 1, rest), !.found = Append(@, popped)]

\* followNode
FollowNode(g, deeper) ==
  [t \in Searches |-> [n \in Nat |->
     LET id      == Len(t.order) + 1
         begun   == [t EXCEPT !.order = Append(@, n), !.low = Append(@, id),
                              !.stack = Append(@, n)]
         through == [s \in Searches |-> [m \in Nat |-> Lower(deeper[s][m], id, m)]]
     IN  IF Contains(t.order, n) THEN t
         ELSE Pop(Fold(through, begun, Heads(ChildConns(g, n))), id)]]

StronglyConnectedComponents(g) ==
  LET follow[k \in Nat] ==
        IF k = 0 THEN [t \in Searches |-> [n \in Nat |-> t]] ELSE FollowNode(g, follow[k - 1])
      nothing == [order |-> <<>>, low |-> <<>>, stack |-> <<>>, found |-> <<>>]
  IN  Fold(follow[Depth(g)], nothing, g.nodes).found

----------------------------------------------------------------------------
(***************************************************************************)
(* The functions of the steps                                              *)
(***************************************************************************)
FilterDisabledNodes(g, disabled) ==
  Fold([h \in DirectedGraphs |-> [n \in Nat |->
          IF n \in disabled THEN RemoveNode(h, n) ELSE h]], g, g.nodes)

\* findTriggerForPartialExecution, and the parent with data that stands in for
\* a trigger.  Which of several is first, as webhooks are, is left open.
ParentNodes(q) == Upstream({c \in ToSet(q.conns) : Main(c)}, {q.goal}) \ {q.goal}

StartingPoints(q) ==
  LET ran      == DOMAIN q.runData
      triggers == (q.triggers \cap ParentNodes(q)) \ q.disabled
      FirstOf(S, T) == IF S # {} THEN S ELSE T
  IN  IF q.goal \in q.triggers THEN {q.goal}
      ELSE FirstOf(triggers \cap ran,
             FirstOf(triggers \cap q.pinned,
               FirstOf(triggers, ParentNodes(q) \cap ran)))

\* newGraph of findSubgraph, and whether an assertion failed on the way.
Subgraphs == [nodes : Seq(Nat), conns : Seq(Conns), failed : BOOLEAN]

AddConn(h, c) == [h EXCEPT !.nodes = Add(Add(@, c.from), c.to), !.conns = Add(@, c)]

AddConns(h, conns) == Fold([r \in Subgraphs |-> [c \in Conns |-> AddConn(r, c)]], h, conns)

\* SLIP: a branch that ends in a loop is dropped.
AddBranchToTrigger(h, branch, n, root) ==
  IF n = root THEN AddConns([h EXCEPT !.nodes = Add(@, n)], branch) ELSE h

\* Keeps a branch that ends at n, the root or a node it went through before.
AddBranch(h, branch, n, root) ==
  AddConns(IF n = root THEN [h EXCEPT !.nodes = Add(@, n)] ELSE h, branch)

\* findSubgraphRecursive, from n upstream.  A branch is dropped at a node
\* without parents and at a second visit of the goal.
Search(g, goal, root, deeper) ==
  [branch \in Seq(Conns) |-> [h \in Subgraphs |-> [n \in Nat |->
     LET visited == \E i \in DOMAIN branch : branch[i].to = n
         parents == Only(g.conns, {c \in ToSet(g.conns) : Main(c) /\ c.to = n})
         above   == [r \in Subgraphs |-> [c \in Conns |->
                       deeper[Append(branch, c)][r][c.from]]]
     IN  IF n # root /\ n \notin Nodes(g) THEN [h EXCEPT !.failed = TRUE]
         ELSE IF n # root /\ ~visited THEN Fold(above, h, parents)
         ELSE IF n # root /\ n = goal THEN h
         ELSE AddBranch(h, branch, n, root)]]]

FlowGraph(g, goal, root) ==
  LET search[k \in Nat] ==
        IF k = 0 THEN [branch \in Seq(Conns) |-> [h \in Subgraphs |-> [n \in Nat |-> h]]]
        ELSE Search(g, goal, root, search[k - 1])
      nothing == [nodes |-> <<>>, conns |-> <<>>, failed |-> FALSE]
  IN  search[Depth(g)][<<>>][nothing][goal]

\* Sub-nodes come back with all that is not of type main above a node, here in
\* the order of the graph.
FindSubgraph(g, goal, root) ==
  LET flow  == FlowGraph(g, goal, root)
      above == ConnsAbove(g, ToSet(flow.nodes))
  IN  [AddConns(flow, Only(g.conns, {c \in above : ~Main(c)}))
         EXCEPT !.failed = @ \/ \E c \in above : c.from \notin Nodes(g)]

\* cleanRunData: the data of the nodes, of their children, and of the
\* sub-nodes of everything above these.
CleanRunData(data, g, N) ==
  LET stale == N \cup UNION {Children(g, n) : n \in N}
      subs  == {c.from : c \in {d \in ConnsAbove(g, stale) : ~Main(d)}}
  IN  [n \in (DOMAIN data \cap Nodes(g)) \ (stale \cup subs) |-> data[n]]

IsDirty(n, data, pinned) == n \notin pinned /\ n \notin DOMAIN data

\* getIncomingDataFromAnyRun: the first run with items on the output, or 0.
FirstRun(data, n, out) ==
  IF n \in DOMAIN data THEN SelectInSeq(data[n], LAMBDA outs : out \in outs) ELSE 0

\* A loop that did not come to its end: no items on `done`, or, where there is
\* no loop, on the other output.  Pinned data is not looked at.
Unfinished(g, n, data) ==
  \/ n \notin DOMAIN data
  \/ (IF n \in Children(g, n) THEN 0 ELSE 1) \notin Last(data[n])

\* SLIP: pinned data is not looked at.
RanTo(c, data, pinned) == FirstRun(data, c.from, c.out) > 0

\* Whether the search for start nodes follows a connection.
Flows(c, data, pinned) == FirstRun(data, c.from, c.out) > 0 \/ c.from \in pinned

\* Where it ends.
Stops(g, q, data, n) ==
  \/ IsDirty(n, data, q.pinned)
  \/ n = q.goal
  \/ n \in q.loops /\ Unfinished(g, n, data)

\* findStartNodesRecursive
StartsFrom(g, q, data, deeper) ==
  [seen \in SUBSET Nat |-> [found \in Seq(Nat) |-> [n \in Nat |->
     LET followed == Only(g.conns, {c \in ToSet(g.conns) :
                                      c.from = n /\ Flows(c, data, q.pinned)})
     IN  IF Stops(g, q, data, n) THEN Add(found, n)
         ELSE IF n \in seen THEN found
         ELSE Fold(deeper[seen \cup {n}], found, Heads(followed))]]]

FindStartNodes(g, q, root, data) ==
  LET starts[k \in Nat] ==
        IF k = 0 THEN [seen \in SUBSET Nat |-> [found \in Seq(Nat) |-> [n \in Nat |-> found]]]
        ELSE StartsFrom(g, q, data, starts[k - 1])
  IN  starts[Depth(g)][{}][<<>>][root]

\* handleCycles: the components of start nodes, and the first node of each on
\* the way from the root.
CyclesOf(g, starts) ==
  LET components == StronglyConnectedComponents(g)
  IN  Only(components, {C \in ToSet(components) : C \cap ToSet(starts) # {}})

FirstNodes(g, C, root) == Only(DepthFirst(g, root), C)

HandleCycles(g, cycles, starts, root) ==
  LET Moved(s, n, C) == Add(Only(s, ToSet(s) \ {n}), Head(FirstNodes(g, C, root)))
      replace(n) == [s \in Seq(Nat) |-> [C \in ToSet(cycles) |->
                       IF n \in C THEN Moved(s, n, C) ELSE s]]
  IN  Fold([s \in Seq(Nat) |-> [n \in Nat |-> Fold(replace(n), s, cycles)]], starts, starts)

\* getSourceDataGroups.  By input, then by name; two outputs of one node into
\* one input are put in the order of the outputs.
Before(c, d) ==
  \/ c.in < d.in
  \/ c.in = d.in /\ c.from < d.from
  \/ c.in = d.in /\ c.from = d.from /\ c.out < d.out

\* A group takes one connection of each input from the lowest on, up to a gap;
\* one with data if there is any.
FirstGroup(with, without) ==
  LET inputs   == {c.in : c \in with \cup without}
      lowest   == Min(inputs)
      highest  == Max({i \in inputs : lowest .. i \subseteq inputs})
      Of(C, i) == {c \in C : c.in = i}
      First(C) == CHOOSE c \in C : \A d \in C \ {c} : Before(c, d)
      Pick(i)  == First(IF Of(with, i) # {} THEN Of(with, i) ELSE Of(without, i))
      conns    == [k \in 1 .. highest - lowest + 1 |-> Pick(lowest + k - 1)]
  IN  [complete |-> ToSet(conns) \subseteq with, conns |-> conns]

\* SLIP: what is left after the first group is forgotten.
OneGroup(with, without) ==
  IF with \cup without = {} THEN <<>> ELSE <<FirstGroup(with, without)>>

SplitIntoGroups(with, without) ==
  LET split[left \in SUBSET (with \cup without)] ==
        LET group == FirstGroup(with \cap left, without \cap left)
        IN  IF left = {} THEN <<>> ELSE <<group>> \o split[left \ ToSet(group.conns)]
  IN  split[with \cup without]

SourceDataGroups(g, n, data, pinned) ==
  LET conns == {c \in ToSet(g.conns) : c.to = n}
      with  == {c \in conns : ~IsDirty(c.from, data, pinned)}
  IN  SplitIntoGroups(with, {c \in conns \ with : Main(c)})

\* The items of a connection: those that are pinned (run 0) or the first that a
\* run left on its output, if any.
Items(c, data, pinned) ==
  LET run == IF c.from \in pinned THEN 0 ELSE FirstRun(data, c.from, c.out) IN
  IF c.from \in pinned \/ run > 0
  THEN <<[from |-> c.from, out |-> c.out, run |-> run]>> ELSE <<>>

EmptyItem == [from |-> None, out |-> 0, run |-> 0]

NoParents(g, n) == {c \in ToSet(g.conns) : Main(c) /\ c.to = n} = {}

\* recreateNodeExecutionStack.  A complete group is an entry of the stack, to
\* which items are pushed one after the other;
EntriesOf(g, n, data, pinned) ==
  LET groups   == SourceDataGroups(g, n, data, pinned)
      complete == Only(groups, {group \in ToSet(groups) : group.complete})
      Entry(conns) == [node |-> n, source |-> conns,
                       data |-> FlattenSeq([i \in DOMAIN conns |->
                                              Items(conns[i], data, pinned)])]
  IN  IF NoParents(g, n) THEN <<[node |-> n, source |-> <<>>, data |-> <<EmptyItem>>]>>
      ELSE [i \in DOMAIN complete |-> Entry(complete[i].conns)]

\* of another, items of runs wait at their input.  The runs that sources name
\* (previousNodeRun) are left out.
WaitingOf(g, n, data, pinned) ==
  LET groups     == SourceDataGroups(g, n, data, pinned)
      Ran(conns) == Only(conns, {c \in ToSet(conns) : FirstRun(data, c.from, c.out) > 0})
      part       == Only(groups, {group \in ToSet(groups) :
                                    ~group.complete /\ Ran(group.conns) # <<>>})
  IN  IF NoParents(g, n) THEN <<>>
      ELSE [i \in DOMAIN part |-> [node |-> n, source |-> Ran(part[i].conns)]]

RecreateNodeExecutionStack(g, starts, data, pinned) ==
  [stack   |-> FlattenSeq([i \in DOMAIN starts |-> EntriesOf(g, starts[i], data, pinned)]),
   waiting |-> FlattenSeq([i \in DOMAIN starts |-> WaitingOf(g, starts[i], data, pinned)])]

----------------------------------------------------------------------------
(***************************************************************************)
(* The steps of runPartialWorkflow2                                        *)
(***************************************************************************)
Init ==
  /\ \E f \in Families : request \in RequestsOf(f)
  /\ step = "trigger"
  /\ trigger = None
  /\ graph = [nodes |-> request.nodes, conns |-> request.conns]
  /\ runData = request.runData
  /\ startNodes = <<>>
  /\ stack = <<>>
  /\ waiting = <<>>

\* Comes to the next step, unless an assertion of the code failed.
GoOn(fails, next) == step' = IF fails THEN "failed" ELSE next

FindTrigger ==
  /\ step = "trigger"
  /\ IF StartingPoints(request) = {} THEN step' = "refused" /\ UNCHANGED trigger
     ELSE step' = "subgraph" /\ trigger' \in StartingPoints(request)
  /\ UNCHANGED <<request, graph, runData, startNodes, stack, waiting>>

Subgraph ==
  /\ step = "subgraph"
  /\ LET enabled == FilterDisabledNodes(graph, request.disabled)
         found   == FindSubgraph(enabled, request.goal, trigger)
     IN  /\ graph' = [nodes |-> found.nodes, conns |-> found.conns]
         /\ GoOn(found.failed, "start")
  /\ UNCHANGED <<request, trigger, runData, startNodes, stack, waiting>>

\* A trigger that is not in the graph is a start node only when it is dirty.
StartNodes ==
  /\ step = "start"
  /\ runData' = CleanRunData(runData, graph, request.dirty \cap Nodes(graph))
  /\ startNodes' = FindStartNodes(graph, request, trigger, runData')
  /\ GoOn(trigger \notin Nodes(graph) /\ startNodes' = <<>>, "cycles")
  /\ UNCHANGED <<request, trigger, graph, stack, waiting>>

Cycles ==
  /\ step = "cycles"
  /\ LET cycles == CyclesOf(graph, startNodes)
         fails  == \E C \in ToSet(cycles) : FirstNodes(graph, C, trigger) = <<>>
     IN  /\ GoOn(fails, "clean")
         /\ startNodes' = IF fails THEN startNodes
                          ELSE HandleCycles(graph, cycles, startNodes, trigger)
  /\ UNCHANGED <<request, trigger, graph, runData, stack, waiting>>

Clean ==
  /\ step = "clean"
  /\ GoOn(~(ToSet(startNodes) \subseteq Nodes(graph)), "stack")
  /\ runData' = CleanRunData(runData, graph, ToSet(startNodes))
  /\ UNCHANGED <<request, trigger, graph, startNodes, stack, waiting>>

RecreateStack ==
  /\ step = "stack"
  /\ step' = "run"
  /\ LET made == RecreateNodeExecutionStack(graph, startNodes, runData, request.pinned) IN
       stack' = made.stack /\ waiting' = made.waiting
  /\ UNCHANGED <<request, trigger, graph, runData, startNodes>>

Next ==
  \/ FindTrigger
  \/ Subgraph
  \/ StartNodes
  \/ Cycles
  \/ Clean
  \/ RecreateStack

PartialSpec == Init /\ [][Next]_vars

----------------------------------------------------------------------------
(***************************************************************************)
(* Properties                                                              *)
(***************************************************************************)
\* What is downstream of a node in the workflow as the user drew it, disabled
\* nodes included, over connections that do not leave the goal and do not enter
\* the node the search began at: a loop through either of them is cut there.
Affected(n) ==
  LET Inside(c) == Main(c) /\ c.from # request.goal /\ c.to # trigger
  IN  Downstream({c \in ToSet(request.conns) : Inside(c)}, {n})

\* No data survives that comes from what is run again: once cleanRunData is
\* through, no node that leads to the goal and kept its data is downstream of a
\* start node, or of another such node that the user changed, over any path of
\* the workflow, also one that the subgraph took apart and put together again.
NothingStaleSurvives ==
  step \in {"stack", "run"} =>
    LET feeding == Upstream({c \in ToSet(graph.conns) : Main(c)}, {request.goal})
        again   == ToSet(startNodes) \cup (request.dirty \cap feeding)
    IN  \A n \in again : Affected(n) \cap feeding \cap DOMAIN runData = {}

\* Where the data goes: the nodes that data of earlier runs, or pinned data,
\* comes to from the trigger.
Reached ==
  LET Carries(c) == c.from \in request.pinned \/ FirstRun(runData, c.from, c.out) > 0
  IN  Downstream({c \in ToSet(graph.conns) : c.from # request.goal /\ Carries(c)}, {trigger})

\* Whatever data comes to without having been run is run: each such node, and
\* the goal, is a start node or downstream of one, also after handleCycles has
\* moved the start nodes.
WhatIsMissingIsRun ==
  step = "clean" /\ trigger \in Nodes(graph) =>
    \A n \in Reached :
      n = request.goal \/ IsDirty(n, runData, request.pinned) =>
        \E s \in ToSet(startNodes) : n \in {s} \cup Children(graph, s)

\* How often a connection is a source of the entries of a sequence.
Uses(entries, c) ==
  Cardinality({i \in DOMAIN entries : Contains(entries[i].source, c)})

\* The items an earlier run left for a start node are used once: each
\* connection that has some is a source of one entry, of the stack or of the
\* waiting nodes, and nothing else gives a node items.
ItemsAreUsedOnce ==
  step = "run" =>
    \A c \in ToSet(graph.conns) :
      LET uses == Uses(stack, c) + Uses(waiting, c) IN
      /\ uses <= 1
      /\ uses = 1 => c.to \in ToSet(startNodes) /\ Main(c)
      /\ /\ c.to \in ToSet(startNodes)
         /\ Main(c)
         /\ FirstRun(runData, c.from, c.out) > 0
         => uses = 1

\* Disabled nodes that are connected in a circle, which removeNode does not get
\* rid of.
DisabledLoop ==
  LET conns == {c \in ToSet(request.conns) :
                  Main(c) /\ {c.from, c.to} \subseteq request.disabled}
  IN  \E n \in request.disabled : \E c \in conns :
        c.from = n /\ n \in Downstream(conns, {c.to})

\* The assertions of the code hold: no search comes upon a node that is not in
\* the graph, and "the trigger must be connected to the cycle" of a start node.
\* They fail in two cases (README, section 6): when disabled nodes form a loop,
\* and when the parent that stands in for a trigger is disabled.
AssertionsHold ==
  step = "failed" => DisabledLoop \/ trigger \in request.disabled
===============================================================================

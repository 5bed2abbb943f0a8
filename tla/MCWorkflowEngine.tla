--------------------------- MODULE MCWorkflowEngine ---------------------------
(***************************************************************************)
(* Five workflows with nodes that wait, and one whose node is sent data    *)
(* for its first input by three others.                                    *)
(***************************************************************************)
EXTENDS WorkflowEngine

Edge(m, o, n, i) == [from |-> m, out |-> o, to |-> n, in |-> i]

\* Nodes are drawn in the order in which they are listed.
Flow(nodes, edges, needs) ==
  LET N == {nodes[k] : k \in DOMAIN nodes} IN
  [nodes |-> N, edges |-> edges, trigger |-> nodes[1],
   height |-> [n \in N |-> CHOOSE k \in DOMAIN nodes : nodes[k] = n],
   needs |-> [n \in N |-> IF n \in DOMAIN needs THEN needs[n] ELSE 0],
   goal |-> Nobody, filter |-> N, mute |-> {}, single |-> {}]

\* One branch of a condition ends, the other meets a plain branch.
Condition ==
  Flow(<<"T", "A", "I", "C", "M">>,
       {Edge("T", 0, "A", 0), Edge("T", 0, "I", 0), Edge("A", 0, "M", 0),
        Edge("I", 0, "M", 1), Edge("I", 1, "C", 0)},
       [M |-> 1])

\* The same, run up to M, where C is not to be run.
UpToM ==
  [Condition EXCEPT !.goal = "M", !.filter = {"T", "A", "I", "M"}, !.mute = {"I"}]

\* A node that may wait for another that waits.
TwoMerges ==
  Flow(<<"T", "A", "B", "M", "N">>,
       {Edge("T", 0, "A", 0), Edge("T", 0, "B", 0), Edge("A", 0, "M", 0),
        Edge("A", 1, "N", 1), Edge("B", 0, "M", 1), Edge("M", 0, "N", 0)},
       [M |-> 1, N |-> 0])

\* Two nodes for each of two inputs.
Pairs ==
  Flow(<<"T", "A1", "A2", "B1", "B2", "M">>,
       {Edge("T", 0, x, 0) : x \in {"A1", "A2", "B1", "B2"}}
         \cup {Edge("A1", 0, "M", 0), Edge("A2", 0, "M", 0),
               Edge("B1", 0, "M", 1), Edge("B2", 0, "M", 1)},
       [M |-> 2])

\* Each round of a loop sends to a node that also gets the loop's result.
Loop ==
  [Flow(<<"T", "L", "W", "D", "M">>,
        {Edge("T", 0, "L", 0), Edge("L", 0, "D", 0), Edge("L", 1, "W", 0),
         Edge("W", 0, "L", 0), Edge("W", 0, "M", 0), Edge("D", 0, "M", 1)},
        [M |-> 1]) EXCEPT !.single = {"L"}]

MCFlows == {Condition, UpToM, TwoMerges, Pairs, Loop}

\* Three nodes for the first input, one of them after the second is served.
ThreeToOne ==
  Flow(<<"T", "A1", "A2", "B", "A3", "M">>,
       {Edge("T", 0, x, 0) : x \in {"A1", "A2", "B", "A3"}}
         \cup {Edge("A1", 0, "M", 0), Edge("A2", 0, "M", 0),
               Edge("B", 0, "M", 1), Edge("A3", 0, "M", 0)},
       [M |-> 1])

MCOneFlow == {ThreeToOne}
===============================================================================

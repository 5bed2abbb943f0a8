-------------------------- MODULE MCPartialExecution --------------------------
(***************************************************************************)
(* Workflows of a trigger 0, nodes 1, 2 and 4, and the goal 3.             *)
(***************************************************************************)
EXTENDS PartialExecution

Conn(m, o, n, i) == [from |-> m, out |-> o, type |-> "main", in |-> i, to |-> n]

\* The connections to choose from, all those of one node together.
Chosen(all, C) == SelectSeq(all, LAMBDA c : c \in C)

Wirings(all, fixed) == {Chosen(all, C) : C \in {D \in SUBSET ToSet(all) : fixed \subseteq D}}

\* Each node of some set has run once, with items on its first output.
Ran(sets) == {[n \in R |-> <<{0}>>] : R \in sets}

Family(all, fixed, data) ==
  [nodes |-> {<<0, 1, 2, 3>>}, conns |-> Wirings(all, fixed), triggers |-> {{0}},
   loops |-> {{}}, disabled |-> {{}}, runData |-> data, pinned |-> {{}}, dirty |-> {{}},
   goal |-> {3}]

\* Every graph.
Graphs ==
  [Family(<<Conn(0, 0, 1, 0), Conn(0, 0, 2, 0), Conn(0, 0, 3, 0),
            Conn(1, 0, 2, 0), Conn(1, 0, 3, 0), Conn(2, 0, 1, 0),
            Conn(2, 0, 3, 0), Conn(3, 0, 1, 0), Conn(3, 0, 2, 0)>>,
          {}, Ran({R \cup {0} : R \in SUBSET {1, 2, 3}}))
    EXCEPT !.disabled = {{}, {1, 2}}, !.dirty = {{}, {2}}, !.pinned = {{}, {1}}]

\* Loops within loops: every graph of three nodes between trigger and goal.
Nests ==
  [Family(<<Conn(0, 0, 1, 0), Conn(0, 0, 2, 0), Conn(1, 0, 2, 0), Conn(1, 0, 3, 0),
            Conn(1, 0, 4, 0), Conn(2, 0, 1, 0), Conn(2, 0, 3, 0), Conn(2, 0, 4, 0),
            Conn(4, 0, 1, 0), Conn(4, 0, 2, 0), Conn(4, 0, 3, 0)>>,
          {Conn(0, 0, 1, 0)}, Ran({R \cup {0} : R \in SUBSET {1, 2, 3, 4}}))
    EXCEPT !.nodes = {<<0, 1, 2, 3, 4>>}, !.dirty = {{}, {2}}]

\* A condition 1 with two outputs, and two inputs of the goal.
Inputs ==
  <<Conn(0, 0, 1, 0), Conn(0, 0, 2, 0), Conn(0, 0, 3, 0),
    Conn(1, 0, 2, 0), Conn(1, 0, 3, 0), Conn(1, 0, 3, 1), Conn(1, 1, 2, 0), Conn(1, 1, 3, 1),
    Conn(2, 0, 3, 0), Conn(2, 0, 3, 1)>>

Merges ==
  [Family(Inputs, {Conn(0, 0, 1, 0)},
          {[n \in {0} \cup R |-> IF n = 1 THEN h ELSE <<{0}>>] :
             R \in SUBSET {1, 2}, h \in {<<{0}>>, <<{1}>>, <<{}, {0}>>}})
    EXCEPT !.pinned = SUBSET {1, 2}]

\* A loop node 1, whose output 0 is `done`, and what it loops over.
Loops ==
  [Family(<<Conn(0, 0, 1, 0), Conn(1, 0, 3, 0), Conn(1, 0, 2, 0), Conn(1, 1, 2, 0),
            Conn(1, 1, 3, 0), Conn(2, 0, 1, 0), Conn(2, 0, 3, 0), Conn(3, 0, 1, 0),
            Conn(3, 0, 2, 0)>>,
          {Conn(0, 0, 1, 0)},
          {[n \in {0} \cup R |-> IF n = 1 THEN h ELSE <<{0}>>] :
             R \in SUBSET {1, 2}, h \in {<<{1}>>, <<{0}>>, <<{1}, {0}>>, <<{0}, {1}>>}})
    EXCEPT !.loops = {{1}}, !.pinned = {{}, {1}, {2}}, !.dirty = {{}, {2}}]

\* Nodes 1 and 3 may use the sub-node 4, which may use 5.
Utility(m, n) == [Conn(m, 0, n, 0) EXCEPT !.type = "ai"]

Agents ==
  [Family(<<Conn(0, 0, 1, 0), Conn(1, 0, 2, 0), Conn(1, 0, 3, 0), Conn(2, 0, 1, 0),
            Conn(2, 0, 3, 0), Utility(4, 1), Utility(4, 3), Utility(5, 4)>>,
          {}, Ran({R \cup {0, 4} : R \in SUBSET {1, 2, 3, 5}}))
    EXCEPT !.nodes = {<<0, 1, 2, 3, 4, 5>>}, !.dirty = {{}, {2}, {4}}]

\* The agent 1 may be on a branch without a trigger, and come back with the
\* sub-node 4, which the goal uses as well.
Detours ==
  [Family(<<Conn(0, 0, 1, 0), Conn(0, 0, 2, 0), Conn(0, 0, 3, 0), Conn(1, 0, 2, 0),
            Conn(2, 0, 3, 0), Utility(4, 1), Utility(4, 3)>>,
          {Conn(2, 0, 3, 0)}, Ran({R \cup {0, 4} : R \in SUBSET {1, 2, 3}}))
    EXCEPT !.nodes = {<<0, 1, 2, 3, 4>>}, !.dirty = {{}, {1}, {2}, {4}}]

\* Two nodes, and the goal, may be triggers, or none is.
Starts ==
  [Family(SelectSeq(Inputs, LAMBDA c : c.out = 0 /\ c.in = 0 /\ c.to # 1), {},
          Ran(SUBSET {0, 1, 2, 3}))
    EXCEPT !.triggers = {{}, {0, 1}, {0, 1, 3}}, !.disabled = {{}, {1}, {2}},
           !.pinned = {{}, {1}}]

MCFamilies == {Graphs, Nests, Merges, Loops, Agents, Detours, Starts}
===============================================================================

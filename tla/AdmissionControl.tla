--------------------------- MODULE AdmissionControl ---------------------------
(***************************************************************************)
(* What concurrency control promises, without counters or promises: every  *)
(* lane has room for so many clients; whoever arrives while there is room  *)
(* goes in, everyone else stands in line; a departure lets in the client   *)
(* that has waited longest.  A client that gives up while standing in line *)
(* passes its turn on in the same way, although it frees no room: a lane   *)
(* can hold one client more than its room for each that gave up.  Once the *)
(* doors are closed nobody is let in from the line, and whoever still      *)
(* arrives is not held back.                                               *)
(***************************************************************************)
EXTENDS Integers, Sequences, FiniteSets, SequencesExt

CONSTANTS
  Clients,
  Lanes,
  LaneOf,   \* the lane of each client; one outside Lanes is not controlled
  Room      \* the room of each lane

VARIABLES open, line, inside

vars == <<open, line, inside>>

Lane(c) == LaneOf[c]

Full(l) == Cardinality(inside[l]) >= Room[l]

Init ==
  /\ open \in BOOLEAN
  /\ line = [l \in Lanes |-> <<>>]
  /\ inside = [l \in Lanes |-> {}]

Elsewhere(c) == c \notin inside[Lane(c)] /\ c \notin Range(line[Lane(c)])

GoIn(c) ==
  /\ Elsewhere(c)
  /\ open => ~Full(Lane(c)) /\ line[Lane(c)] = <<>>
  /\ inside' = [inside EXCEPT ![Lane(c)] = @ \cup {c}]
  /\ UNCHANGED <<open, line>>

StandInLine(c) ==
  /\ Elsewhere(c)
  /\ open /\ Full(Lane(c))
  /\ line' = [line EXCEPT ![Lane(c)] = Append(@, c)]
  /\ UNCHANGED <<open, inside>>

\* Those in `waiting` stand in lane l and one of them, if any, may go in
\* to join those in `staying`.
CallNext(l, waiting, staying) ==
  IF waiting # <<>>
  THEN /\ inside' = [inside EXCEPT ![l] = staying \cup {Head(waiting)}]
       /\ line' = [line EXCEPT ![l] = Tail(waiting)]
  ELSE /\ inside' = [inside EXCEPT ![l] = staying]
       /\ line' = [line EXCEPT ![l] = <<>>]

Depart(c) ==
  /\ open
  /\ c \in inside[Lane(c)]
  /\ CallNext(Lane(c), line[Lane(c)], inside[Lane(c)] \ {c})
  /\ UNCHANGED open

DepartUnnoticed(c) ==
  /\ ~open
  /\ c \in inside[Lane(c)]
  /\ inside' = [inside EXCEPT ![Lane(c)] = @ \ {c}]
  /\ UNCHANGED <<open, line>>

GiveUp(c) ==
  /\ open
  /\ \E i \in DOMAIN line[Lane(c)] :
       /\ line[Lane(c)][i] = c
       /\ CallNext(Lane(c), RemoveAt(line[Lane(c)], i), inside[Lane(c)])
  /\ UNCHANGED open

Close ==
  /\ open
  /\ open' = FALSE
  /\ UNCHANGED <<line, inside>>

Next ==
  \/ \E c \in {d \in Clients : LaneOf[d] \in Lanes} :
       GoIn(c) \/ StandInLine(c) \/ Depart(c) \/ DepartUnnoticed(c) \/ GiveUp(c)
  \/ Close

Spec == Init /\ [][Next]_vars
=============================================================================

-------------------------------- MODULE Recall ------------------------------
(***************************************************************************)
(* Retrieval from the relational memory (memory/recall.py, related, and    *)
(* memory/arrangement/relational.py, neighbors): a walk outward from a     *)
(* node, ring by ring, strongest relationships first within a ring, until  *)
(* the budget is used up.                                                  *)
(*                                                                         *)
(* A step is a turn of one of the loops.  The candidates of a turn are     *)
(* sorted by weight only, so of several with one weight any may come       *)
(* first.                                                                  *)
(***************************************************************************)
EXTENDS Integers, Sequences, FiniteSets

CONSTANTS
  Node,           \* the nodes there may be
  Memories,       \* the graphs to retrieve from: nodes and edges
  Budgets         \* the budgets asked for

Edge == [from : Node, to : Node, weight : Nat \ {0}]

ASSUME RecallAssumption ==
  /\ IsFiniteSet(Node)
  /\ \A m \in Memories : /\ m.nodes \subseteq Node
                         /\ m.edges \subseteq Edge /\ IsFiniteSet(m.edges)
                         /\ \A e \in m.edges : e.from \in m.nodes /\ e.to \in m.nodes
  /\ Budgets \subseteq Nat

VARIABLES
  memory, start, budget,    \* what was asked
  pc,                       \* "walk", "take", "done"
  seen,                     \* every node met
  ordered,                  \* the answer so far
  frontier,                 \* the nodes of the last ring
  cand,                     \* the candidates not yet looked at
  nxt                       \* the nodes of the ring being made

question == <<memory, start, budget>>
recallVars == <<question, pc, seen, ordered, frontier, cand, nxt>>

Init ==
  /\ memory \in Memories /\ start \in Node /\ budget \in Budgets
  /\ pc = "walk"
  /\ seen = {start} /\ ordered = <<>> /\ frontier = {start}
  /\ cand = {} /\ nxt = {}

-----------------------------------------------------------------------------

\* A slip: relationships are followed in their direction only.
CandidatesOutgoing(edges, ring) ==
  {[weight |-> e.weight, node |-> e.to] : e \in {f \in edges : f.from \in ring}}

\* The neighbours of a ring over outgoing and incoming edges.
Candidates(edges, ring) ==
       {[weight |-> e.weight, node |-> e.to] : e \in {f \in edges : f.from \in ring}}
  \cup {[weight |-> e.weight, node |-> e.from] : e \in {f \in edges : f.to \in ring}}

\* A slip: weakest first.
WeakestOf(cs) == {c \in cs : \A d \in cs : c.weight <= d.weight}

StrongestOf(cs) == {c \in cs : \A d \in cs : d.weight <= c.weight}

\* "if node_id not in graph: return []"
Unknown ==
  /\ pc = "walk" /\ start \notin memory.nodes
  /\ pc' = "done"
  /\ UNCHANGED <<question, seen, ordered, frontier, cand, nxt>>

Gather ==
  /\ pc = "walk" /\ start \in memory.nodes
  /\ frontier # {} /\ Len(ordered) < budget
  /\ cand' = Candidates(memory.edges, frontier)
  /\ nxt' = {}
  /\ pc' = "take"
  /\ UNCHANGED <<question, seen, ordered, frontier>>

\* A slip: the budget is tested one node too late.
TakeOneTooMany ==
  /\ pc = "take"
  /\ \E c \in StrongestOf(cand) :
       /\ cand' = cand \ {c}
       /\ IF c.node \in seen
          THEN UNCHANGED <<pc, seen, ordered, frontier, nxt>>
          ELSE /\ seen' = seen \cup {c.node}
               /\ ordered' = Append(ordered, c.node)
               /\ nxt' = nxt \cup {c.node}
               /\ IF Len(ordered') > budget
                  THEN frontier' = nxt' /\ pc' = "walk"
                  ELSE UNCHANGED <<frontier, pc>>
  /\ UNCHANGED question

\* One candidate; the budget used up ends the turn.
Take ==
  /\ pc = "take"
  /\ \E c \in StrongestOf(cand) :
       /\ cand' = cand \ {c}
       /\ IF c.node \in seen
          THEN UNCHANGED <<pc, seen, ordered, frontier, nxt>>
          ELSE /\ seen' = seen \cup {c.node}
               /\ ordered' = Append(ordered, c.node)
               /\ nxt' = nxt \cup {c.node}
               /\ IF Len(ordered') >= budget
                  THEN frontier' = nxt' /\ pc' = "walk"
                  ELSE UNCHANGED <<frontier, pc>>
  /\ UNCHANGED question

\* A slip: the walk goes on from everything it has met.
TurnFromAll ==
  /\ pc = "take" /\ cand = {}
  /\ frontier' = seen
  /\ pc' = "walk"
  /\ UNCHANGED <<question, seen, ordered, cand, nxt>>

\* No candidate is left: the walk goes on from the ring just made.
Turn ==
  /\ pc = "take" /\ cand = {}
  /\ frontier' = nxt
  /\ pc' = "walk"
  /\ UNCHANGED <<question, seen, ordered, cand, nxt>>

Return ==
  /\ pc = "walk" /\ start \in memory.nodes
  /\ frontier = {} \/ Len(ordered) >= budget
  /\ pc' = "done"
  /\ UNCHANGED <<question, seen, ordered, frontier, cand, nxt>>

Next == Unknown \/ Gather \/ Take \/ Turn \/ Return

\* The function runs to its end.
Spec == Init /\ [][Next]_recallVars /\ WF_recallVars(Next)

-----------------------------------------------------------------------------
(* What the answer should be. *)

Linked(edges, m, n) == \E e \in edges : {e.from, e.to} = {m, n}

\* The nodes related to one of a set.
Around(edges, ns) == {n \in Node : \E m \in ns : Linked(edges, m, n)}

\* The nodes within k steps of s.
Balls(edges, s) ==
  LET B[k \in 0..Cardinality(Node)] ==
        IF k = 0 THEN {s} ELSE B[k - 1] \cup Around(edges, B[k - 1])
  IN  B

Distance(ball, n) ==
  CHOOSE k \in 0..Cardinality(Node) :
    n \in ball[k] /\ \A j \in 0..(k - 1) : n \notin ball[j]

\* The weights of a node's relationships with the ring before its own.
Inward(edges, ball, n) ==
  {e.weight : e \in {f \in edges :
     \E m \in ball[Distance(ball, n) - 1] : {f.from, f.to} = {m, n}}}

\* n may come before m: it is nearer, or as near and at least as strongly
\* related to the ring before.
Precedes(edges, ball, n, m) ==
  \/ Distance(ball, n) < Distance(ball, m)
  \/ /\ Distance(ball, n) = Distance(ball, m)
     /\ \A w \in Inward(edges, ball, m) : \E v \in Inward(edges, ball, n) : w <= v

Ball == Balls(memory.edges, start)

MayPrecede(n, m) == Precedes(memory.edges, Ball, n, m)

Reachable == Ball[Cardinality(Node)] \ {start}

Answer == {ordered[i] : i \in DOMAIN ordered}

-----------------------------------------------------------------------------
(* Properties. *)

\* The walk meets every node once, never the start again, and stays within
\* the budget; every ring it goes on from is part of what it has met.
RecallTypeOK ==
  /\ pc \in {"walk", "take", "done"}
  /\ ordered \in Seq(Node)
  /\ \A i, j \in DOMAIN ordered : ordered[i] = ordered[j] => i = j
  /\ start \notin Answer /\ seen = {start} \cup Answer
  /\ Len(ordered) <= budget
  /\ frontier \subseteq seen /\ nxt \subseteq Answer
  /\ cand \subseteq [weight : Nat \ {0}, node : Node]

\* "Nearest relationships first ... the most strongly related nodes are
\* returned first" (relational.py), against the distances of the graph.
NearestAndStrongestFirst ==
  \A i, j \in DOMAIN ordered : i < j => MayPrecede(ordered[i], ordered[j])

\* What is left out is left out for want of budget, and nothing returned
\* should have given way to it.
NothingBetterLeftOut ==
  (pc = "done" /\ start \in memory.nodes) =>
    \A n \in Reachable \ Answer :
      Len(ordered) = budget /\ \A m \in Answer : MayPrecede(m, n)

\* The nodes not met yet, and one turn more for a ring that is not walked
\* from yet.
Unmet == Cardinality(Node \ seen)
         + IF (pc = "walk" /\ frontier # {}) \/ (pc = "take" /\ nxt # {}) THEN 1 ELSE 0

\* The turns of the loops that are left before Unmet must fall.
Turns == IF pc = "take" THEN 2 + Cardinality(cand) ELSE IF pc = "walk" THEN 1 ELSE 0

\* Every step brings the walk nearer its end, however the relationships
\* circle: what it walks from is new, or a candidate fewer is left.
WalkDescends == [][Unmet' < Unmet \/ (Unmet' = Unmet /\ Turns' < Turns)]_recallVars

\* The walk ends, in circles of relationships too.
WalkEnds == <>(pc = "done")
=============================================================================

---------------------------- MODULE MemoryProofs ----------------------------
(***************************************************************************)
(* What the operators of Memory return and preserve, for every graph.      *)
(***************************************************************************)
EXTENDS Memory, SequenceTheorems, WellFoundedInduction, TLAPS

-----------------------------------------------------------------------------
(* Positions. *)

\* A nonempty set of positions has a first one.
LEMMA FirstPosition ==
  ASSUME NEW n \in Nat, NEW T \in SUBSET (1..n), T # {}
  PROVE  \E i \in T : \A j \in T : i <= j
<1>1. T \subseteq Nat
  OBVIOUS
<1>2. PICK i \in T : \A j \in T : ~(<<j, i>> \in OpToRel(<, Nat))
  BY <1>1, WFMin, NatLessThanWellFounded, Zenon
<1>3. \A j \in T : ~(j < i)
  BY <1>1, <1>2, Zenon DEF OpToRel
<1>4. QED
  BY <1>3

\* A nonempty set of positions has a last one.
LEMMA LastPosition ==
  ASSUME NEW n \in Nat, NEW T \in SUBSET (1..n), T # {}
  PROVE  \E i \in T : \A j \in T : j <= i
<1> DEFINE Mirror == {m \in 1..n : n + 1 - m \in T}
<1>1. PICK t \in T : TRUE
  OBVIOUS
<1>2. n + 1 - t \in 1..n /\ n + 1 - (n + 1 - t) = t
  OBVIOUS
<1>3. n + 1 - t \in Mirror
  BY <1>1, <1>2
<1>4. PICK i \in Mirror : \A j \in Mirror : i <= j
  <2> HIDE DEF Mirror
  <2> QED BY <1>3, FirstPosition DEF Mirror
<1>5. \A j \in T : j <= n + 1 - i
  <2> TAKE j \in T
  <2>1. n + 1 - j \in 1..n /\ n + 1 - (n + 1 - j) = j
    OBVIOUS
  <2>2. n + 1 - j \in Mirror
    BY <2>1
  <2>3. i <= n + 1 - j
    BY <1>4, <2>2
  <2> QED BY <2>3
<1>6. n + 1 - i \in T
  OBVIOUS
<1>7. QED
  BY <1>5, <1>6

-----------------------------------------------------------------------------
(* Typing. *)

LEMMA NoMemoryIsGraph ==
  /\ NoMemory \in Graph
  /\ Known(NoMemory) = {}
  /\ NoMemory.edges = {}
BY EmptySeq DEF NoMemory, Graph, Known

LEMMA KnownAreSources ==
  ASSUME NEW g \in Graph
  PROVE  Known(g) \subseteq Source /\ Isolated(g) \subseteq Known(g)
<1>1. \A i \in DOMAIN g.nodes : g.nodes[i] \in Source
  BY LenProperties, ElementOfSeq DEF Graph
<1>2. QED
  BY <1>1 DEF Known, Isolated

\* A graph only grows when a node is added to it; its edges stay.
LEMMA AddNodeGrows ==
  ASSUME NEW g \in Graph, NEW n \in Source
  PROVE  /\ AddNode(g, n) \in Graph
         /\ Within(g, AddNode(g, n))
         /\ AddNode(g, n).edges = g.edges
<1>1. CASE n \in Known(g)
  BY <1>1 DEF AddNode, Within
<1>2. CASE n \notin Known(g)
  <2> DEFINE h == [g EXCEPT !.nodes = Append(@, n)]
  <2>1. AddNode(g, n) = h
    BY <1>2 DEF AddNode
  <2>2. g.nodes \in Seq(Source) /\ g.edges \in SUBSET (Source \X Source)
    BY DEF Graph
  <2>3. h.nodes = Append(g.nodes, n) /\ h.edges = g.edges /\ h \in Graph
    BY <2>2, AppendProperties DEF Graph
  <2>4. \A i \in DOMAIN g.nodes : i \in DOMAIN h.nodes /\ h.nodes[i] = g.nodes[i]
    BY <2>2, <2>3, AppendProperties, LenProperties
  <2>5. Known(g) \subseteq Known(h)
    BY <2>4, Zenon DEF Known
  <2>6. QED
    BY <2>1, <2>3, <2>5 DEF Within
<1>3. QED
  BY <1>1, <1>2

LEMMA AddEdgeGrows ==
  ASSUME NEW g \in Graph, NEW from \in Source, NEW to \in Source
  PROVE  /\ AddEdge(g, from, to) \in Graph
         /\ Within(g, AddEdge(g, from, to))
         /\ AddEdge(g, from, to).edges = g.edges \cup {<<from, to>>}
BY DEF AddEdge, Graph, Within, Known

LEMMA WithinIsTransitive ==
  ASSUME NEW g, NEW h, NEW k, Within(g, h), Within(h, k)
  PROVE  Within(g, k)
BY DEF Within

LEMMA LoadIsGraph ==
  ASSUME NEW f \in SnapshotFile
  PROVE  Load(f) \in Graph
BY NoMemoryIsGraph DEF Load, SnapshotFile

-----------------------------------------------------------------------------
(* The two choices the loop makes by position. *)

\* The gap search finds a node that is isolated.
LEMMA FirstIsolatedIsIsolated ==
  ASSUME NEW g \in Graph, Isolated(g) # {}
  PROVE  FirstIsolated(g) \in Isolated(g)
<1> DEFINE T == {i \in DOMAIN g.nodes : g.nodes[i] \in Isolated(g)}
<1>1. DOMAIN g.nodes = 1..Len(g.nodes) /\ Len(g.nodes) \in Nat
  BY LenProperties DEF Graph
<1>2. T \in SUBSET (1..Len(g.nodes)) /\ T # {}
  BY <1>1 DEF Isolated, Known
<1>3. \E i \in T : \A j \in T : i <= j
  <2> HIDE DEF T
  <2> QED BY <1>1, <1>2, FirstPosition
<1>4. \E i \in DOMAIN g.nodes :
        /\ g.nodes[i] \in Isolated(g)
        /\ \A j \in DOMAIN g.nodes : g.nodes[j] \in Isolated(g) => i <= j
  BY <1>3, Zenon
<1>5. QED
  BY <1>4, Zenon DEF FirstIsolated

\* The target of a relation is a known node other than the one related.
LEMMA LastOtherIsOther ==
  ASSUME NEW g \in Graph, NEW n, Others(g, n) # {}
  PROVE  LastOther(g, n) \in Others(g, n)
<1> DEFINE T == {i \in DOMAIN g.nodes : g.nodes[i] \in Others(g, n)}
<1>1. DOMAIN g.nodes = 1..Len(g.nodes) /\ Len(g.nodes) \in Nat
  BY LenProperties DEF Graph
<1>2. T \in SUBSET (1..Len(g.nodes)) /\ T # {}
  BY <1>1 DEF Others, Known
<1>3. \E i \in T : \A j \in T : j <= i
  <2> HIDE DEF T
  <2> QED BY <1>1, <1>2, LastPosition
<1>4. \E i \in DOMAIN g.nodes :
        /\ g.nodes[i] \in Others(g, n)
        /\ \A j \in DOMAIN g.nodes : g.nodes[j] \in Others(g, n) => j <= i
  BY <1>3, Zenon
<1>5. QED
  BY <1>4, Zenon DEF LastOther

-----------------------------------------------------------------------------
(* Forests. *)

\* An edge from an isolated node to another node closes no circle: a set of
\* nodes that all have a successor in it would have one without that node.
LEMMA ForestGrows ==
  ASSUME NEW g \in Graph, Forest(g),
         NEW from \in Isolated(g), NEW to \in Source, from # to
  PROVE  Forest(AddEdge(g, from, to))
<1> DEFINE h == AddEdge(g, from, to)
<1>1. from \in Source
  BY KnownAreSources
<1>2. h.edges = g.edges \cup {<<from, to>>}
  BY <1>1, AddEdgeGrows
<1>3. \A e \in g.edges : from # e[1] /\ from # e[2]
  BY DEF Isolated
<1>4. \A d, e \in h.edges : d[1] = e[1] => d = e
  BY <1>2, <1>3 DEF Forest
<1>5. ASSUME NEW S \in SUBSET Source, S # {}
      PROVE  \E x \in S : \A y \in S : <<x, y>> \notin h.edges
  <2>1. CASE S \ {from} = {}
    <3>1. S = {from}
      BY <1>5, <2>1
    <3>2. <<from, from>> \notin h.edges
      BY <1>2, <1>3
    <3>3. QED
      BY <3>1, <3>2
  <2>2. CASE S \ {from} # {}
    <3>1. PICK x \in S \ {from} : \A y \in S \ {from} : <<x, y>> \notin g.edges
      BY <2>2 DEF Forest
    <3>2. <<x, from>> \notin g.edges
      BY <1>3
    <3>3. \A y \in S : <<x, y>> \notin h.edges
      BY <1>2, <3>1, <3>2
    <3>4. QED
      BY <3>1, <3>3
  <2>3. QED
    BY <2>1, <2>2
<1>6. QED
  BY <1>4, <1>5 DEF Forest

LEMMA ForestByEdges ==
  ASSUME NEW g, NEW h, Forest(g), h.edges = g.edges
  PROVE  Forest(h)
BY DEF Forest

LEMMA NoMemoryIsForest == Forest(NoMemory)
BY NoMemoryIsGraph DEF Forest
=============================================================================

------------------------------- MODULE Memory -------------------------------
(***************************************************************************)
(* The relational memory of keava_owent (memory/graph.py, memory/recall.py)*)
(* as operators on values: the loop in Loop.tla holds one such graph in    *)
(* the process and one snapshot of it on disk.                             *)
(*                                                                         *)
(* A node is a concept the loop holds.  The loop only ever makes nodes     *)
(* called "reading:<source>", so a node is identified with the live source *)
(* it came from.  networkx keeps nodes in the order they were inserted and *)
(* both the gap search and the choice of a relation's target depend on     *)
(* that order, so it is kept.  Payloads, timestamps and edge weights have  *)
(* no influence on what the loop does and are left out; the loop asserts   *)
(* one edge type, "relates_to", so an edge is a pair.                      *)
(***************************************************************************)
EXTENDS Integers, Sequences

CONSTANT Source      \* the live sources that may be registered

Graph == [nodes : Seq(Source), edges : SUBSET (Source \X Source)]

\* What a process without a readable snapshot starts from.
NoMemory == [nodes |-> <<>>, edges |-> {}]

Known(g) == {g.nodes[i] : i \in DOMAIN g.nodes}

-----------------------------------------------------------------------------
(* Writing the graph. *)

\* add_node: a new node goes to the end; a known one is only touched.
AddNode(g, n) ==
  IF n \in Known(g) THEN g ELSE [g EXCEPT !.nodes = Append(@, n)]

\* add_edge: asserting an edge again strengthens it and adds none.
AddEdge(g, from, to) == [g EXCEPT !.edges = @ \cup {<<from, to>>}]

-----------------------------------------------------------------------------
(* Reading the graph. *)

\* Slips in the degree of a node: edges of one direction only.
IsolatedByIncoming(g) == {n \in Known(g) : \A e \in g.edges : n # e[2]}
IsolatedByOutgoing(g) == {n \in Known(g) : \A e \in g.edges : n # e[1]}

\* isolated_nodes: knowledge connected to nothing, in either direction.
Isolated(g) == {n \in Known(g) : \A e \in g.edges : n # e[1] /\ n # e[2]}

\* The isolated node the search meets first: gaps[0].
FirstIsolated(g) ==
  g.nodes[CHOOSE i \in DOMAIN g.nodes :
            /\ g.nodes[i] \in Isolated(g)
            /\ \A j \in DOMAIN g.nodes :
                 g.nodes[j] \in Isolated(g) => i <= j]

\* A slip: only nodes that are isolated themselves are candidates.
OthersIsolated(g, n) == Isolated(g) \ {n}

\* The nodes an isolated node could be related to: others.
Others(g, n) == Known(g) \ {n}

\* others[-1]: the node inserted last, n itself passed over.
LastOther(g, n) ==
  g.nodes[CHOOSE i \in DOMAIN g.nodes :
            /\ g.nodes[i] \in Others(g, n)
            /\ \A j \in DOMAIN g.nodes :
                 g.nodes[j] \in Others(g, n) => j <= i]

-----------------------------------------------------------------------------
(* Comparing graphs. *)

\* All that g holds, h holds too.
Within(g, h) == Known(g) \subseteq Known(h) /\ g.edges \subseteq h.edges

\* No two edges leave the same node, and following edges never comes back:
\* there is no set of nodes that all have a successor in the set.
Forest(g) ==
  /\ \A d, e \in g.edges : d[1] = e[1] => d = e
  /\ \A S \in (SUBSET Source) \ {{}} :
       \E x \in S : \A y \in S : <<x, y>> \notin g.edges

-----------------------------------------------------------------------------
(* The snapshot file.  save() opens it for writing, which empties it, and  *)
(* then dumps the graph into it; until the dump is complete there is no    *)
(* JSON document to read.  _load() takes a missing or an unreadable file   *)
(* for an empty memory.                                                    *)

Snapshot(g) == [readable |-> TRUE, graph |-> g]

Unreadable == [readable |-> FALSE, graph |-> NoMemory]

SnapshotFile == [readable : BOOLEAN, graph : Graph]

Load(f) == IF f.readable THEN f.graph ELSE NoMemory
=============================================================================

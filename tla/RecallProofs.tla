---------------------------- MODULE RecallProofs ----------------------------
(***************************************************************************)
(* What the walk of Recall keeps on every graph, for every start and       *)
(* budget: no node twice, nearest and strongest first, nothing better left *)
(* out, and that every turn brings it nearer its end.                      *)
(*                                                                         *)
(* The distances of a graph are defined by recursion on the number of      *)
(* steps.  What is said of every number of steps is proved by a least      *)
(* counterexample (LeastElement).                                          *)
(***************************************************************************)
EXTENDS Recall, SequenceTheorems, FiniteSetTheorems, WellFoundedInduction, TLAPS

-----------------------------------------------------------------------------
\* A nonempty set of natural numbers has a least element: what stands here
\* for induction.
LEMMA LeastElement ==
  ASSUME NEW T, T \subseteq Nat, T # {}
  PROVE  \E x \in T : \A y \in T : x <= y
<1>1. IsWellFoundedOn(OpToRel(<, Nat), Nat)
  BY NatLessThanWellFounded, Zenon
<1>2. PICK x \in T : \A y \in T : ~ (<<y, x>> \in OpToRel(<, Nat))
  BY <1>1, WFMin, Zenon
<1>3. ASSUME NEW y \in T PROVE ~ (y < x)
  <2>1. y \in Nat /\ x \in Nat
    OBVIOUS
  <2>2. y < x => <<y, x>> \in OpToRel(<, Nat)
    BY <2>1, Zenon DEF OpToRel
  <2>3. QED
    BY <1>2, <2>2
<1>4. QED
  BY <1>3

-----------------------------------------------------------------------------
(* The distances of a graph. *)

Last == Cardinality(Node)

LEMMA LastType == Last \in Nat /\ IsFiniteSet(Node)
BY FS_CardinalityType, RecallAssumption DEF Last

\* ball is the balls around s, as far as n steps.
IsBalls(ball, edges, s, n) ==
  ball = [k \in 0..n |-> IF k = 0 THEN {s} ELSE ball[k - 1] \cup Around(edges, ball[k - 1])]

\* The recursion, ball by ball.
LEMMA BallByBall ==
  ASSUME NEW ball, NEW edges, NEW s, NEW n \in Nat, IsBalls(ball, edges, s, n)
  PROVE  /\ ball[0] = {s}
         /\ \A k \in 1..n : ball[k] = ball[k - 1] \cup Around(edges, ball[k - 1])
<1> DEFINE h == [k \in 0..n |-> IF k = 0 THEN {s} ELSE ball[k - 1] \cup Around(edges, ball[k - 1])]
<1>1. ball = h
  BY Zenon DEF IsBalls
<1>2. h[0] = {s}
  OBVIOUS
<1>3. \A k \in 1..n : h[k] = ball[k - 1] \cup Around(edges, ball[k - 1])
  OBVIOUS
<1> HIDE DEF h
<1>4. QED
  BY <1>1, <1>2, <1>3, Zenon

\* The recursion has a solution, as far as any number of steps.
LEMMA BallsExist ==
  ASSUME NEW edges, NEW s, NEW n \in Nat
  PROVE  \E b : IsBalls(b, edges, s, n)
<1> DEFINE T == {k \in Nat : ~ \E b : IsBalls(b, edges, s, k)}
<1>1. SUFFICES ASSUME T # {} PROVE FALSE
  OBVIOUS
<1>2. T \subseteq Nat
  OBVIOUS
<1> HIDE DEF T
<1>3. PICK k \in T : \A y \in T : k <= y
  BY <1>1, <1>2, LeastElement
<1>4. k \in Nat /\ ~ \E b : IsBalls(b, edges, s, k)
  BY <1>3 DEF T
<1>5. IsBalls([i \in 0..0 |-> {s}], edges, s, 0)
  BY DEF IsBalls
<1>6. k # 0
  BY <1>4, <1>5
<1>7. k - 1 \in Nat /\ k - 1 \notin T
  BY <1>4, <1>6, <1>3
<1>8. PICK f : IsBalls(f, edges, s, k - 1)
  BY <1>7 DEF T
<1> DEFINE g == [i \in 0..k |-> IF i = k THEN f[k - 1] \cup Around(edges, f[k - 1]) ELSE f[i]]
<1>9. ASSUME NEW i \in 0..k
      PROVE  g[i] = IF i = 0 THEN {s} ELSE g[i - 1] \cup Around(edges, g[i - 1])
  <2>1. CASE i = k
    BY <2>1, <1>4, <1>6
  <2>2. CASE i # k
    <3>1. f[0] = {s} /\ \A j \in 1..(k - 1) : f[j] = f[j - 1] \cup Around(edges, f[j - 1])
      BY <1>7, <1>8, BallByBall
    <3>2. g[i] = f[i] /\ i \in 0..(k - 1) /\ (i # 0 => g[i - 1] = f[i - 1])
      BY <1>4, <2>2
    <3> HIDE DEF g
    <3>3. CASE i = 0
      BY <3>1, <3>2, <3>3
    <3>4. CASE i # 0
      <4>1. i \in 1..(k - 1)
        BY <3>2, <3>4
      <4>2. f[i] = f[i - 1] \cup Around(edges, f[i - 1])
        BY <3>1, <4>1
      <4>3. QED
        BY <3>2, <3>4, <4>2
    <3>5. QED
      BY <3>3, <3>4
  <2>3. QED
    BY <2>1, <2>2
<1>10. IsBalls(g, edges, s, k)
  BY <1>9 DEF IsBalls
<1>11. QED
  BY <1>4, <1>10

\* The balls: the start, then what was there and what is related to it.
LEMMA BallsUnfold ==
  ASSUME NEW edges, NEW s
  PROVE  /\ Balls(edges, s)[0] = {s}
         /\ \A k \in 1..Last :
              Balls(edges, s)[k] = Balls(edges, s)[k - 1] \cup Around(edges, Balls(edges, s)[k - 1])
<1>1. \E b : IsBalls(b, edges, s, Last)
  BY LastType, BallsExist
<1>2. Balls(edges, s) = CHOOSE b : IsBalls(b, edges, s, Last)
  BY Zenon DEF Balls, IsBalls, Last
<1>3. IsBalls(Balls(edges, s), edges, s, Last)
  BY <1>1, <1>2, Zenon
<1>4. QED
  BY <1>3, LastType, BallByBall

\* What BallsUnfold says, as a hypothesis of the lemmas below.
Unfolds(ball, edges) ==
  \A k \in 1..Last : ball[k] = ball[k - 1] \cup Around(edges, ball[k - 1])

\* The balls grow, and hold nodes only.
LEMMA BallsGrow ==
  ASSUME NEW ball, NEW edges, Unfolds(ball, edges), ball[0] \subseteq Node
  PROVE  /\ \A k \in 0..Last : ball[k] \subseteq Node
         /\ \A k \in 0..Last : \A j \in 0..k : ball[j] \subseteq ball[k]
<1> DEFINE Bad == {k \in 0..Last : ~ (ball[k] \subseteq Node)
                                   \/ \E j \in 0..k : ~ (ball[j] \subseteq ball[k])}
<1>1. SUFFICES ASSUME Bad # {} PROVE FALSE
  BY Zenon
<1>2. Bad \subseteq Nat
  BY LastType
<1> HIDE DEF Bad
<1>3. PICK k \in Bad : \A y \in Bad : k <= y
  BY <1>1, <1>2, LeastElement
<1>4. k \in 0..Last
  BY <1>3 DEF Bad
<1>5. k # 0
  BY <1>3 DEF Bad
<1>6. k - 1 \in 0..Last /\ k - 1 \notin Bad /\ k \in 1..Last
  BY <1>3, <1>4, <1>5, LastType
<1>7. ball[k - 1] \subseteq Node /\ \A j \in 0..(k - 1) : ball[j] \subseteq ball[k - 1]
  BY <1>6 DEF Bad
<1>8. ball[k] = ball[k - 1] \cup Around(edges, ball[k - 1])
  BY <1>6 DEF Unfolds
<1>9. ball[k] \subseteq Node
  BY <1>7, <1>8 DEF Around
<1>10. \A j \in 0..k : ball[j] \subseteq ball[k]
  BY <1>4, <1>7, <1>8, LastType
<1>11. QED
  BY <1>3, <1>9, <1>10 DEF Bad

\* A node's distance is the first ball that holds it.
LEMMA DistanceFirst ==
  ASSUME NEW ball, NEW k \in 0..Last, NEW n,
         n \in ball[k], \A j \in 0..(k - 1) : n \notin ball[j]
  PROVE  Distance(ball, n) = k
<1> DEFINE First(i) == n \in ball[i] /\ \A j \in 0..(i - 1) : n \notin ball[j]
<1>1. First(k)
  OBVIOUS
<1>2. \A i \in 0..Last : First(i) => i = k
  <2> SUFFICES ASSUME NEW i \in 0..Last, First(i) PROVE i = k
    OBVIOUS
  <2>1. ~ (i < k) /\ ~ (k < i)
    BY LastType
  <2>2. QED
    BY <2>1, LastType
<1>3. Distance(ball, n) = CHOOSE i \in 0..Last : First(i)
  BY Zenon DEF Distance, Last
<1> HIDE DEF First
<1>4. (CHOOSE i \in 0..Last : First(i)) \in 0..Last /\ First(CHOOSE i \in 0..Last : First(i))
  BY <1>1, Zenon
<1>5. QED
  BY <1>2, <1>3, <1>4, Zenon

\* Every node within reach has a distance.
LEMMA DistanceExists ==
  ASSUME NEW ball, NEW k \in 0..Last, NEW n, n \in ball[k]
  PROVE  /\ Distance(ball, n) \in 0..k
         /\ n \in ball[Distance(ball, n)]
         /\ \A j \in 0..(Distance(ball, n) - 1) : n \notin ball[j]
<1> DEFINE T == {i \in 0..k : n \in ball[i]}
<1>1. T \subseteq Nat /\ T # {}
  BY LastType
<1>2. \A i \in T : i \in 0..k /\ i \in 0..Last /\ n \in ball[i]
  BY LastType
<1>3. \A i \in 0..k : n \in ball[i] => i \in T
  OBVIOUS
<1> HIDE DEF T
<1>4. PICK i \in T : \A y \in T : i <= y
  BY <1>1, LeastElement
<1>5. i \in 0..Last /\ i \in 0..k /\ n \in ball[i]
  BY <1>2, <1>4
<1>6. \A j \in 0..(i - 1) : n \notin ball[j]
  BY <1>3, <1>4, <1>5, LastType
<1>7. Distance(ball, n) = i
  BY <1>5, <1>6, DistanceFirst
<1>8. QED
  BY <1>5, <1>6, <1>7

\* The nodes at distance d.
Ring(ball, d) == IF d = 0 THEN ball[0] ELSE ball[d] \ ball[d - 1]

\* A node of the next ring is one step further than the balls it is not in.
LEMMA DistanceNext ==
  ASSUME NEW ball, NEW edges, Unfolds(ball, edges), ball[0] \subseteq Node,
         NEW d \in 0..(Last - 1), NEW n \in ball[d + 1], n \notin ball[d]
  PROVE  Distance(ball, n) = d + 1
<1>1. d + 1 \in 0..Last /\ d \in 0..Last
  BY LastType
<1>2. \A j \in 0..d : ball[j] \subseteq ball[d]
  BY <1>1, BallsGrow
<1>3. \A j \in 0..(d + 1 - 1) : n \notin ball[j]
  BY <1>1, <1>2, LastType
<1>4. QED
  BY <1>1, <1>3, DistanceFirst

\* A ring that holds a node, and every ring before it: there are not more
\* of them than nodes.
LEMMA RingsBounded ==
  ASSUME NEW ball, NEW edges, Unfolds(ball, edges), ball[0] # {}, ball[0] \subseteq Node
  PROVE  \A k \in 0..Last : Ring(ball, k) # {} => Cardinality(ball[k]) > k
<1> DEFINE Bad == {k \in 0..Last : Ring(ball, k) # {} /\ ~ (Cardinality(ball[k]) > k)}
<1>1. SUFFICES ASSUME Bad # {} PROVE FALSE
  BY Zenon
<1>2. Bad \subseteq Nat
  BY LastType
<1> HIDE DEF Bad
<1>3. PICK k \in Bad : \A y \in Bad : k <= y
  BY <1>1, <1>2, LeastElement
<1>4. k \in 0..Last /\ Ring(ball, k) # {} /\ ~ (Cardinality(ball[k]) > k)
  BY <1>3 DEF Bad
<1>5. \A i \in 0..Last : ball[i] \subseteq Node /\ IsFiniteSet(ball[i]) /\ Cardinality(ball[i]) \in Nat
  <2> SUFFICES ASSUME NEW i \in 0..Last
               PROVE ball[i] \subseteq Node /\ IsFiniteSet(ball[i]) /\ Cardinality(ball[i]) \in Nat
    OBVIOUS
  <2>1. ball[i] \subseteq Node
    BY BallsGrow
  <2>2. IsFiniteSet(ball[i])
    BY <2>1, LastType, FS_Subset
  <2>3. QED
    BY <2>1, <2>2, FS_CardinalityType
<1>6. CASE k = 0
  <2>1. Cardinality(ball[0]) # 0
    BY <1>5, FS_EmptySet, LastType
  <2>2. QED
    BY <1>4, <1>5, <1>6, <2>1, LastType
<1>7. CASE k # 0
  <2>1. k \in 1..Last /\ k - 1 \in 0..Last
    BY <1>4, <1>7, LastType
  <2>2. ball[k] = ball[k - 1] \cup Around(edges, ball[k - 1])
    BY <2>1 DEF Unfolds
  <2>3. PICK n \in ball[k] : n \notin ball[k - 1]
    BY <1>4, <1>7 DEF Ring
  <2>4. Ring(ball, k - 1) # {}
    <3>1. CASE k - 1 = 0
      BY <3>1 DEF Ring
    <3>2. CASE k - 1 # 0
      <4>1. k - 1 \in 1..Last /\ k - 1 - 1 \in 0..Last
        BY <2>1, <3>2, LastType
      <4>2. ball[k - 1] = ball[k - 1 - 1] \cup Around(edges, ball[k - 1 - 1])
        BY <4>1 DEF Unfolds
      <4>3. ball[k - 1] # ball[k - 1 - 1]
        BY <2>2, <2>3, <4>2
      <4>4. QED
        BY <3>2, <4>2, <4>3 DEF Ring
    <3>3. QED
      BY <3>1, <3>2
  <2>5. k - 1 \notin Bad
    BY <1>2, <1>3, <2>1, LastType
  <2>6. Cardinality(ball[k - 1]) > k - 1
    BY <2>1, <2>4, <2>5 DEF Bad
  <2>7. /\ Cardinality(ball[k - 1]) <= Cardinality(ball[k])
        /\ Cardinality(ball[k - 1]) # Cardinality(ball[k])
    BY <1>4, <1>5, <2>2, <2>3, FS_Subset
  <2>8. QED
    BY <1>4, <1>5, <2>1, <2>6, <2>7
<1>8. QED
  BY <1>6, <1>7

\* So a ring that holds a node has a next ball.
LEMMA RingsEndInTime ==
  ASSUME NEW ball, NEW edges, Unfolds(ball, edges), ball[0] # {}, ball[0] \subseteq Node,
         NEW d \in 0..Last, Ring(ball, d) # {}
  PROVE  d \in 0..(Last - 1)
<1>1. Cardinality(ball[d]) > d
  BY RingsBounded
<1>2. ball[d] \subseteq Node
  BY BallsGrow
<1>3. Cardinality(ball[d]) <= Last
  BY <1>2, LastType, FS_Subset DEF Last
<1>4. Cardinality(ball[d]) \in Nat
  BY <1>2, LastType, FS_Subset, FS_CardinalityType
<1>5. QED
  BY <1>1, <1>3, <1>4, LastType

\* After an empty ring nothing further is met.
LEMMA EmptyRingEnds ==
  ASSUME NEW ball, NEW edges, Unfolds(ball, edges), ball[0] # {}, ball[0] \subseteq Node,
         NEW d \in 0..Last, Ring(ball, d) = {}
  PROVE  ball[Last] = ball[d]
<1> DEFINE Bad == {k \in d..Last : ball[k] # ball[d]}
<1>1. SUFFICES ASSUME Bad # {} PROVE FALSE
  <2>1. Last \in d..Last
    BY LastType
  <2>2. QED
    BY <1>1, <2>1
<1>2. Bad \subseteq Nat
  BY LastType
<1> HIDE DEF Bad
<1>3. PICK k \in Bad : \A y \in Bad : k <= y
  BY <1>1, <1>2, LeastElement
<1>4. k \in d..Last /\ ball[k] # ball[d]
  BY <1>3 DEF Bad
<1>5. d # 0 /\ d - 1 \in 0..Last /\ d \in 1..Last
  BY LastType DEF Ring
<1>6. ball[d] = ball[d - 1] \cup Around(edges, ball[d - 1]) /\ ball[d] \subseteq ball[d - 1]
  BY <1>5 DEF Ring, Unfolds
<1>7. ball[d] = ball[d - 1]
  BY <1>6
<1>8. k - 1 \in d..Last /\ k \in 1..Last
  BY <1>4, <1>5, LastType
<1>9. ball[k - 1] = ball[d]
  <2>1. k - 1 \notin Bad
    BY <1>2, <1>3, <1>8, LastType
  <2>2. QED
    BY <1>8, <2>1 DEF Bad
<1>10. ball[k] = ball[k - 1] \cup Around(edges, ball[k - 1])
  BY <1>8 DEF Unfolds
<1>11. QED
  BY <1>4, <1>6, <1>7, <1>9, <1>10

\* What the walk gathers from a ring: nodes of the next ball, every node of
\* the next ring, each with the weights of its relationships inward.
LEMMA RingCandidates ==
  ASSUME NEW ball, NEW edges, edges \subseteq Edge, Unfolds(ball, edges),
         ball[0] \subseteq Node, NEW d \in 0..(Last - 1)
  PROVE  /\ \A c \in Candidates(edges, Ring(ball, d)) : c.node \in ball[d + 1]
         /\ \A n \in ball[d + 1] \ ball[d] :
              \E c \in Candidates(edges, Ring(ball, d)) : c.node = n
         /\ \A n \in ball[d + 1] \ ball[d] : \A w :
              w \in Inward(edges, ball, n) <=>
                \E c \in Candidates(edges, Ring(ball, d)) : c.node = n /\ c.weight = w
<1>1. d \in 0..Last /\ d + 1 \in 1..Last /\ d + 1 - 1 = d
  BY LastType
<1>2. ball[d + 1] = ball[d] \cup Around(edges, ball[d])
  BY <1>1 DEF Unfolds
<1>3. Ring(ball, d) \subseteq ball[d]
  BY DEF Ring
<1>4. \A e \in edges : e.from \in Node /\ e.to \in Node
  BY DEF Edge
<1>5. ASSUME NEW m \in ball[d], NEW n \in ball[d + 1] \ ball[d], NEW e \in edges,
             {e.from, e.to} = {m, n}
      PROVE  m \in Ring(ball, d)
  <2>1. CASE d = 0
    BY <2>1 DEF Ring
  <2>2. CASE d # 0
    <3>1. d \in 1..Last
      BY <1>1, <2>2, LastType
    <3>2. ball[d] = ball[d - 1] \cup Around(edges, ball[d - 1])
      BY <3>1 DEF Unfolds
    <3>3. n \in Node
      <4>1. n \in {e.from, e.to}
        BY <1>5
      <4>2. QED
        BY <1>4, <4>1
    <3>4. m \notin ball[d - 1]
      BY <1>5, <3>2, <3>3 DEF Around, Linked
    <3>5. QED
      BY <2>2, <3>4 DEF Ring
  <2>3. QED
    BY <2>1, <2>2
<1>6. \A e \in edges : e.from \in Ring(ball, d) =>
        [weight |-> e.weight, node |-> e.to] \in Candidates(edges, Ring(ball, d))
  BY DEF Candidates
<1>7. \A e \in edges : e.to \in Ring(ball, d) =>
        [weight |-> e.weight, node |-> e.from] \in Candidates(edges, Ring(ball, d))
  BY DEF Candidates
<1>8. \A c \in Candidates(edges, Ring(ball, d)) : \E e \in edges :
        \/ e.from \in Ring(ball, d) /\ c = [weight |-> e.weight, node |-> e.to]
        \/ e.to \in Ring(ball, d) /\ c = [weight |-> e.weight, node |-> e.from]
  BY DEF Candidates
<1>9. ASSUME NEW c \in Candidates(edges, Ring(ball, d))
      PROVE  c.node \in ball[d + 1]
  <2>1. PICK e \in edges :
          \/ e.from \in Ring(ball, d) /\ c = [weight |-> e.weight, node |-> e.to]
          \/ e.to \in Ring(ball, d) /\ c = [weight |-> e.weight, node |-> e.from]
    BY <1>8
  <2>2. c.node \in Node /\ \E m \in ball[d] : {e.from, e.to} = {m, c.node}
    BY <1>3, <1>4, <2>1
  <2>3. QED
    BY <1>2, <2>2 DEF Around, Linked
<1>10. ASSUME NEW n \in ball[d + 1] \ ball[d], NEW e \in edges, NEW m \in ball[d],
              {e.from, e.to} = {m, n}
       PROVE  \E c \in Candidates(edges, Ring(ball, d)) : c.node = n /\ c.weight = e.weight
  <2>1. m \in Ring(ball, d)
    BY <1>5, <1>10
  <2>2. \/ e.from = m /\ e.to = n
        \/ e.to = m /\ e.from = n
    BY <1>10
  <2>3. CASE e.from = m /\ e.to = n
    BY <1>6, <2>1, <2>3
  <2>4. CASE e.to = m /\ e.from = n
    BY <1>7, <2>1, <2>4
  <2>5. QED
    BY <2>2, <2>3, <2>4
<1>11. ASSUME NEW n \in ball[d + 1] \ ball[d]
       PROVE  \E c \in Candidates(edges, Ring(ball, d)) : c.node = n
  <2>1. \E m \in ball[d] : \E e \in edges : {e.from, e.to} = {m, n}
    BY <1>2 DEF Around, Linked
  <2>2. QED
    BY <1>10, <2>1
<1>12. ASSUME NEW n \in ball[d + 1] \ ball[d], NEW w
       PROVE  w \in Inward(edges, ball, n) <=>
                \E c \in Candidates(edges, Ring(ball, d)) : c.node = n /\ c.weight = w
  <2>1. Distance(ball, n) - 1 = d
    BY <1>1, DistanceNext
  <2>2. w \in Inward(edges, ball, n) <=>
          \E e \in edges : e.weight = w /\ \E m \in ball[d] : {e.from, e.to} = {m, n}
    BY <2>1 DEF Inward
  <2>3. ASSUME NEW c \in Candidates(edges, Ring(ball, d)), c.node = n, c.weight = w
        PROVE  \E e \in edges : e.weight = w /\ \E m \in ball[d] : {e.from, e.to} = {m, n}
    <3>1. PICK e \in edges :
            \/ e.from \in Ring(ball, d) /\ c = [weight |-> e.weight, node |-> e.to]
            \/ e.to \in Ring(ball, d) /\ c = [weight |-> e.weight, node |-> e.from]
      BY <1>8
    <3>2. e.weight = w /\ \E m \in ball[d] : {e.from, e.to} = {m, n}
      BY <1>3, <2>3, <3>1
    <3>3. QED
      BY <3>2
  <2>4. ASSUME NEW e \in edges, e.weight = w, NEW m \in ball[d], {e.from, e.to} = {m, n}
        PROVE  \E c \in Candidates(edges, Ring(ball, d)) : c.node = n /\ c.weight = w
    BY <1>10, <2>4
  <2>5. QED
    BY <2>2, <2>3, <2>4
<1>13. QED
  BY <1>9, <1>11, <1>12

-----------------------------------------------------------------------------
(* What the walk has met. *)

\* What is looked at is related to the ring it was gathered from, and what
\* was returned to the start or to something returned before it.
WalkInv ==
  /\ RecallTypeOK
  /\ memory \in Memories /\ start \in Node /\ budget \in Budgets
  /\ pc = "take" => /\ Len(ordered) < budget
                    /\ \A c \in cand : \E m \in frontier : Linked(memory.edges, m, c.node)
  /\ \A i \in DOMAIN ordered :
       \/ Linked(memory.edges, start, ordered[i])
       \/ \E j \in 1..(i - 1) : Linked(memory.edges, ordered[j], ordered[i])

AnswersAreRelated ==
  \A i \in DOMAIN ordered :
    \/ Linked(memory.edges, start, ordered[i])
    \/ \E j \in 1..(i - 1) : Linked(memory.edges, ordered[j], ordered[i])

LEMMA WalkInit == Init => WalkInv
<1> SUFFICES ASSUME Init PROVE WalkInv
  OBVIOUS
<1>1. /\ ordered \in Seq(Node) /\ DOMAIN ordered = {} /\ Len(ordered) = 0
      /\ Answer = {} /\ budget \in Nat
  BY RecallAssumption DEF Init, Answer
<1>2. QED
  BY <1>1 DEF Init, WalkInv, RecallTypeOK

\* A node of the graph behind every candidate.
LEMMA CandidateFacts ==
  ASSUME NEW m \in Memories, NEW ring
  PROVE  \A c \in Candidates(m.edges, ring) :
           /\ c \in [weight : Nat \ {0}, node : Node]
           /\ \E n \in ring : \E e \in m.edges : {e.from, e.to} = {n, c.node}
<1>1. m.edges \subseteq Edge
  BY RecallAssumption
<1>2. \A e \in m.edges : e.from \in Node /\ e.to \in Node /\ e.weight \in Nat \ {0}
  BY <1>1 DEF Edge
<1>3. SUFFICES ASSUME NEW c \in Candidates(m.edges, ring)
               PROVE  /\ c \in [weight : Nat \ {0}, node : Node]
                      /\ \E n \in ring : \E e \in m.edges : {e.from, e.to} = {n, c.node}
  OBVIOUS
<1>4. \E e \in m.edges :
        \/ e.from \in ring /\ c = [weight |-> e.weight, node |-> e.to]
        \/ e.to \in ring /\ c = [weight |-> e.weight, node |-> e.from]
  BY <1>3 DEF Candidates
<1>5. PICK e \in m.edges :
        \/ e.from \in ring /\ c = [weight |-> e.weight, node |-> e.to]
        \/ e.to \in ring /\ c = [weight |-> e.weight, node |-> e.from]
  BY <1>4
<1>6. c \in [weight : Nat \ {0}, node : Node]
  BY <1>2, <1>5
<1>7. \E n \in ring : {e.from, e.to} = {n, c.node}
  BY <1>5
<1>8. QED
  BY <1>6, <1>7

\* A step that returns no further node.
LEMMA NothingReturned ==
  ASSUME WalkInv, UNCHANGED <<memory, start, budget, seen, ordered>>,
         pc' \in {"walk", "take", "done"},
         frontier' \subseteq seen, nxt' \subseteq Answer,
         cand' \subseteq [weight : Nat \ {0}, node : Node],
         pc' = "take" => /\ Len(ordered) < budget
                         /\ \A c \in cand' : \E m \in frontier' : Linked(memory.edges, m, c.node)
  PROVE  WalkInv'
<1>1. Answer' = Answer /\ RecallTypeOK
  BY DEF Answer, WalkInv
<1>2. RecallTypeOK'
  BY <1>1 DEF RecallTypeOK
<1>3. QED
  BY <1>2 DEF WalkInv

LEMMA WalkStep == WalkInv /\ [Next]_recallVars => WalkInv'
<1> SUFFICES ASSUME WalkInv, [Next]_recallVars PROVE WalkInv'
  OBVIOUS
<1> USE DEF question
<1>0. /\ RecallTypeOK /\ ordered \in Seq(Node)
      /\ Len(ordered) \in Nat /\ DOMAIN ordered = 1..Len(ordered)
      /\ budget \in Nat
  BY LenProperties, RecallAssumption DEF WalkInv, RecallTypeOK
<1>1. CASE Unknown \/ Return
  BY <1>0, <1>1, NothingReturned DEF Unknown, Return, RecallTypeOK
<1>2. CASE Gather
  <2>1. \A c \in cand' : /\ c \in [weight : Nat \ {0}, node : Node]
                         /\ \E n \in frontier : \E e \in memory.edges :
                              {e.from, e.to} = {n, c.node}
    BY <1>2, CandidateFacts DEF Gather, WalkInv
  <2>2. \A c \in cand' : \E m \in frontier' : Linked(memory.edges, m, c.node)
    BY <1>2, <2>1 DEF Gather, Linked
  <2>3. QED
    BY <1>0, <1>2, <2>1, <2>2, NothingReturned DEF Gather, RecallTypeOK
<1>3. CASE Turn
  <2>1. nxt \subseteq seen
    BY <1>0 DEF RecallTypeOK
  <2>2. QED
    BY <1>0, <1>3, <2>1, NothingReturned DEF Turn, RecallTypeOK
<1>4. CASE Take
  <2>1. PICK c \in StrongestOf(cand) :
          /\ cand' = cand \ {c}
          /\ IF c.node \in seen
             THEN UNCHANGED <<pc, seen, ordered, frontier, nxt>>
             ELSE /\ seen' = seen \cup {c.node}
                  /\ ordered' = Append(ordered, c.node)
                  /\ nxt' = nxt \cup {c.node}
                  /\ IF Len(ordered') >= budget
                     THEN frontier' = nxt' /\ pc' = "walk"
                     ELSE UNCHANGED <<frontier, pc>>
    BY <1>4 DEF Take
  <2>2. c \in cand /\ c.node \in Node /\ UNCHANGED <<memory, start, budget>>
    BY <1>0, <1>4, <2>1 DEF Take, StrongestOf, RecallTypeOK
  <2>3. CASE c.node \in seen
    <3>1. /\ UNCHANGED <<memory, start, budget, pc, seen, ordered, frontier, nxt>>
          /\ cand' \subseteq cand
      BY <2>1, <2>2, <2>3
    <3>2. pc = "take" /\ Len(ordered) < budget
          /\ \A d \in cand : \E m \in frontier : Linked(memory.edges, m, d.node)
      BY <1>4 DEF Take, WalkInv
    <3>3. QED
      BY <1>0, <3>1, <3>2, NothingReturned DEF RecallTypeOK
  <2>4. CASE c.node \notin seen
    <3>1. /\ ordered' = Append(ordered, c.node) /\ seen' = seen \cup {c.node}
          /\ nxt' = nxt \cup {c.node} /\ cand' = cand \ {c}
          /\ \/ frontier' = nxt' /\ pc' = "walk"
             \/ frontier' = frontier /\ pc' = "take" /\ Len(ordered') < budget
      BY <1>0, <1>4, <2>1, <2>4, LenProperties, AppendProperties DEF Take
    <3>2. /\ ordered' \in Seq(Node) /\ Len(ordered') = Len(ordered) + 1
          /\ DOMAIN ordered' = 1..(Len(ordered) + 1)
          /\ \A i \in 1..Len(ordered) : ordered'[i] = ordered[i]
          /\ ordered'[Len(ordered) + 1] = c.node
      BY <1>0, <2>2, <3>1, AppendProperties, LenProperties
    <3>3. Answer' = Answer \cup {c.node}
      <4>1. ASSUME NEW x \in Answer' PROVE x \in Answer \cup {c.node}
        BY <1>0, <3>2, <4>1 DEF Answer
      <4>2. ASSUME NEW x \in Answer PROVE x \in Answer'
        <5>1. PICK i \in 1..Len(ordered) : ordered[i] = x
          BY <1>0, <4>2 DEF Answer
        <5>2. i \in DOMAIN ordered' /\ ordered'[i] = x
          BY <1>0, <3>2, <5>1
        <5>3. QED
          BY <5>2 DEF Answer
      <4>3. c.node \in Answer'
        <5>1. Len(ordered) + 1 \in DOMAIN ordered'
          BY <1>0, <3>2
        <5>2. QED
          BY <3>2, <5>1 DEF Answer
      <4>4. QED
        BY <4>1, <4>2, <4>3
    <3>4. seen = {start} \cup Answer /\ start \notin Answer
      BY <1>0 DEF RecallTypeOK
    <3>5. \A i, j \in DOMAIN ordered' : ordered'[i] = ordered'[j] => i = j
      <4>1. \A i \in 1..Len(ordered) : ordered[i] # c.node
        BY <1>0, <2>4, <3>4 DEF Answer
      <4>2. QED
        BY <1>0, <3>2, <4>1 DEF RecallTypeOK
    <3>6. Len(ordered') <= budget
      BY <1>0, <1>4, <3>2 DEF Take, WalkInv
    <3>7. RecallTypeOK'
      <4>1. frontier' \subseteq seen' /\ nxt' \subseteq Answer'
            /\ cand' \subseteq [weight : Nat \ {0}, node : Node]
        BY <1>0, <3>1, <3>3, <3>4 DEF RecallTypeOK
      <4>2. QED
        BY <2>2, <2>4, <3>1, <3>2, <3>3, <3>4, <3>5, <3>6, <4>1 DEF RecallTypeOK
    <3>8. ASSUME NEW i \in 1..(Len(ordered) + 1)
          PROVE  \/ Linked(memory.edges, start, ordered'[i])
                 \/ \E j \in 1..(i - 1) : Linked(memory.edges, ordered'[j], ordered'[i])
      <4>1. CASE i \in 1..Len(ordered)
        BY <1>0, <3>2, <4>1 DEF WalkInv
      <4>2. CASE i = Len(ordered) + 1
        <5>1. PICK m \in frontier : Linked(memory.edges, m, c.node)
          BY <1>4, <2>2 DEF Take, WalkInv
        <5>2. m = start \/ \E j \in 1..Len(ordered) : ordered[j] = m
          BY <1>0, <5>1 DEF RecallTypeOK, Answer
        <5>3. QED
          BY <1>0, <3>2, <4>2, <5>1, <5>2
      <4>3. QED
        BY <1>0, <4>1, <4>2
    <3>9. pc' = "take" => \A d \in cand' : \E m \in frontier' : Linked(memory.edges, m, d.node)
      BY <1>4, <3>1 DEF Take, WalkInv
    <3>10. /\ memory' = memory /\ start' = start /\ budget' = budget
           /\ memory \in Memories /\ start \in Node /\ budget \in Budgets
      BY <2>2 DEF WalkInv
    <3>11. pc' = "take" =>
             /\ Len(ordered') < budget'
             /\ \A d \in cand' : \E m \in frontier' : Linked(memory'.edges, m, d.node)
      BY <3>1, <3>9, <3>10
    <3>12. \A i \in DOMAIN ordered' :
             \/ Linked(memory'.edges, start', ordered'[i])
             \/ \E j \in 1..(i - 1) : Linked(memory'.edges, ordered'[j], ordered'[i])
      BY <3>2, <3>8, <3>10
    <3>13. QED
      BY <3>7, <3>10, <3>11, <3>12 DEF WalkInv
  <2>5. QED
    BY <2>3, <2>4
<1>5. CASE UNCHANGED recallVars
  <2>1. UNCHANGED <<memory, start, budget, pc, seen, ordered, frontier, cand, nxt>>
    BY <1>5 DEF recallVars
  <2>2. QED
    BY <1>0, <2>1, NothingReturned DEF RecallTypeOK, WalkInv
<1>6. QED
  BY <1>1, <1>2, <1>3, <1>4, <1>5 DEF Next

\* The inductive invariant of the walk.
THEOREM WalkInvariant == Spec => []WalkInv
BY WalkInit, WalkStep, PTL DEF Spec

\* No node is returned twice, nor the start, nor more than the budget
\* (memory/arrangement/relational.py, neighbors).
THEOREM RecallTypeCorrect == Spec => []RecallTypeOK
<1>1. WalkInv => RecallTypeOK
  BY DEF WalkInv
<1>2. QED
  BY <1>1, WalkInvariant, PTL

\* Every node returned is related to the start or to a node returned before
\* it: the answer is walked to, never scanned for (memory/recall.py, related).
THEOREM WalkedNotScanned == Spec => []AnswersAreRelated
<1>1. WalkInv => AnswersAreRelated
  BY DEF WalkInv, AnswersAreRelated
<1>2. QED
  BY <1>1, WalkInvariant, PTL

-----------------------------------------------------------------------------
(* The rings. *)

\* The walk stands before its next turn: all within d steps is met, and
\* nothing else.
WalkedTo(d) == seen = Ball[d] /\ frontier = Ring(Ball, d)

\* The walk is, or was cut off, among the candidates of ring d: what they
\* named so far is met, and none that is left is stronger than what was
\* returned for them.
TakenFrom(d) ==
  /\ seen = Ball[d] \cup nxt
  /\ nxt \subseteq Ball[d + 1] \ Ball[d]
  /\ cand \subseteq Candidates(memory.edges, Ring(Ball, d))
  /\ \A c \in Candidates(memory.edges, Ring(Ball, d)) \ cand : c.node \in seen
  /\ \A n \in nxt : \A c \in cand :
       \E v \in Inward(memory.edges, Ball, n) : c.weight <= v

RingInv ==
  /\ NearestAndStrongestFirst
  /\ pc = "take" => \E d \in 0..(Last - 1) : TakenFrom(d) /\ frontier = Ring(Ball, d)
  /\ pc # "take" =>
       \/ Len(ordered) = budget /\ \E d \in 0..(Last - 1) : TakenFrom(d)
       \/ /\ \E d \in 0..Last : WalkedTo(d)
          /\ pc = "done" => \/ start \notin memory.nodes
                            \/ frontier = {} \/ Len(ordered) = budget

LEMMA BallFacts ==
  ASSUME memory \in Memories, start \in Node
  PROVE  /\ Unfolds(Ball, memory.edges)
         /\ Ball[0] = {start} /\ Ball[0] # {} /\ Ball[0] \subseteq Node
         /\ memory.edges \subseteq Edge /\ IsFiniteSet(memory.edges)
<1>1. Unfolds(Balls(memory.edges, start), memory.edges) /\ Balls(memory.edges, start)[0] = {start}
  BY BallsUnfold DEF Unfolds
<1>2. QED
  BY <1>1, RecallAssumption DEF Ball

LEMMA RingInit == Init => RingInv
<1> SUFFICES ASSUME Init PROVE RingInv
  OBVIOUS
<1>1. memory \in Memories /\ start \in Node
  BY DEF Init
<1>2. Ball[0] = {start} /\ Ring(Ball, 0) = {start}
  BY <1>1, BallFacts DEF Ring
<1>3. 0 \in 0..Last /\ WalkedTo(0)
  BY <1>2, LastType DEF Init, WalkedTo
<1>4. NearestAndStrongestFirst
  BY DEF Init, NearestAndStrongestFirst
<1>5. QED
  BY <1>3, <1>4 DEF Init, RingInv

\* Whatever was returned may come before a node of the next ring that is
\* not met yet.
LEMMA NoneLeftStronger ==
  ASSUME WalkInv, NEW d \in 0..(Last - 1), TakenFrom(d),
         NEW n \in Answer, NEW x \in Ball[d + 1] \ Ball[d], x \notin seen
  PROVE  MayPrecede(n, x)
<1>1. memory \in Memories /\ start \in Node /\ RecallTypeOK
  BY DEF WalkInv
<1>2. d \in 0..Last /\ Distance(Ball, x) = d + 1
  BY <1>1, LastType, BallFacts, DistanceNext
<1>3. n \in Ball[d] \/ n \in nxt
  BY <1>1 DEF RecallTypeOK, TakenFrom
<1>4. CASE n \in Ball[d]
  <2>1. Distance(Ball, n) \in 0..d
    BY <1>2, <1>4, DistanceExists
  <2>2. QED
    BY <1>2, <2>1 DEF MayPrecede, Precedes
<1>5. CASE n \in nxt
  <2>1. Distance(Ball, n) = d + 1
    BY <1>1, <1>5, BallFacts, DistanceNext DEF TakenFrom
  <2>2. ASSUME NEW w \in Inward(memory.edges, Ball, x)
        PROVE  \E v \in Inward(memory.edges, Ball, n) : w <= v
    <3>1. PICK e \in Candidates(memory.edges, Ring(Ball, d)) : e.node = x /\ e.weight = w
      BY <1>1, <2>2, BallFacts, RingCandidates
    <3>2. e \in cand
      BY <3>1 DEF TakenFrom
    <3>3. QED
      BY <1>5, <3>1, <3>2 DEF TakenFrom
  <2>3. QED
    BY <1>2, <2>1, <2>2 DEF MayPrecede, Precedes
<1>6. QED
  BY <1>3, <1>4, <1>5

\* A candidate that is not met yet is of the next ring.
LEMMA CandidateOfNextRing ==
  ASSUME WalkInv, NEW d \in 0..(Last - 1), TakenFrom(d), NEW c \in cand, c.node \notin seen
  PROVE  /\ c.node \in Ball[d + 1] \ Ball[d]
         /\ c.weight \in Inward(memory.edges, Ball, c.node)
<1>1. memory \in Memories /\ start \in Node
  BY DEF WalkInv
<1>2. c \in Candidates(memory.edges, Ring(Ball, d))
  BY DEF TakenFrom
<1>3. c.node \in Ball[d + 1] \ Ball[d]
  BY <1>1, <1>2, BallFacts, RingCandidates DEF TakenFrom
<1>4. QED
  BY <1>1, <1>2, <1>3, BallFacts, RingCandidates

LEMMA RingStep == WalkInv /\ RingInv /\ [Next]_recallVars => RingInv'
<1> SUFFICES ASSUME WalkInv, RingInv, [Next]_recallVars PROVE RingInv'
  OBVIOUS
<1> USE DEF question
<1>0. /\ memory \in Memories /\ start \in Node /\ budget \in Nat /\ RecallTypeOK
      /\ ordered \in Seq(Node) /\ Len(ordered) \in Nat /\ DOMAIN ordered = 1..Len(ordered)
      /\ Len(ordered) <= budget
  BY LenProperties, RecallAssumption DEF WalkInv, RecallTypeOK
<1>full. /\ Len(ordered) >= budget => Len(ordered) = budget
         /\ Len(ordered) < budget => Len(ordered) # budget
  <2>1. Len(ordered) \in Nat /\ budget \in Nat /\ Len(ordered) <= budget
    BY <1>0
  <2>2. \A i, j \in Nat : i <= j => (i >= j => i = j) /\ (i < j => i # j)
    OBVIOUS
  <2>3. QED
    BY <2>1, <2>2, Zenon
<1>1. /\ memory' = memory /\ start' = start /\ budget' = budget /\ Ball' = Ball
      /\ \A n, m : MayPrecede(n, m)' <=> MayPrecede(n, m)
  <2>1. memory' = memory /\ start' = start /\ budget' = budget
    BY DEF Next, Unknown, Gather, Take, Turn, Return, recallVars
  <2>2. Ball' = Ball
    BY <2>1 DEF Ball
  <2>3. QED
    BY <2>1, <2>2 DEF MayPrecede
<1>2. ordered' = ordered => NearestAndStrongestFirst'
  BY <1>1 DEF RingInv, NearestAndStrongestFirst
<1>3. CASE Unknown
  <2>1. pc = "walk" /\ pc' = "done" /\ start \notin memory.nodes
        /\ UNCHANGED <<seen, ordered, frontier, cand, nxt>>
    BY <1>3 DEF Unknown
  <2>2. /\ \A d : TakenFrom(d)' <=> TakenFrom(d)
        /\ \A d : WalkedTo(d)' <=> WalkedTo(d)
    BY <1>1, <2>1 DEF TakenFrom, WalkedTo
  <2>3. QED
    BY <1>1, <1>2, <2>1, <2>2 DEF RingInv
<1>4. CASE Return
  <2>0. /\ pc = "walk" /\ pc' = "done" /\ (frontier = {} \/ Len(ordered) >= budget)
        /\ UNCHANGED <<seen, ordered, frontier, cand, nxt>>
    BY <1>4 DEF Return
  <2>1. /\ pc = "walk" /\ pc' = "done" /\ (frontier = {} \/ Len(ordered) = budget)
        /\ UNCHANGED <<seen, ordered, frontier, cand, nxt>>
    BY <1>full, <2>0, Zenon
  <2>2. /\ \A d : TakenFrom(d)' <=> TakenFrom(d)
        /\ \A d : WalkedTo(d)' <=> WalkedTo(d)
    BY <1>1, <2>1 DEF TakenFrom, WalkedTo
  <2>3. QED
    BY <1>1, <1>2, <2>1, <2>2 DEF RingInv
<1>5. CASE Gather
  <2>1. /\ pc = "walk" /\ pc' = "take" /\ frontier # {} /\ Len(ordered) < budget
        /\ cand' = Candidates(memory.edges, frontier) /\ nxt' = {}
        /\ UNCHANGED <<seen, ordered, frontier>>
    BY <1>5 DEF Gather
  <2>2. PICK d \in 0..Last : WalkedTo(d)
    <3>1. pc # "take" /\ Len(ordered) # budget
      <4>1. pc = "walk" /\ Len(ordered) < budget
        BY <2>1
      <4>2. QED
        BY <1>full, <4>1, Zenon
    <3>2. QED
      BY <3>1, Zenon DEF RingInv
  <2>3. d \in 0..(Last - 1)
    BY <1>0, <2>1, <2>2, BallFacts, RingsEndInTime DEF WalkedTo
  <2>4. TakenFrom(d)' /\ frontier' = Ring(Ball', d)
    BY <1>1, <2>1, <2>2 DEF TakenFrom, WalkedTo
  <2>5. QED
    BY <1>2, <2>1, <2>3, <2>4 DEF RingInv
<1>6. CASE Turn
  <2>1. /\ pc = "take" /\ pc' = "walk" /\ cand = {} /\ frontier' = nxt
        /\ UNCHANGED <<seen, ordered>>
    BY <1>6 DEF Turn
  <2>2. PICK d \in 0..(Last - 1) : TakenFrom(d)
    BY <2>1 DEF RingInv
  <2>3. d + 1 \in 0..Last /\ d \in 0..Last /\ d + 1 # 0 /\ d + 1 - 1 = d
    BY LastType
  <2>4. Ball[d] \subseteq Ball[d + 1]
    BY <1>0, <2>3, BallFacts, BallsGrow, LastType
  <2>5. \A n \in Ball[d + 1] \ Ball[d] : n \in nxt
    <3>1. SUFFICES ASSUME NEW n \in Ball[d + 1] \ Ball[d] PROVE n \in nxt
      OBVIOUS
    <3>2. \E c \in Candidates(memory.edges, Ring(Ball, d)) : c.node = n
      BY <1>0, BallFacts, RingCandidates
    <3>3. n \in seen
      BY <2>1, <2>2, <3>2 DEF TakenFrom
    <3>4. QED
      BY <2>2, <3>3 DEF TakenFrom
  <2>6. seen = Ball[d + 1] /\ nxt = Ring(Ball, d + 1)
    BY <2>2, <2>3, <2>4, <2>5 DEF TakenFrom, Ring
  <2>7. WalkedTo(d + 1)'
    BY <1>1, <2>1, <2>6 DEF WalkedTo
  <2>8. QED
    BY <1>2, <2>1, <2>3, <2>7 DEF RingInv
<1>7. CASE Take
  <2>1. PICK c \in StrongestOf(cand) :
          /\ cand' = cand \ {c}
          /\ IF c.node \in seen
             THEN UNCHANGED <<pc, seen, ordered, frontier, nxt>>
             ELSE /\ seen' = seen \cup {c.node}
                  /\ ordered' = Append(ordered, c.node)
                  /\ nxt' = nxt \cup {c.node}
                  /\ IF Len(ordered') >= budget
                     THEN frontier' = nxt' /\ pc' = "walk"
                     ELSE UNCHANGED <<frontier, pc>>
    BY <1>7 DEF Take
  <2>2. pc = "take" /\ Len(ordered) < budget
    BY <1>7 DEF Take, WalkInv
  <2>3. PICK d \in 0..(Last - 1) : TakenFrom(d) /\ frontier = Ring(Ball, d)
    BY <2>2 DEF RingInv
  <2>4. /\ c \in cand /\ \A e \in cand : e.weight <= c.weight
        /\ c.node \in Node
    BY <1>0, <2>1 DEF StrongestOf, RecallTypeOK
  <2>5. CASE c.node \in seen
    <3>1. UNCHANGED <<pc, seen, ordered, frontier, nxt>> /\ cand' = cand \ {c}
      BY <2>1, <2>5
    <3>2. TakenFrom(d)'
      BY <1>1, <2>3, <2>5, <3>1 DEF TakenFrom
    <3>3. QED
      BY <1>1, <1>2, <2>2, <2>3, <3>1, <3>2 DEF RingInv
  <2>6. CASE c.node \notin seen
    <3>1. /\ seen' = seen \cup {c.node} /\ ordered' = Append(ordered, c.node)
          /\ nxt' = nxt \cup {c.node} /\ cand' = cand \ {c}
          /\ \/ Len(ordered') >= budget /\ pc' = "walk"
             \/ frontier' = frontier /\ pc' = "take"
      BY <2>1, <2>2, <2>6
    <3>2. /\ Len(ordered') = Len(ordered) + 1 /\ DOMAIN ordered' = 1..(Len(ordered) + 1)
          /\ \A i \in 1..Len(ordered) : ordered'[i] = ordered[i]
          /\ ordered'[Len(ordered) + 1] = c.node
      BY <1>0, <2>4, <3>1, AppendProperties, LenProperties
    <3>3. /\ c.node \in Ball[d + 1] \ Ball[d]
          /\ c.weight \in Inward(memory.edges, Ball, c.node)
          /\ \A n \in Answer : MayPrecede(n, c.node)
      BY <2>3, <2>4, <2>6, CandidateOfNextRing, NoneLeftStronger
    <3>4. TakenFrom(d)'
      <4>1. /\ seen' = Ball[d] \cup nxt' /\ nxt' \subseteq Ball[d + 1] \ Ball[d]
            /\ cand' \subseteq Candidates(memory.edges, Ring(Ball, d))
        BY <2>3, <3>1, <3>3 DEF TakenFrom
      <4>2. \A e \in Candidates(memory.edges, Ring(Ball, d)) \ cand' : e.node \in seen'
        BY <2>3, <3>1 DEF TakenFrom
      <4>3. \A n \in nxt' : \A e \in cand' :
              \E v \in Inward(memory.edges, Ball, n) : e.weight <= v
        BY <2>3, <2>4, <3>1, <3>3 DEF TakenFrom
      <4>4. QED
        BY <1>1, <4>1, <4>2, <4>3 DEF TakenFrom
    <3>5. NearestAndStrongestFirst'
      <4>1. \A n \in Answer : MayPrecede(n, c.node)
        BY <3>3
      <4>2. \A i \in 1..Len(ordered) : ordered[i] \in Answer
        BY <1>0 DEF Answer
      <4>3. ASSUME NEW i \in DOMAIN ordered', NEW j \in DOMAIN ordered', i < j
            PROVE  MayPrecede(ordered'[i], ordered'[j])
        <5>1. i \in 1..Len(ordered)
          BY <1>0, <3>2, <4>3
        <5>2. CASE j \in 1..Len(ordered)
          <6>1. MayPrecede(ordered[i], ordered[j])
            BY <1>0, <4>3, <5>1, <5>2 DEF RingInv, NearestAndStrongestFirst
          <6>2. QED
            BY <3>2, <5>1, <5>2, <6>1
        <5>3. CASE j = Len(ordered) + 1
          BY <3>2, <4>1, <4>2, <5>1, <5>3
        <5>4. QED
          BY <1>0, <3>2, <4>3, <5>2, <5>3
      <4>4. QED
        BY <1>1, <4>3 DEF NearestAndStrongestFirst, MayPrecede
    <3>6. Len(ordered') >= budget => Len(ordered') = budget'
      BY <1>0, <1>1, <2>2, <3>2
    <3>7. QED
      BY <1>1, <2>3, <3>1, <3>4, <3>5, <3>6 DEF RingInv
  <2>7. QED
    BY <2>5, <2>6
<1>8. CASE UNCHANGED recallVars
  <2>1. UNCHANGED <<memory, start, budget, pc, seen, ordered, frontier, cand, nxt>>
    BY <1>8 DEF recallVars
  <2>2. /\ \A d : TakenFrom(d)' <=> TakenFrom(d)
        /\ \A d : WalkedTo(d)' <=> WalkedTo(d)
    BY <1>1, <2>1 DEF TakenFrom, WalkedTo
  <2>3. QED
    BY <1>1, <1>2, <2>1, <2>2 DEF RingInv
<1>9. QED
  BY <1>3, <1>4, <1>5, <1>6, <1>7, <1>8 DEF Next

\* The inductive invariant of the order.
THEOREM RingInvariant == Spec => [](WalkInv /\ RingInv)
<1>1. WalkInv /\ RingInv /\ [Next]_recallVars => (WalkInv /\ RingInv)'
  BY WalkStep, RingStep
<1>2. QED
  BY WalkInit, RingInit, <1>1, PTL DEF Spec

\* Nearest relationships first, and the most strongly related first within
\* a ring, on every graph (memory/arrangement/relational.py, neighbors).
THEOREM AnswersInOrder == Spec => []NearestAndStrongestFirst
<1>1. RingInv => NearestAndStrongestFirst
  BY DEF RingInv
<1>2. QED
  BY <1>1, RingInvariant, PTL

\* A node within reach that is not within d steps is further away.
LEMMA Farther ==
  ASSUME NEW ball, NEW edges, Unfolds(ball, edges), ball[0] \subseteq Node,
         NEW d \in 0..Last, NEW n \in ball[Last], n \notin ball[d]
  PROVE  Distance(ball, n) \in (d + 1)..Last /\ n \in ball[Distance(ball, n)]
<1>1. Last \in 0..Last
  BY LastType
<1>2. Distance(ball, n) \in 0..Last /\ n \in ball[Distance(ball, n)]
  BY <1>1, DistanceExists
<1>3. \A j \in 0..d : ball[j] \subseteq ball[d]
  BY BallsGrow
<1>4. Distance(ball, n) \notin 0..d
  BY <1>2, <1>3
<1>5. QED
  BY <1>2, <1>4, LastType

\* The order, and a walk that ended with nothing left to walk to or with
\* its budget used up.
LEMMA LeftOut == WalkInv /\ RingInv => NothingBetterLeftOut
<1> SUFFICES ASSUME WalkInv, RingInv, pc = "done", start \in memory.nodes,
                    NEW n \in Reachable \ Answer
             PROVE  Len(ordered) = budget /\ \A m \in Answer : MayPrecede(m, n)
  BY DEF NothingBetterLeftOut
<1>1. memory \in Memories /\ start \in Node /\ RecallTypeOK
  BY DEF WalkInv
<1>2. n \in Ball[Last] /\ n \notin seen
  BY <1>1 DEF Reachable, RecallTypeOK, Last
<1>3. \/ Len(ordered) = budget /\ \E d \in 0..(Last - 1) : TakenFrom(d)
      \/ (\E d \in 0..Last : WalkedTo(d)) /\ (frontier = {} \/ Len(ordered) = budget)
  BY Zenon DEF RingInv
<1>4. CASE Len(ordered) = budget /\ \E d \in 0..(Last - 1) : TakenFrom(d)
  <2>1. PICK d \in 0..(Last - 1) : TakenFrom(d)
    BY <1>4
  <2>2. n \notin Ball[d] /\ d \in 0..Last /\ d + 1 \in 0..Last
    BY <1>2, <2>1, LastType DEF TakenFrom
  <2>3. Distance(Ball, n) \in (d + 1)..Last /\ n \in Ball[Distance(Ball, n)]
    BY <1>1, <1>2, <2>2, BallFacts, Farther
  <2>4. CASE Distance(Ball, n) = d + 1
    BY <1>1, <1>2, <1>4, <2>1, <2>2, <2>3, <2>4, NoneLeftStronger
  <2>5. CASE Distance(Ball, n) # d + 1
    <3>1. SUFFICES ASSUME NEW m \in Answer PROVE MayPrecede(m, n)
      BY <1>4
    <3>2. m \in Ball[d] \/ m \in Ball[d + 1]
      BY <1>1, <2>1 DEF RecallTypeOK, TakenFrom
    <3>3. Distance(Ball, m) \in 0..(d + 1)
      BY <2>2, <3>2, DistanceExists, LastType
    <3>4. QED
      BY <2>2, <2>3, <2>5, <3>3, LastType DEF MayPrecede, Precedes
  <2>6. QED
    BY <2>4, <2>5
<1>5. CASE (\E d \in 0..Last : WalkedTo(d)) /\ (frontier = {} \/ Len(ordered) = budget)
  <2>1. PICK d \in 0..Last : WalkedTo(d)
    BY <1>5
  <2>2. n \notin Ball[d] /\ Answer \subseteq Ball[d]
    BY <1>1, <1>2, <2>1 DEF RecallTypeOK, WalkedTo
  <2>3. frontier # {}
    BY <1>1, <1>2, <2>1, <2>2, BallFacts, EmptyRingEnds DEF WalkedTo
  <2>4. Distance(Ball, n) \in (d + 1)..Last
    BY <1>1, <1>2, <2>2, BallFacts, Farther
  <2>5. ASSUME NEW m \in Answer PROVE MayPrecede(m, n)
    <3>1. Distance(Ball, m) \in 0..d
      BY <2>2, DistanceExists
    <3>2. QED
      BY <2>4, <3>1, LastType DEF MayPrecede, Precedes
  <2>6. QED
    BY <1>5, <2>3, <2>5
<1>6. QED
  BY <1>3, <1>4, <1>5

\* What is left out is left out for want of budget, and nothing returned
\* should have given way to it (memory/arrangement/relational.py, neighbors).
THEOREM BestWithinBudget == Spec => []NothingBetterLeftOut
BY LeftOut, RingInvariant, PTL

-----------------------------------------------------------------------------
(* The walk comes to its end. *)

LEMMA CandidatesFinite ==
  ASSUME NEW edges, NEW ring, IsFiniteSet(edges)
  PROVE  IsFiniteSet(Candidates(edges, ring))
<1> DEFINE out == {e \in edges : e.from \in ring}
           inn == {e \in edges : e.to \in ring}
           outTo == {[weight |-> e.weight, node |-> e.to] : e \in out}
           inFrom == {[weight |-> e.weight, node |-> e.from] : e \in inn}
<1>1. IsFiniteSet(out) /\ IsFiniteSet(inn)
  <2>1. out \in SUBSET edges /\ inn \in SUBSET edges
    OBVIOUS
  <2>2. QED
    BY <2>1, FS_Subset
<1>2. Candidates(edges, ring) = outTo \cup inFrom
  BY Zenon DEF Candidates
<1>3. IsFiniteSet(outTo)
  <2>1. [e \in out |-> [weight |-> e.weight, node |-> e.to]] \in Surjection(out, outTo)
    BY DEF Surjection
  <2> HIDE DEF out, outTo
  <2>2. QED
    BY <1>1, <2>1, FS_Surjection
<1>4. IsFiniteSet(inFrom)
  <2>1. [e \in inn |-> [weight |-> e.weight, node |-> e.from]] \in Surjection(inn, inFrom)
    BY DEF Surjection
  <2> HIDE DEF inn, inFrom
  <2>2. QED
    BY <1>1, <2>1, FS_Surjection
<1> HIDE DEF outTo, inFrom
<1>5. QED
  BY <1>2, <1>3, <1>4, FS_Union

\* Of finitely many candidates one is strongest.
LEMMA StrongestExists ==
  ASSUME NEW C, C \subseteq [weight : Nat \ {0}, node : Node], IsFiniteSet(C), C # {}
  PROVE  StrongestOf(C) # {}
<1> DEFINE Lacks(S) == /\ S \subseteq [weight : Nat \ {0}, node : Node]
                       /\ IsFiniteSet(S) /\ S # {} /\ StrongestOf(S) = {}
           T == {k \in Nat : \E S \in SUBSET C : Lacks(S) /\ Cardinality(S) = k}
<1>1. SUFFICES ASSUME StrongestOf(C) = {} PROVE FALSE
  OBVIOUS
<1>2. Cardinality(C) \in T
  <2>1. Cardinality(C) \in Nat /\ Lacks(C)
    BY <1>1, FS_CardinalityType
  <2> HIDE DEF Lacks
  <2>2. QED
    BY <2>1
<1>3. T \subseteq Nat
  OBVIOUS
<1>4. \A k \in T : k \in Nat /\ \E S \in SUBSET C : Lacks(S) /\ Cardinality(S) = k
  OBVIOUS
<1>5. \A S \in SUBSET C : Lacks(S) /\ Cardinality(S) \in Nat => Cardinality(S) \in T
  OBVIOUS
<1> HIDE DEF T
<1>6. PICK k \in T : \A y \in T : k <= y
  BY <1>2, <1>3, LeastElement
<1>7. PICK S \in SUBSET C : Lacks(S) /\ Cardinality(S) = k
  BY <1>4, <1>6
<1>8. PICK c \in S : TRUE
  BY <1>7
<1>9. \A d \in S : d.weight \in Nat
  BY <1>7
<1>10. /\ IsFiniteSet(S \ {c}) /\ Cardinality(S \ {c}) = k - 1
       /\ Cardinality(S \ {c}) \in Nat /\ k \in Nat
  <2>1. IsFiniteSet(S \ {c}) /\ Cardinality(S \ {c}) = Cardinality(S) - 1
    BY <1>7, <1>8, FS_RemoveElement
  <2>2. QED
    BY <1>4, <1>6, <1>7, <2>1, FS_CardinalityType
<1>11. CASE S \ {c} = {}
  <2>1. c \in StrongestOf(S)
    BY <1>8, <1>9, <1>11 DEF StrongestOf
  <2>2. QED
    BY <1>7, <2>1
<1>12. CASE S \ {c} # {}
  <2>1. ~ Lacks(S \ {c})
    <3> HIDE DEF Lacks
    <3>1. k - 1 \notin T
      BY <1>3, <1>6, <1>10
    <3>2. S \ {c} \in SUBSET C
      OBVIOUS
    <3>3. QED
      BY <1>5, <1>10, <3>1, <3>2
  <2>2. PICK d \in S \ {c} : \A e \in S \ {c} : e.weight <= d.weight
    BY <1>7, <1>10, <1>12, <2>1 DEF StrongestOf
  <2>3. CASE d.weight <= c.weight
    <3>1. c \in StrongestOf(S)
      BY <1>8, <1>9, <2>2, <2>3 DEF StrongestOf
    <3>2. QED
      BY <1>7, <3>1
  <2>4. CASE ~ (d.weight <= c.weight)
    <3>1. d \in StrongestOf(S)
      BY <1>8, <1>9, <2>2, <2>4 DEF StrongestOf
    <3>2. QED
      BY <1>7, <3>1
  <2>5. QED
    BY <2>3, <2>4
<1>13. QED
  BY <1>11, <1>12

LEMMA CandFinite ==
  ASSUME WalkInv, RingInv, pc = "take"
  PROVE  IsFiniteSet(cand) /\ cand \subseteq [weight : Nat \ {0}, node : Node]
<1>1. PICK d \in 0..(Last - 1) : TakenFrom(d)
  BY DEF RingInv
<1>2. memory \in Memories /\ start \in Node
  BY DEF WalkInv
<1>3. IsFiniteSet(Candidates(memory.edges, Ring(Ball, d)))
  BY <1>2, BallFacts, CandidatesFinite
<1>4. cand \in SUBSET Candidates(memory.edges, Ring(Ball, d))
  BY <1>1 DEF TakenFrom
<1>5. QED
  BY <1>3, <1>4, FS_Subset DEF WalkInv, RecallTypeOK

CanGoOn == pc = "take" => cand = {} \/ StrongestOf(cand) # {}

\* Among the candidates that are left there is a strongest one: until it is
\* done the walk has a step to take (relational.py, the loop over cand).
THEOREM WalkNeverStuck == Spec => []CanGoOn
<1>1. WalkInv /\ RingInv => CanGoOn
  BY CandFinite, StrongestExists DEF CanGoOn
<1>2. QED
  BY <1>1, RingInvariant, PTL

\* Gather uses up the turn a new ring was good for; Take a candidate, and
\* of a new node its place among those not met; Turn and the ends a turn.
LEMMA DescentStep ==
  WalkInv /\ RingInv /\ [Next]_recallVars
    => [Unmet' < Unmet \/ (Unmet' = Unmet /\ Turns' < Turns)]_recallVars
<1> SUFFICES ASSUME WalkInv, RingInv, Next
             PROVE  Unmet' < Unmet \/ (Unmet' = Unmet /\ Turns' < Turns)
  BY DEF recallVars, question
<1> USE DEF question
<1> DEFINE left == Cardinality(Node \ seen)
<1>1. left \in Nat /\ IsFiniteSet(Node \ seen)
  BY LastType, FS_Subset, FS_CardinalityType
<1>2. CASE Unknown
  <2>1. pc = "walk" /\ pc' = "done" /\ seen' = seen /\ frontier' = frontier
    BY <1>2 DEF Unknown
  <2>2. QED
    BY <1>1, <2>1 DEF Unmet, Turns
<1>3. CASE Return
  <2>1. pc = "walk" /\ pc' = "done" /\ seen' = seen /\ frontier' = frontier
    BY <1>3 DEF Return
  <2>2. QED
    BY <1>1, <2>1 DEF Unmet, Turns
<1>4. CASE Gather
  <2>1. pc = "walk" /\ pc' = "take" /\ seen' = seen /\ frontier # {} /\ nxt' = {}
    BY <1>4 DEF Gather
  <2>2. Unmet = left + 1 /\ Unmet' = left
    BY <1>1, <2>1 DEF Unmet
  <2>3. QED
    BY <1>1, <2>2
<1>5. CASE Turn
  <2>1. pc = "take" /\ pc' = "walk" /\ seen' = seen /\ frontier' = nxt /\ cand = {}
    BY <1>5 DEF Turn
  <2>2. Unmet' = Unmet
    BY <2>1 DEF Unmet
  <2>3. Turns = 2 /\ Turns' = 1
    BY <2>1, FS_EmptySet DEF Turns
  <2>4. QED
    BY <2>2, <2>3
<1>6. CASE Take
  <2>1. PICK c \in StrongestOf(cand) :
          /\ cand' = cand \ {c}
          /\ IF c.node \in seen
             THEN UNCHANGED <<pc, seen, ordered, frontier, nxt>>
             ELSE /\ seen' = seen \cup {c.node}
                  /\ ordered' = Append(ordered, c.node)
                  /\ nxt' = nxt \cup {c.node}
                  /\ IF Len(ordered') >= budget
                     THEN frontier' = nxt' /\ pc' = "walk"
                     ELSE UNCHANGED <<frontier, pc>>
    BY <1>6 DEF Take
  <2>2. pc = "take" /\ c \in cand
    BY <1>6, <2>1 DEF Take, StrongestOf
  <2>3. /\ IsFiniteSet(cand) /\ cand \subseteq [weight : Nat \ {0}, node : Node]
        /\ Cardinality(cand) \in Nat
    BY <2>2, CandFinite, FS_CardinalityType
  <2>4. Cardinality(cand') = Cardinality(cand) - 1 /\ Cardinality(cand') \in Nat
    BY <2>1, <2>2, <2>3, FS_RemoveElement, FS_CardinalityType
  <2>5. pc' \in {"walk", "take"}
    BY <2>1, <2>2
  <2>6. Turns' < Turns
    BY <2>2, <2>3, <2>4, <2>5 DEF Turns
  <2>7. CASE c.node \in seen
    <3>1. UNCHANGED <<pc, seen, frontier, nxt>>
      BY <2>1, <2>7
    <3>2. Unmet' = Unmet
      BY <3>1 DEF Unmet
    <3>3. QED
      BY <2>6, <3>2
  <2>8. CASE c.node \notin seen
    <3>1. /\ seen' = seen \cup {c.node} /\ nxt' = nxt \cup {c.node}
          /\ pc' = "walk" => frontier' = nxt'
      BY <2>1, <2>2, <2>8
    <3>2. c.node \in Node \ seen
      BY <2>2, <2>3, <2>8
    <3>3. Node \ seen' = (Node \ seen) \ {c.node}
      BY <3>1
    <3>4. Cardinality(Node \ seen') = left - 1
      BY <1>1, <3>2, <3>3, FS_RemoveElement
    <3>5. Unmet' = left
      BY <1>1, <2>5, <3>1, <3>4 DEF Unmet
    <3>6. Unmet \in {left, left + 1}
      BY <1>1 DEF Unmet
    <3>7. QED
      BY <1>1, <2>6, <3>5, <3>6
  <2>9. QED
    BY <2>7, <2>8
<1>7. QED
  BY <1>2, <1>3, <1>4, <1>5, <1>6 DEF Next

\* Every turn brings the walk nearer its end, in circles of relationships
\* too (memory/arrangement/relational.py, neighbors).
THEOREM EveryTurnDescends == Spec => WalkDescends
BY DescentStep, RingInvariant, PTL DEF Spec, WalkDescends
=============================================================================

------------------------------ MODULE MCRecall ------------------------------
(* Instances of Recall for TLC. *)
EXTENDS Recall

CONSTANT Size

MCNode == 1..Size

Pairs == {p \in MCNode \X MCNode : p[1] < p[2]}

\* Two nodes are unrelated, related weakly one way, or strongly the other.
EdgesOf(p, how) ==
  CASE how = "none"   -> {}
    [] how = "weak"   -> {[from |-> p[1], to |-> p[2], weight |-> 1]}
    [] how = "strong" -> {[from |-> p[2], to |-> p[1], weight |-> 2]}

\* The last one does not know node 1.
MCMemories ==
  {[nodes |-> MCNode, edges |-> UNION {EdgesOf(p, how[p]) : p \in Pairs}] :
     how \in [Pairs -> {"none", "weak", "strong"}]}
  \cup {[nodes |-> 2..Size, edges |-> {}]}

MCBudgets == {0, 2, 3, Size}
=============================================================================

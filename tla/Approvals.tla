------------------------------ MODULE Approvals -----------------------------
(***************************************************************************)
(* The approval queue (membrane/approval.py) beside the cycle of Loop, for *)
(* ever: what becomes of an action the operator was asked about.  The rows *)
(* of LoopRecords tell attempts apart and so end with a bound; here rows   *)
(* that show the same are one, and the loop runs on without any.           *)
(***************************************************************************)
EXTENDS Loop

VARIABLE queue      \* what the rows of table approvals show

approvalVars == <<vars, queue>>

Request(a, status) == [kind |-> a.kind, about |-> a.about, status |-> status]

AInit == Init /\ queue = {}

\* request
AEnqueue ==
  /\ Enqueue
  /\ queue' = queue \cup {Request(action, "PENDING")}

\* The steps of the cycle that leave the table alone: all others.
AQuiet ==
  /\ pc # "enqueue"
  /\ LoopStep
  /\ UNCHANGED queue

AFailure ==
  /\ Raise \/ Kill \/ Restart \/ Arrive
  /\ UNCHANGED queue

\* approve and deny: the row that is decided may be one of several that show
\* the same.
ADecide ==
  /\ \E r \in queue, status \in {"APPROVED", "DENIED"} :
       \E others \in {queue, queue \ {r}} :
         queue' = others \cup {[r EXCEPT !.status = status]}
  /\ UNCHANGED vars

ACycle == AEnqueue \/ AQuiet

ANext == ACycle \/ AFailure \/ ADecide

\* As in Loop, the scheduler goes on; nothing makes the operator decide.
AFairSpec == AInit /\ [][ANext]_approvalVars /\ WF_approvalVars(ACycle)

-----------------------------------------------------------------------------

Related(n) == \E e \in graph.edges : n \in {e[1], e[2]}

\* Actions "BLOCK until a human decides" (approval.py): where the operator has
\* approved that a node is related, and every source is seen again and again,
\* the node is related in the end, or he has changed his mind.
ApprovedIsDone ==
  (StaysUp /\ []<>(pc = "select" /\ stale = {})) =>
    \A n \in Source :
      LET approved == Request(Proposal("relate_memory", "DRAFT", n), "APPROVED") IN
        (approved \in queue) ~> (approved \notin queue \/ Related(n))
=============================================================================

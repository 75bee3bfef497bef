----------------------------- MODULE LoopProofs -----------------------------
(***************************************************************************)
(* The invariants of Loop, for every set of sources, every mail, every     *)
(* configuration of the membrane and every choice of what may fail.        *)
(***************************************************************************)
EXTENDS Loop, MemoryProofs

\* How far the cycle is, and what it knows there.
CycleInv ==
  /\ pc \in {"idle", "down"} => action = NoAction
  /\ pc \notin {"idle", "down"} => Source \subseteq stale \cup readings
  /\ pc = "integrate" => at <= Len(SourceOrder)
  /\ ActsOnFreshReferencesOnly

\* How the graph and its file relate at each step.
MemoryInv ==
  /\ pc = "relate" => action.about \in Isolated(graph)
  /\ ~file.readable => file = Unreadable
  /\ Forest(graph) /\ Forest(file.graph)
  /\ MemoryNeverBehindItsFile
  /\ RecordedMemoryIsSaved

LoopInv == TypeOK /\ CycleInv /\ MemoryInv

-----------------------------------------------------------------------------
(* Facts about the values the actions compute. *)

LEMMA MailIsFinite == Len(Mail) \in Nat /\ Len(SourceOrder) \in Nat \ {0}
<1>1. Len(Mail) \in Nat /\ Len(SourceOrder) \in Nat
  BY LoopAssumption, LenProperties
<1>2. DOMAIN SourceOrder = 1..Len(SourceOrder) /\ DOMAIN SourceOrder # {}
  BY LoopAssumption, LenProperties
<1>3. QED
  BY <1>1, <1>2

LEMMA SourcesInOrder ==
  ASSUME NEW i \in 1..Len(SourceOrder)
  PROVE  SourceOrder[i] \in Source
BY LoopAssumption, ElementOfSeq

\* The orientation guard never refuses what the loop proposes, and memory is
\* only related when nothing is stale.
LEMMA SelectedAction ==
  ASSUME NEW g \in Graph, NEW lost
  PROVE  LET a == EarnMyKeep(ActionForGap(g, lost)) IN
         /\ a.mode \in Modes
         /\ \/ /\ a.kind = "relate_memory"
               /\ a.about \in Isolated(g)
               /\ lost = {}
            \/ /\ a.kind = "report_to_operator"
               /\ a.about = Nothing
<1> DEFINE a == ActionForGap(g, lost)
<1>1. CASE lost = {} /\ Isolated(g) # {}
  <2>1. a = Proposal("relate_memory", "DRAFT", FirstIsolated(g))
    BY <1>1 DEF ActionForGap
  <2>2. EarnMyKeep(a) = a
    BY <2>1 DEF EarnMyKeep, SelfNegating, SelfNegatingKinds, Proposal
  <2>3. FirstIsolated(g) \in Isolated(g)
    BY <1>1, FirstIsolatedIsIsolated
  <2>4. QED
    BY <1>1, <2>1, <2>2, <2>3 DEF Proposal, Modes
<1>2. CASE ~(lost = {} /\ Isolated(g) # {})
  <2>1. a = Proposal("report_to_operator", "EXPLORE", Nothing)
    BY <1>2 DEF ActionForGap
  <2>2. EarnMyKeep(a) = a
    BY <2>1 DEF EarnMyKeep, SelfNegating, SelfNegatingKinds, Proposal
  <2>3. QED
    BY <2>1, <2>2 DEF Proposal, Modes
<1>3. QED
  BY <1>1, <1>2

LEMMA NoActionType ==
  /\ NoAction.kind = "none" /\ NoAction.mode \in Modes
  /\ NoAction.about = Nothing
BY DEF NoAction, Proposal, Modes

\* A graph that knows no less than NoMemory is any graph.
LEMMA NoMemoryWithin ==
  ASSUME NEW g
  PROVE  Within(NoMemory, g)
BY NoMemoryIsGraph DEF Within

-----------------------------------------------------------------------------
(* The initial states, and the ends of a cycle. *)

LEMMA InitInv == Init => LoopInv
<1> SUFFICES ASSUME Init PROVE LoopInv
  OBVIOUS
<1>1. TypeOK
  BY MailIsFinite, NoMemoryIsGraph, NoActionType
  DEF Init, TypeOK, Steps, Unreadable, SnapshotFile, Results
<1>2. CycleInv
  BY NoActionType DEF Init, CycleInv, ActsOnFreshReferencesOnly
<1>3. MemoryInv
  BY NoMemoryIsForest, NoMemoryWithin
  DEF Init, MemoryInv, Unreadable, MemoryNeverBehindItsFile, RecordedMemoryIsSaved
<1>4. QED
  BY <1>1, <1>2, <1>3 DEF LoopInv

\* A step that drops the cycle's frame and leaves the process idle with its
\* graph, or down without one.
LEMMA ForgetKeepsInv ==
  ASSUME LoopInv, Forget, file' = file, arrived' = arrived,
         savedStale' \in SUBSET Source,
         \/ pc' = "idle" /\ graph' = graph /\ pc # "down"
         \/ pc' = "down" /\ graph' = NoMemory
  PROVE  LoopInv'
<1>1. graph' \in Graph /\ Forest(graph')
  BY NoMemoryIsGraph, NoMemoryIsForest DEF LoopInv, TypeOK, MemoryInv
<1>2. TypeOK'
  BY <1>1, MailIsFinite, NoActionType DEF LoopInv, TypeOK, Forget, Steps, Results
<1>3. CycleInv'
  BY NoActionType DEF Forget, CycleInv, ActsOnFreshReferencesOnly
<1>4. MemoryInv'
  BY <1>1 DEF LoopInv, MemoryInv, MemoryNeverBehindItsFile, RecordedMemoryIsSaved
<1>5. QED
  BY <1>2, <1>3, <1>4 DEF LoopInv

-----------------------------------------------------------------------------
(* The actions, one lemma for each that computes something. *)

LEMMA ObserveKeepsInv == LoopInv /\ Observe => LoopInv'
<1> SUFFICES ASSUME LoopInv, Observe PROVE LoopInv'
  OBVIOUS
<1>1. TypeOK'
  BY DEF LoopInv, TypeOK, Observe, durable, Steps
<1>2. CycleInv'
  BY NoActionType
  DEF LoopInv, CycleInv, ActsOnFreshReferencesOnly, Observe, durable
<1>3. MemoryInv'
  BY DEF LoopInv, MemoryInv, MemoryNeverBehindItsFile, RecordedMemoryIsSaved,
         Observe, durable
<1>4. QED
  BY <1>1, <1>2, <1>3 DEF LoopInv

LEMMA FetchKeepsInv == LoopInv /\ Fetch => LoopInv'
<1> SUFFICES ASSUME LoopInv, Fetch PROVE LoopInv'
  OBVIOUS
<1>1. TypeOK'
  BY MailIsFinite DEF LoopInv, TypeOK, Fetch, durable, Steps
<1>2. CycleInv'
  BY DEF LoopInv, CycleInv, ActsOnFreshReferencesOnly, Fetch
<1>3. MemoryInv'
  BY DEF LoopInv, MemoryInv, MemoryNeverBehindItsFile, RecordedMemoryIsSaved,
         Fetch, durable
<1>4. QED
  BY <1>1, <1>2, <1>3 DEF LoopInv

LEMMA JudgeKeepsInv == LoopInv /\ Judge => LoopInv'
<1> SUFFICES ASSUME LoopInv, Judge PROVE LoopInv'
  OBVIOUS
<1>1. TypeOK'
  BY MailIsFinite DEF LoopInv, TypeOK, Judge, durable, Steps
<1>2. CycleInv'
  BY DEF LoopInv, CycleInv, ActsOnFreshReferencesOnly, Judge
<1>3. MemoryInv'
  BY DEF LoopInv, MemoryInv, MemoryNeverBehindItsFile, RecordedMemoryIsSaved,
         Judge, durable
<1>4. QED
  BY <1>1, <1>2, <1>3 DEF LoopInv

LEMMA MeterKeepsInv == LoopInv /\ Meter => LoopInv'
<1> SUFFICES ASSUME LoopInv, Meter PROVE LoopInv'
  OBVIOUS
<1>1. TypeOK'
  BY MailIsFinite DEF LoopInv, TypeOK, Meter, durable, Steps
<1>2. CycleInv'
  BY MailIsFinite DEF LoopInv, CycleInv, ActsOnFreshReferencesOnly, Meter
<1>3. MemoryInv'
  BY DEF LoopInv, MemoryInv, MemoryNeverBehindItsFile, RecordedMemoryIsSaved,
         Meter, durable
<1>4. QED
  BY <1>1, <1>2, <1>3 DEF LoopInv

LEMMA IntegrateKeepsInv == LoopInv /\ Integrate => LoopInv'
<1> SUFFICES ASSUME LoopInv, Integrate PROVE LoopInv'
  OBVIOUS
<1>1. at \in 1..Len(SourceOrder)
  BY MailIsFinite DEF LoopInv, TypeOK, CycleInv, Integrate
<1>2. SourceOrder[at] \in Source
  BY <1>1, SourcesInOrder
<1>3. graph \in Graph
  BY DEF LoopInv, TypeOK
<1>4. /\ graph' \in Graph
      /\ Within(graph, graph')
      /\ graph'.edges = graph.edges
  BY <1>2, <1>3, AddNodeGrows DEF Integrate, Within
<1>5. TypeOK'
  BY <1>1, <1>4, MailIsFinite DEF LoopInv, TypeOK, Integrate, durable, Steps
<1>6. CycleInv'
  BY <1>1, MailIsFinite
  DEF LoopInv, CycleInv, ActsOnFreshReferencesOnly, Integrate
<1>7. MemoryInv'
  <2>1. Forest(graph')
    BY <1>4, ForestByEdges DEF LoopInv, MemoryInv
  <2>2. Within(file'.graph, graph')
    BY <1>4, WithinIsTransitive
    DEF LoopInv, MemoryInv, MemoryNeverBehindItsFile, Integrate, durable
  <2>3. QED
    BY <2>1, <2>2
    DEF LoopInv, MemoryInv, MemoryNeverBehindItsFile, RecordedMemoryIsSaved,
        Integrate, durable
<1>8. QED
  BY <1>5, <1>6, <1>7 DEF LoopInv

LEMMA OpenSnapshotKeepsInv == LoopInv /\ OpenSnapshot => LoopInv'
<1> SUFFICES ASSUME LoopInv, OpenSnapshot PROVE LoopInv'
  OBVIOUS
<1>1. TypeOK'
  BY NoMemoryIsGraph
  DEF LoopInv, TypeOK, OpenSnapshot, locals, Steps, Unreadable, SnapshotFile
<1>2. CycleInv'
  BY DEF LoopInv, CycleInv, ActsOnFreshReferencesOnly, OpenSnapshot, locals
<1>3. MemoryInv'
  BY NoMemoryWithin, NoMemoryIsForest
  DEF LoopInv, MemoryInv, MemoryNeverBehindItsFile, RecordedMemoryIsSaved,
      OpenSnapshot, Unreadable
<1>4. QED
  BY <1>1, <1>2, <1>3 DEF LoopInv

LEMMA WriteSnapshotKeepsInv == LoopInv /\ WriteSnapshot => LoopInv'
<1> SUFFICES ASSUME LoopInv, WriteSnapshot PROVE LoopInv'
  OBVIOUS
<1>1. TypeOK'
  BY DEF LoopInv, TypeOK, WriteSnapshot, Steps, Snapshot, SnapshotFile, Results
<1>2. CycleInv'
  BY DEF LoopInv, CycleInv, ActsOnFreshReferencesOnly, WriteSnapshot
<1>3. MemoryInv'
  BY DEF LoopInv, MemoryInv, MemoryNeverBehindItsFile, RecordedMemoryIsSaved,
         WriteSnapshot, Snapshot, Within
<1>4. QED
  BY <1>1, <1>2, <1>3 DEF LoopInv

LEMMA SelectedStep ==
  ASSUME Select
  PROVE  /\ pc' \in {"relate", "send", "receipt", "enqueue", "record"}
         /\ pc' = "relate" => action'.kind = "relate_memory"
BY DEF Select, BranchOf, Gate

LEMMA SelectKeepsInv == LoopInv /\ Select => LoopInv'
<1> SUFFICES ASSUME LoopInv, Select PROVE LoopInv'
  OBVIOUS
<1>1. graph \in Graph /\ graph' = graph /\ file' = file
  BY DEF LoopInv, TypeOK, Select, durable
<1>2. /\ action'.mode \in Modes
      /\ \/ /\ action'.kind = "relate_memory"
            /\ action'.about \in Isolated(graph)
            /\ stale = {}
         \/ /\ action'.kind = "report_to_operator"
            /\ action'.about = Nothing
  BY <1>1, SelectedAction DEF Select
<1>3. /\ pc' \in {"relate", "send", "receipt", "enqueue", "record"}
      /\ pc' = "relate" => action'.kind = "relate_memory"
  BY SelectedStep
<1>4. result' \in Results
  BY DEF Select, Results
<1>5. TypeOK'
  BY <1>1, <1>2, <1>3, <1>4, KnownAreSources
  DEF LoopInv, TypeOK, Select, durable, Steps, RegisteredKinds
<1>6. CycleInv'
  BY <1>2, <1>3 DEF LoopInv, TypeOK, CycleInv, ActsOnFreshReferencesOnly, Select
<1>7. MemoryInv'
  BY <1>1, <1>2, <1>3
  DEF LoopInv, MemoryInv, MemoryNeverBehindItsFile, RecordedMemoryIsSaved, Select
<1>8. QED
  BY <1>5, <1>6, <1>7 DEF LoopInv

LEMMA RelateKeepsInv == LoopInv /\ Relate => LoopInv'
<1> SUFFICES ASSUME LoopInv, Relate PROVE LoopInv'
  OBVIOUS
<1>1. graph \in Graph /\ file' = file
  BY DEF LoopInv, TypeOK, Relate, durable
<1>2. action.about \in Isolated(graph)
  BY DEF LoopInv, MemoryInv, Relate
<1>3. CASE graph' = graph /\ pc' = "receipt" /\ result' = "noop"
  <2>1. TypeOK'
    BY <1>3 DEF LoopInv, TypeOK, Relate, durable, Steps, Results
  <2>2. CycleInv'
    BY <1>3 DEF LoopInv, CycleInv, ActsOnFreshReferencesOnly, Relate
  <2>3. MemoryInv'
    BY <1>1, <1>3
    DEF LoopInv, MemoryInv, MemoryNeverBehindItsFile, RecordedMemoryIsSaved, Relate
  <2>4. QED
    BY <2>1, <2>2, <2>3 DEF LoopInv
<1>4. CASE /\ Others(graph, action.about) # {}
           /\ graph' = AddEdge(graph, action.about, LastOther(graph, action.about))
           /\ pc' = "save" /\ result' = result
  <2> DEFINE to == LastOther(graph, action.about)
  <2>1. to \in Others(graph, action.about)
    BY <1>1, <1>4, LastOtherIsOther
  <2>2. action.about \in Source /\ to \in Source /\ action.about # to
    BY <1>1, <1>2, <2>1, KnownAreSources DEF Others
  <2>3. graph' \in Graph /\ Within(graph, graph')
    BY <1>1, <1>4, <2>2, AddEdgeGrows
  <2>4. Forest(graph')
    BY <1>1, <1>2, <1>4, <2>2, ForestGrows DEF LoopInv, MemoryInv
  <2>5. TypeOK'
    BY <1>4, <2>3 DEF LoopInv, TypeOK, Relate, durable, Steps
  <2>6. CycleInv'
    BY <1>4 DEF LoopInv, CycleInv, ActsOnFreshReferencesOnly, Relate
  <2>7. Within(file'.graph, graph')
    BY <1>1, <2>3, WithinIsTransitive
    DEF LoopInv, MemoryInv, MemoryNeverBehindItsFile, Relate
  <2>8. MemoryInv'
    BY <1>1, <1>4, <2>4, <2>7
    DEF LoopInv, MemoryInv, MemoryNeverBehindItsFile, RecordedMemoryIsSaved
  <2>9. QED
    BY <2>5, <2>6, <2>8 DEF LoopInv
<1>5. QED
  BY <1>3, <1>4 DEF Relate

\* The steps that only move on: enqueue, send, receipt, record.
LEMMA MovingOnKeepsInv ==
  LoopInv /\ (Enqueue \/ Send \/ Receipt \/ Record) => LoopInv'
<1> SUFFICES ASSUME LoopInv, Enqueue \/ Send \/ Receipt \/ Record
             PROVE  LoopInv'
  OBVIOUS
<1>1. TypeOK'
  BY DEF LoopInv, TypeOK, Enqueue, Send, Receipt, Record, durable, locals, Steps,
         Results
<1>2. CycleInv'
  BY DEF LoopInv, CycleInv, ActsOnFreshReferencesOnly, Enqueue, Send, Receipt,
         Record, locals
<1>3. MemoryInv'
  BY DEF LoopInv, MemoryInv, MemoryNeverBehindItsFile, RecordedMemoryIsSaved,
         Enqueue, Send, Receipt, Record, durable, locals
<1>4. QED
  BY <1>1, <1>2, <1>3 DEF LoopInv

LEMMA EndsKeepInv ==
  LoopInv /\ (Checkpoint \/ FetchRaises \/ JudgeRaises \/ Raise \/ Kill) => LoopInv'
<1> SUFFICES ASSUME LoopInv, Checkpoint \/ FetchRaises \/ JudgeRaises \/ Raise \/ Kill
             PROVE  LoopInv'
  OBVIOUS
<1>1. stale \in SUBSET Source /\ savedStale \in SUBSET Source
  BY DEF LoopInv, TypeOK
<1>2. CASE Checkpoint
  BY <1>1, <1>2, ForgetKeepsInv DEF Checkpoint
<1>3. CASE Kill
  BY <1>1, <1>3, ForgetKeepsInv DEF Kill, durable
<1>4. CASE FetchRaises \/ JudgeRaises \/ Raise
  <2>1. pc # "down" /\ Abort
    BY <1>4, LoopAssumption DEF FetchRaises, JudgeRaises, Raise, Steps
  <2>2. QED
    BY <1>1, <2>1, ForgetKeepsInv DEF Abort, durable
<1>5. QED
  BY <1>2, <1>3, <1>4

LEMMA RestartKeepsInv == LoopInv /\ Restart => LoopInv'
<1> SUFFICES ASSUME LoopInv, Restart PROVE LoopInv'
  OBVIOUS
<1>1. graph' = file.graph
  BY DEF LoopInv, MemoryInv, Restart, Load, Unreadable
<1>2. TypeOK'
  BY <1>1 DEF LoopInv, TypeOK, SnapshotFile, Restart, durable, locals, Steps
<1>3. CycleInv'
  BY DEF LoopInv, CycleInv, ActsOnFreshReferencesOnly, Restart, locals
<1>4. MemoryInv'
  BY <1>1
  DEF LoopInv, MemoryInv, MemoryNeverBehindItsFile, RecordedMemoryIsSaved,
      Restart, durable, Within
<1>5. QED
  BY <1>2, <1>3, <1>4 DEF LoopInv

LEMMA ArriveKeepsInv == LoopInv /\ Arrive => LoopInv'
<1> SUFFICES ASSUME LoopInv, Arrive PROVE LoopInv'
  OBVIOUS
<1>1. TypeOK'
  BY MailIsFinite DEF LoopInv, TypeOK, Arrive, locals
<1>2. CycleInv'
  BY DEF LoopInv, CycleInv, ActsOnFreshReferencesOnly, Arrive, locals
<1>3. MemoryInv'
  BY DEF LoopInv, MemoryInv, MemoryNeverBehindItsFile, RecordedMemoryIsSaved,
         Arrive, locals
<1>4. QED
  BY <1>1, <1>2, <1>3 DEF LoopInv

LEMMA StutterKeepsInv == LoopInv /\ UNCHANGED vars => LoopInv'
BY DEF LoopInv, TypeOK, CycleInv, MemoryInv, ActsOnFreshReferencesOnly,
       MemoryNeverBehindItsFile, RecordedMemoryIsSaved, vars, durable, locals

LEMMA NextKeepsInv == LoopInv /\ [Next]_vars => LoopInv'
BY ObserveKeepsInv, FetchKeepsInv, JudgeKeepsInv, MeterKeepsInv,
   IntegrateKeepsInv, OpenSnapshotKeepsInv, WriteSnapshotKeepsInv,
   SelectKeepsInv, RelateKeepsInv, MovingOnKeepsInv, EndsKeepInv,
   RestartKeepsInv, ArriveKeepsInv, StutterKeepsInv, Zenon
DEF Next, LoopStep, Ingest, Act

-----------------------------------------------------------------------------
(* What a step does to graph and file. *)

\* Every step but a start leaves a process that knows no less, or none; the
\* file stays, is opened, or takes what the process knows.
LEMMA MemoryOfStep ==
  ASSUME LoopInv, [Next]_vars, ~Restart
  PROVE  /\ \/ pc' = "down"
            \/ pc # "down" /\ Within(graph, graph')
         /\ \/ file' = file
            \/ ~file'.readable
            \/ pc # "down" /\ pc' # "down" /\ graph' = graph /\ file' = Snapshot(graph)
<1> USE DEF Within
<1>1. CASE Observe \/ Fetch \/ Judge \/ Meter
  BY <1>1 DEF Observe, Fetch, Judge, Meter, durable
<1>2. CASE Integrate
  <2>1. at \in 1..Len(SourceOrder) /\ graph \in Graph
    BY <1>2, MailIsFinite DEF LoopInv, TypeOK, CycleInv, Integrate
  <2>2. SourceOrder[at] \in Source
    BY <2>1, SourcesInOrder
  <2>3. Within(graph, graph')
    BY <1>2, <2>1, <2>2, AddNodeGrows DEF Integrate
  <2>4. QED
    BY <1>2, <2>3 DEF Integrate, durable
<1>3. CASE OpenSnapshot \/ WriteSnapshot
  BY <1>3 DEF OpenSnapshot, WriteSnapshot, Unreadable
<1>4. CASE Select
  BY <1>4 DEF Select, durable
<1>5. CASE Relate
  <2>1. CASE graph' = graph
    BY <1>5, <2>1 DEF Relate, durable
  <2>2. CASE /\ Others(graph, action.about) # {}
             /\ graph' = AddEdge(graph, action.about, LastOther(graph, action.about))
    <3>1. graph \in Graph /\ action.about \in Source
      BY <1>5, KnownAreSources DEF LoopInv, TypeOK, MemoryInv, Relate
    <3>2. LastOther(graph, action.about) \in Source
      BY <2>2, <3>1, LastOtherIsOther, KnownAreSources DEF Others
    <3>3. Within(graph, graph')
      BY <2>2, <3>1, <3>2, AddEdgeGrows
    <3>4. QED
      BY <1>5, <3>3 DEF Relate, durable
  <2>3. QED
    BY <1>5, <2>1, <2>2 DEF Relate
<1>6. CASE Enqueue \/ Send \/ Receipt \/ Record \/ Checkpoint
  BY <1>6 DEF Enqueue, Send, Receipt, Record, Checkpoint, durable
<1>7. CASE FetchRaises \/ JudgeRaises \/ Raise
  BY <1>7, LoopAssumption DEF FetchRaises, JudgeRaises, Raise, Abort, durable, Steps
<1>8. CASE Kill
  BY <1>8 DEF Kill, durable
<1>9. CASE Arrive \/ UNCHANGED vars
  BY <1>9 DEF Arrive, vars, durable
<1>10. QED
  BY <1>1, <1>2, <1>3, <1>4, <1>5, <1>6, <1>7, <1>8, <1>9
  DEF Next, LoopStep, Ingest, Act

-----------------------------------------------------------------------------
(* The theorems. *)

\* LoopInv is an invariant of the loop.
THEOREM LoopInvariant == Spec => []LoopInv
<1>1. QED
  BY InitInv, NextKeepsInv, PTL DEF Spec

\* Every variable of the loop stays in its range.
THEOREM TypeCorrect == Spec => []TypeOK
<1>1. LoopInv => TypeOK
  BY DEF LoopInv
<1>2. QED
  BY <1>1, LoopInvariant, PTL

\* Memory is related only in a cycle that read every source fresh.
THEOREM FreshReferences == Spec => []ActsOnFreshReferencesOnly
<1>1. LoopInv => ActsOnFreshReferencesOnly
  BY DEF LoopInv, CycleInv
<1>2. QED
  BY <1>1, LoopInvariant, PTL

\* A living process knows all that its snapshot file holds.
THEOREM NothingSavedIsForgotten == Spec => []MemoryNeverBehindItsFile
<1>1. LoopInv => MemoryNeverBehindItsFile
  BY DEF LoopInv, MemoryInv
<1>2. QED
  BY <1>1, LoopInvariant, PTL

\* What a receipt or a ledger event follows is on disk.
THEOREM SavedBeforeRecorded == Spec => []RecordedMemoryIsSaved
<1>1. LoopInv => RecordedMemoryIsSaved
  BY DEF LoopInv, MemoryInv
<1>2. QED
  BY <1>1, LoopInvariant, PTL

\* The relations the loop makes never form a circle, and never fan out.
THEOREM ForestOfRelations == Spec => []RelationsFormForest
<1>1. LoopInv => RelationsFormForest
  BY DEF LoopInv, MemoryInv, RelationsFormForest
<1>2. QED
  BY <1>1, LoopInvariant, PTL

-----------------------------------------------------------------------------
(* What becomes of the gaps. *)

\* The sources nothing is related to, known to the graph or not.
Unrelated(g) == {n \in Source : \A e \in g.edges : n # e[1] /\ n # e[2]}

\* A gap that is closed stays closed as long as the process lives, and every
\* relation closes one.
GapsOnlyClose ==
  [][(pc # "down" /\ pc' # "down") =>
       /\ Unrelated(graph') \subseteq Unrelated(graph)
       /\ graph'.edges # graph.edges => Unrelated(graph') # Unrelated(graph)]_vars

\* A relation is added by Relate alone, from a node without one.
LEMMA RelationAdded ==
  ASSUME LoopInv, Next, pc # "down", pc' # "down", graph'.edges # graph.edges
  PROVE  /\ action.about \in Unrelated(graph)
         /\ action.about \notin Unrelated(graph')
<1>1. Relate
  <2>1. ASSUME Integrate PROVE graph'.edges = graph.edges
    BY <2>1 DEF Integrate, AddNode, LoopInv, TypeOK, Graph
  <2>2. QED
    BY <2>1, LoopAssumption
    DEF Next, LoopStep, Ingest, Act, Observe, Fetch, FetchRaises, Judge, JudgeRaises,
        Meter, OpenSnapshot, WriteSnapshot, Select, Enqueue, Send, Receipt, Record,
        Checkpoint, Raise, Abort, Kill, Restart, Arrive, locals
<1>2. graph \in Graph /\ action.about \in Isolated(graph)
  BY <1>1 DEF LoopInv, TypeOK, MemoryInv, Relate
<1>3. action.about \in Source
  BY <1>2, KnownAreSources
<1>4. PICK to : graph' = AddEdge(graph, action.about, to)
  BY <1>1 DEF Relate
<1>5. graph'.edges = graph.edges \cup {<<action.about, to>>}
  BY <1>2, <1>4 DEF AddEdge, Graph
<1>6. <<action.about, to>> \in graph'.edges /\ <<action.about, to>>[1] = action.about
  BY <1>5
<1>7. QED
  BY <1>2, <1>3, <1>6 DEF Isolated, Unrelated

\* Gaps close for good while the process lives, so that it makes no more
\* relations than it has sources (memory/recall.py, the goal of a gap).
THEOREM ClosedGapsStayClosed == Spec => GapsOnlyClose
<1> DEFINE Closing ==
      (pc # "down" /\ pc' # "down") =>
        /\ Unrelated(graph') \subseteq Unrelated(graph)
        /\ graph'.edges # graph.edges => Unrelated(graph') # Unrelated(graph)
<1>1. LoopInv /\ [Next]_vars => [Closing]_vars
  <2> SUFFICES ASSUME LoopInv, Next, pc # "down", pc' # "down"
               PROVE  /\ Unrelated(graph') \subseteq Unrelated(graph)
                      /\ graph'.edges # graph.edges => Unrelated(graph') # Unrelated(graph)
    OBVIOUS
  <2>1. ~Restart
    BY DEF Restart
  <2>2. Within(graph, graph')
    BY <2>1, MemoryOfStep
  <2>3. Unrelated(graph') \subseteq Unrelated(graph)
    BY <2>2 DEF Within, Unrelated
  <2>4. QED
    BY <2>3, RelationAdded
<1>2. QED
  BY <1>1, LoopInvariant, PTL DEF Spec, GapsOnlyClose

\* What was read fresh is in the graph once it was integrated, and the branch
\* of relating is taken by nothing but an action that relates.
ReadingsInv ==
  /\ pc = "integrate" => \A i \in 1..(at - 1) :
       SourceOrder[i] \in readings => SourceOrder[i] \in Known(graph)
  /\ pc \in {"save", "dump", "select", "relate"} => readings \subseteq Known(graph)
  /\ pc = "relate" => action.kind = "relate_memory"

\* An act of relating always finds something to relate to.
NeverInVain == result # "noop"

LEMMA AddNodeKnows ==
  ASSUME NEW g \in Graph, NEW n \in Source
  PROVE  n \in Known(AddNode(g, n))
<1>1. CASE n \in Known(g)
  BY <1>1 DEF AddNode
<1>2. CASE n \notin Known(g)
  <2>1. AddNode(g, n).nodes = Append(g.nodes, n) /\ g.nodes \in Seq(Source)
    BY <1>2 DEF AddNode, Graph
  <2>2. /\ Len(g.nodes) + 1 \in DOMAIN Append(g.nodes, n)
        /\ Append(g.nodes, n)[Len(g.nodes) + 1] = n
    BY <2>1, AppendProperties, LenProperties
  <2>3. QED
    BY <2>1, <2>2 DEF Known
<1>3. QED
  BY <1>1, <1>2

LEMMA IntegrateKeepsReadingsInv ==
  ASSUME LoopInv, ReadingsInv, Integrate
  PROVE  ReadingsInv'
<1>1. /\ at \in 1..Len(SourceOrder) /\ Len(SourceOrder) \in Nat /\ graph \in Graph
      /\ readings' = readings /\ readings \subseteq Source
  BY MailIsFinite DEF LoopInv, TypeOK, CycleInv, Integrate
<1>2. SourceOrder[at] \in Source
  BY <1>1, SourcesInOrder
<1>3. /\ Known(graph) \subseteq Known(graph')
      /\ SourceOrder[at] \in readings => SourceOrder[at] \in Known(graph')
  BY <1>1, <1>2, AddNodeGrows, AddNodeKnows DEF Integrate, Within
<1>4. \A i \in 1..at : SourceOrder[i] \in readings => SourceOrder[i] \in Known(graph')
  <2> SUFFICES ASSUME NEW i \in 1..at, SourceOrder[i] \in readings
               PROVE  SourceOrder[i] \in Known(graph')
    OBVIOUS
  <2>1. CASE i = at
    BY <1>3, <2>1
  <2>2. CASE i # at
    <3>1. i \in 1..(at - 1)
      BY <1>1, <2>2
    <3>2. QED
      BY <1>3, <3>1 DEF ReadingsInv, Integrate
  <2>3. QED
    BY <2>1, <2>2
<1>5. CASE at < Len(SourceOrder)
  BY <1>1, <1>4, <1>5 DEF Integrate, ReadingsInv
<1>6. CASE at = Len(SourceOrder)
  <2>1. readings \subseteq Known(graph')
    <3> SUFFICES ASSUME NEW s \in readings PROVE s \in Known(graph')
      OBVIOUS
    <3>1. PICK i \in DOMAIN SourceOrder : SourceOrder[i] = s
      BY <1>1, LoopAssumption
    <3>2. i \in 1..at
      BY <1>6, <3>1, LoopAssumption, LenProperties
    <3>3. QED
      BY <1>4, <3>1, <3>2
  <2>2. pc' = "save"
    BY <1>1, <1>6 DEF Integrate
  <2>3. QED
    BY <1>1, <2>1, <2>2 DEF ReadingsInv
<1>7. QED
  BY <1>1, <1>5, <1>6

LEMMA ReadingsInvStep ==
  ASSUME LoopInv, ReadingsInv, [Next]_vars
  PROVE  ReadingsInv'
<1>1. CASE Integrate
  BY <1>1, IntegrateKeepsReadingsInv
<1>2. CASE Meter
  BY <1>2 DEF Meter, ReadingsInv
<1>3. CASE OpenSnapshot \/ WriteSnapshot \/ Select
  BY <1>3, SelectedStep
  DEF OpenSnapshot, WriteSnapshot, Select, ReadingsInv, locals
<1>4. CASE Relate
  <2>1. pc' # "down" /\ ~Restart /\ pc = "relate" /\ readings' = readings
    BY <1>4 DEF Relate, Restart
  <2>2. Within(graph, graph')
    BY <2>1, MemoryOfStep
  <2>3. QED
    BY <1>4, <2>1, <2>2 DEF ReadingsInv, Within, Relate
<1>5. CASE \/ Observe \/ Fetch \/ Judge \/ Enqueue \/ Send \/ Receipt \/ Record
           \/ Checkpoint \/ FetchRaises \/ JudgeRaises \/ Raise \/ Kill \/ Restart
  BY <1>5
  DEF Observe, Fetch, Judge, Enqueue, Send, Receipt, Record, Checkpoint,
      FetchRaises, JudgeRaises, Raise, Abort, Kill, Restart, ReadingsInv
<1>6. CASE Arrive \/ UNCHANGED vars
  BY <1>6 DEF Arrive, vars, locals, ReadingsInv
<1>7. QED
  BY <1>1, <1>2, <1>3, <1>4, <1>5, <1>6 DEF Next, LoopStep, Ingest, Act

LEMMA NeverInVainStep ==
  ASSUME \E s, t \in Source : s # t,
         LoopInv, ReadingsInv, NeverInVain, [Next]_vars
  PROVE  NeverInVain'
<1>1. CASE Relate
  <2>1. /\ readings = Source /\ readings \subseteq Known(graph)
        /\ action.about \in Isolated(graph) /\ graph \in Graph
    BY <1>1 DEF LoopInv, TypeOK, CycleInv, MemoryInv, ActsOnFreshReferencesOnly,
                ReadingsInv, Relate
  <2>2. action.about \in Known(graph) /\ Others(graph, action.about) # {}
    BY <2>1, KnownAreSources DEF Others
  <2>3. QED
    BY <1>1, <2>2 DEF Relate, NeverInVain
<1>2. CASE Select
  <2>1. graph \in Graph
    BY DEF LoopInv, TypeOK
  <2>2. action'.kind \in {"relate_memory", "report_to_operator"}
    BY <1>2, <2>1, SelectedAction DEF Select
  <2>3. BranchOf(action'.kind) # "receipt"
    BY <2>2 DEF BranchOf
  <2>4. Gate(action') = "execute" => pc' # "receipt"
    BY <1>2, <2>3 DEF Select
  <2>5. result' # "noop"
    BY <1>2, <2>4 DEF Select
  <2>6. QED
    BY <2>5 DEF NeverInVain
<1>3. CASE \/ Observe \/ Fetch \/ Judge \/ Meter \/ Integrate \/ OpenSnapshot
           \/ WriteSnapshot \/ Enqueue \/ Send \/ Receipt \/ Record \/ Checkpoint
           \/ FetchRaises \/ JudgeRaises \/ Raise \/ Kill
  BY <1>3
  DEF Observe, Fetch, Judge, Meter, Integrate, OpenSnapshot, WriteSnapshot, Enqueue,
      Send, Receipt, Record, Checkpoint, FetchRaises, JudgeRaises, Raise, Abort,
      Forget, Kill, locals, NeverInVain
<1>4. CASE Restart \/ Arrive \/ UNCHANGED vars
  BY <1>4 DEF Restart, Arrive, vars, locals, NeverInVain
<1>5. QED
  BY <1>1, <1>2, <1>3, <1>4 DEF Next, LoopStep, Ingest, Act

\* With more than one source to read, relating memory is never a noop: the
\* source the loop picks is one of several the graph knows by then.  A noop
\* (kernel/loop.py, _execute of relate_memory) takes a single source.
THEOREM RelatesNotInVain ==
  ASSUME \E s, t \in Source : s # t
  PROVE  Spec => []NeverInVain
<1>1. Init => ReadingsInv /\ NeverInVain
  BY DEF Init, ReadingsInv, NeverInVain
<1>2. LoopInv /\ ReadingsInv /\ NeverInVain /\ [Next]_vars
        => ReadingsInv' /\ NeverInVain'
  BY ReadingsInvStep, NeverInVainStep
<1>3. QED
  BY <1>1, <1>2, LoopInvariant, PTL DEF Spec
=============================================================================

-------------------------------- MODULE Loop --------------------------------
(***************************************************************************)
(* The never-ending cycle of keava_owent (kernel/loop.py) with the process *)
(* and the scheduler around it: recover, observe, ingest verdicts, meter,  *)
(* integrate, spark, select, gate, act, record, checkpoint.                *)
(*                                                                         *)
(* One action stands for the code between two places where the outside can *)
(* see, lose or fail something: every durable write is a step of its own,  *)
(* an exception can leave the cycle at any of them, and the process can be *)
(* killed between any two.  What the rows of the database contain is left  *)
(* to LoopRecords, which refines these actions; here is the control, and   *)
(* the memory graph with its snapshot file.                                *)
(***************************************************************************)
EXTENDS Memory, Membrane, FiniteSets

CONSTANTS
  SourceOrder,     \* the sources in the order they were registered
  Mail,            \* the operator's mail, line by line, as fetch_inbound sees it
  MayRaise,        \* the steps at which some call may raise
  MayBeKilled,     \* whether the process may be killed
  Supervised       \* APScheduler runs the cycle (TRUE) or the plain sleep loop

\* A line is a message that carries a valid verdict, one whose verdict is
\* missing or not recognised, one whose verdict or body is no text, one from
\* a sender who is not allowlisted, or a JSON value that is no object at all.
MailKinds == {"verdict", "silent", "unreadable", "foreign", "malformed"}

Steps == {"idle", "fetch", "ingest", "integrate", "save", "dump", "select",
          "enqueue", "relate", "send", "receipt", "record", "checkpoint"}

ASSUME LoopAssumption ==
  /\ SourceOrder \in Seq(Source)
  /\ \A i, j \in DOMAIN SourceOrder : SourceOrder[i] = SourceOrder[j] => i = j
  /\ Source = {SourceOrder[i] : i \in DOMAIN SourceOrder}
  /\ Source # {}
  /\ Nothing \notin Source
  /\ Mail \in Seq(MailKinds)
  /\ MayRaise \subseteq Steps \ {"integrate", "select", "relate"}
  /\ MayBeKilled \in BOOLEAN
  /\ Supervised \in BOOLEAN

VARIABLES
  pc,           \* the step the cycle takes next; "idle" between cycles,
                \* "down" while there is no process
  graph,        \* memory.g, the graph in the process
  file,         \* memory_graph.json
  savedStale,   \* stale_sources of the state row
  arrived,      \* how many lines of Mail the inbox file holds
  stale,        \* stale_sources of this cycle's state
  readings,     \* the sources this cycle read fresh
  fetched,      \* how many lines this cycle's fetch_inbound returned
  at,           \* the position in the loop over mail, then over sources
  action,       \* the selected action
  result        \* what became of it

\* What a cycle keeps in its own frame, and loses with it.
locals == <<stale, readings, fetched, at, action, result>>
durable == <<file, savedStale, arrived>>
vars == <<pc, graph, durable, locals>>

NoAction == Proposal("none", "EXPLORE", Nothing)

Results == {"none", "rejected", "denied", "awaiting_approval",
            "ok", "noop", "reported"}

-----------------------------------------------------------------------------
(* Between two cycles. *)

Forget ==
  /\ stale' = {}
  /\ readings' = {}
  /\ fetched' = 0
  /\ at' = 1
  /\ action' = NoAction
  /\ result' = "none"

Init ==
  /\ pc = "idle"
  /\ graph = NoMemory
  /\ file = Unreadable
  /\ savedStale = {}
  /\ arrived = 0
  /\ stale = {} /\ readings = {} /\ fetched = 0 /\ at = 1
  /\ action = NoAction /\ result = "none"

-----------------------------------------------------------------------------
(* One cycle, in the order of the code. *)

\* recover_or_init and read_all.  A source that raises, or whose reading is
\* older than its budget, is flagged; one that reads fresh is cleared.
Observe ==
  /\ pc = "idle"
  /\ \E fresh \in SUBSET Source :
       /\ readings' = fresh
       /\ stale' = (savedStale \cup (Source \ fresh)) \ fresh
  /\ pc' = "fetch"
  /\ UNCHANGED <<graph, durable, fetched, at, action, result>>

Malformed(n) == \E i \in 1..n : Mail[i] = "malformed"

\* A slip: one line more is counted than was read.
FetchOneTooMany ==
  /\ pc = "fetch"
  /\ ~Malformed(arrived)
  /\ fetched' = arrived + 1
  /\ at' = 1
  /\ pc' = "ingest"
  /\ UNCHANGED <<graph, durable, stale, readings, action, result>>

\* fetch_inbound reads the inbox file from its first line, every cycle.
Fetch ==
  /\ pc = "fetch"
  /\ ~Malformed(arrived)
  /\ fetched' = arrived
  /\ at' = 1
  /\ pc' = "ingest"
  /\ UNCHANGED <<graph, durable, stale, readings, action, result>>

\* An exception that nothing in the cycle catches.  APScheduler logs it and
\* calls the job again at the next interval; out of the plain loop it ends
\* the process.
Abort ==
  /\ Forget
  /\ IF Supervised THEN pc' = "idle" /\ graph' = graph
                   ELSE pc' = "down" /\ graph' = NoMemory
  /\ UNCHANGED durable

\* m.get on a line that parsed to something else than an object.
FetchRaises ==
  /\ pc = "fetch"
  /\ Malformed(arrived)
  /\ Abort

\* One turn of the loop in _ingest_verdicts.
Judge ==
  /\ pc = "ingest"
  /\ at <= fetched
  /\ Mail[at] # "unreadable"
  /\ at' = at + 1
  /\ UNCHANGED <<pc, graph, durable, stale, readings, fetched, action, result>>

\* strip or lower of a value that is no text.
JudgeRaises ==
  /\ pc = "ingest"
  /\ at <= fetched
  /\ Mail[at] = "unreadable"
  /\ Abort

\* A slip: the loop over the mail ends one line early.
MeterOneTooSoon ==
  /\ pc = "ingest"
  /\ at + 1 > fetched
  /\ at' = 1
  /\ pc' = "integrate"
  /\ UNCHANGED <<graph, durable, stale, readings, fetched, action, result>>

Meter ==
  /\ pc = "ingest"
  /\ at > fetched
  /\ at' = 1
  /\ pc' = "integrate"
  /\ UNCHANGED <<graph, durable, stale, readings, fetched, action, result>>

\* One turn of the loop in _integrate, which ends in memory.save().
Integrate ==
  /\ pc = "integrate"
  /\ graph' = IF SourceOrder[at] \in readings
              THEN AddNode(graph, SourceOrder[at]) ELSE graph
  /\ IF at < Len(SourceOrder)
     THEN at' = at + 1 /\ pc' = pc
     ELSE at' = 1 /\ pc' = "save"
  /\ UNCHANGED <<durable, stale, readings, fetched, action, result>>

\* save() opens the snapshot for writing ...
OpenSnapshot ==
  /\ pc = "save"
  /\ file' = Unreadable
  /\ pc' = "dump"
  /\ UNCHANGED <<graph, savedStale, arrived, locals>>

\* ... and dumps the graph into it; it is called at the end of _integrate
\* and again after a relation was added.
WriteSnapshot ==
  /\ pc = "dump"
  /\ file' = Snapshot(graph)
  /\ IF action = NoAction
     THEN pc' = "select" /\ result' = result
     ELSE pc' = "receipt" /\ result' = "ok"
  /\ UNCHANGED <<graph, savedStale, arrived, stale, readings, fetched, at, action>>

-----------------------------------------------------------------------------
(* Spark, select, gate. *)

\* A slip: unconnected knowledge outranks a stale reference.
ActionForGapUnranked(g, lost) ==
  IF Isolated(g) # {}
  THEN Proposal("relate_memory", "DRAFT", FirstIsolated(g))
  ELSE Proposal("report_to_operator", "EXPLORE", Nothing)

\* next_goal and _action_for_goal: a stale reference outranks unconnected
\* knowledge, and without a gap there is still a report to make.
ActionForGap(g, lost) ==
  IF lost = {} /\ Isolated(g) # {}
  THEN Proposal("relate_memory", "DRAFT", FirstIsolated(g))
  ELSE Proposal("report_to_operator", "EXPLORE", Nothing)

\* The branch of _execute that an action takes.
BranchOf(kind) ==
  CASE kind = "relate_memory" -> "relate"
    [] kind = "report_to_operator" -> "send"
    [] OTHER -> "receipt"

Select ==
  /\ pc = "select"
  /\ action' = EarnMyKeep(ActionForGap(graph, stale))
  /\ LET verdict == Gate(action') IN
       /\ pc' = CASE verdict = "execute" -> BranchOf(action'.kind)
                  [] verdict = "awaiting_approval" -> "enqueue"
                  [] OTHER -> "record"
       /\ result' = CASE verdict = "execute" /\ pc' = "receipt" -> "noop"
                      [] verdict \in {"rejected", "denied"} -> verdict
                      [] OTHER -> "none"
  /\ UNCHANGED <<graph, durable, stale, readings, fetched, at>>

-----------------------------------------------------------------------------
(* Act, record, checkpoint. *)

\* approvals.request
Enqueue ==
  /\ pc = "enqueue"
  /\ result' = "awaiting_approval"
  /\ pc' = "record"
  /\ UNCHANGED <<graph, durable, stale, readings, fetched, at, action>>

\* A slip: the relation is not saved before the action returns.
RelateWithoutSave ==
  /\ pc = "relate"
  /\ IF action.about \in Known(graph) /\ Others(graph, action.about) # {}
     THEN /\ graph' = AddEdge(graph, action.about, LastOther(graph, action.about))
          /\ result' = "ok"
     ELSE /\ graph' = graph
          /\ result' = "noop"
  /\ pc' = "receipt"
  /\ UNCHANGED <<durable, stale, readings, fetched, at, action>>

\* _execute of relate_memory, up to its memory.save().
Relate ==
  /\ pc = "relate"
  /\ IF action.about \in Known(graph) /\ Others(graph, action.about) # {}
     THEN /\ graph' = AddEdge(graph, action.about, LastOther(graph, action.about))
          /\ pc' = "save"
          /\ result' = result
     ELSE /\ graph' = graph
          /\ pc' = "receipt"
          /\ result' = "noop"
  /\ UNCHANGED <<durable, stale, readings, fetched, at, action>>

\* A slip: a report leaves no receipt.
SendWithoutReceipt ==
  /\ pc = "send"
  /\ result' = "reported"
  /\ pc' = "record"
  /\ UNCHANGED <<graph, durable, stale, readings, fetched, at, action>>

\* A slip: a send that does not answer is tried again.
SendWithRetry ==
  /\ pc = "send"
  /\ \/ pc' = "receipt" /\ result' = "reported"
     \/ pc' = "send" /\ result' = result
  /\ UNCHANGED <<graph, durable, stale, readings, fetched, at, action>>

\* _execute of report_to_operator; whatever send() returns is a report made.
Send ==
  /\ pc = "send"
  /\ result' = "reported"
  /\ pc' = "receipt"
  /\ UNCHANGED <<graph, durable, stale, readings, fetched, at, action>>

\* Slips: after its receipt the cycle acts once more, or is checkpointed
\* without having been charged.
ReceiptThenActAgain ==
  /\ pc = "receipt"
  /\ pc' \in {"record", "select"}
  /\ UNCHANGED <<graph, durable, locals>>

ReceiptThenCheckpoint ==
  /\ pc = "receipt"
  /\ pc' = "checkpoint"
  /\ UNCHANGED <<graph, durable, locals>>

\* receipts.record
Receipt ==
  /\ pc = "receipt"
  /\ pc' = "record"
  /\ UNCHANGED <<graph, durable, locals>>

\* A slip: an append that timed out after it was written is tried again.
RecordWithRetry ==
  /\ pc = "record"
  /\ pc' \in {"record", "checkpoint"}
  /\ UNCHANGED <<graph, durable, locals>>

\* ledger.append
Record ==
  /\ pc = "record"
  /\ pc' = "checkpoint"
  /\ UNCHANGED <<graph, durable, locals>>

\* settle and checkpoint; the cycle returns.
Checkpoint ==
  /\ pc = "checkpoint"
  /\ savedStale' = stale
  /\ Forget
  /\ pc' = "idle"
  /\ UNCHANGED <<graph, file, arrived>>

-----------------------------------------------------------------------------
(* What happens to the cycle. *)

\* A call of the next step raises: a locked or full database, a file that
\* cannot be opened or written, a request that times out.
Raise ==
  /\ pc \in MayRaise
  /\ Abort

\* The process dies, with all it had in memory.
Kill ==
  /\ MayBeKilled
  /\ pc # "down"
  /\ pc' = "down"
  /\ graph' = NoMemory
  /\ Forget
  /\ UNCHANGED durable

\* A slip: the graph is not loaded when the process starts.
RestartWithoutLoad ==
  /\ pc = "down"
  /\ pc' = "idle"
  /\ graph' = NoMemory
  /\ UNCHANGED <<durable, locals>>

\* build(): the memory is loaded from its snapshot.
Restart ==
  /\ pc = "down"
  /\ pc' = "idle"
  /\ graph' = Load(file)
  /\ UNCHANGED <<durable, locals>>

\* A line of mail reaches the inbox file.
Arrive ==
  /\ arrived < Len(Mail)
  /\ arrived' = arrived + 1
  /\ UNCHANGED <<pc, graph, file, savedStale, locals>>

Ingest == Fetch \/ FetchRaises \/ Judge \/ JudgeRaises

Act == Enqueue \/ Relate \/ Send \/ Receipt

LoopStep ==
  \/ Observe \/ Ingest \/ Meter \/ Integrate \/ OpenSnapshot \/ WriteSnapshot
  \/ Select \/ Act \/ Record \/ Checkpoint

Next == LoopStep \/ Raise \/ Kill \/ Restart \/ Arrive

Spec == Init /\ [][Next]_vars

\* The scheduler starts a cycle whenever the last one has ended, and every
\* call in it returns or raises (requests.post has its timeout).  Nothing
\* promises that a dead process is started again, or that mail arrives.
FairSpec == Spec /\ WF_vars(LoopStep)

-----------------------------------------------------------------------------
(* Properties. *)

\* Every variable stays in its range.
TypeOK ==
  /\ pc \in Steps \cup {"down"}
  /\ graph \in Graph /\ file \in SnapshotFile
  /\ savedStale \subseteq Source /\ stale \subseteq Source
  /\ readings \subseteq Source
  /\ arrived \in 0..Len(Mail) /\ fetched \in 0..arrived
  /\ at \in 1..(Len(Mail) + Len(SourceOrder) + 1)
  /\ action.kind \in RegisteredKinds \cup {"none"}
  /\ action.mode \in Modes
  /\ action.about \in Source \cup {Nothing}
  /\ result \in Results

\* "The system refuses to act on it until it reads fresh" (state.py): memory
\* is only related in a cycle in which every registered source read fresh, and
\* one flag of an earlier cycle is enough to keep it from being related.
\* Nodes are added, and the snapshot is written, in every cycle.
ActsOnFreshReferencesOnly ==
  action.kind = "relate_memory" => readings = Source

\* Whatever happens to a cycle between writing the graph and writing its
\* snapshot, a living process never knows less than its file: a later save
\* cannot drop what an earlier one kept.
MemoryNeverBehindItsFile == pc # "down" => Within(file.graph, graph)

\* A receipt, and the ledger event and checkpoint after it, only ever follow
\* memory that is already on disk.
RecordedMemoryIsSaved ==
  pc \in {"select", "enqueue", "relate", "send", "receipt", "record", "checkpoint"} =>
    file = Snapshot(graph)

\* The relations the loop makes form a forest, whatever crashes and retries
\* happen in between: it relates a node at most once, and never in a circle,
\* so no relation is ever asserted again and strengthened.
RelationsFormForest == Forest(graph)

StaysUp == <>[](pc # "down")

\* From some point on no call raises.  Where a raise leaves what the step
\* itself would have left (a checkpoint that writes what is stored already),
\* the two are one step, and it is taken for the step.
StopsRaising == <>[][Raise => LoopStep]_vars

\* The gaps close (recall.py: an isolated node becomes the goal "go relate
\* this"): a process that stays up and again and again sees all its sources
\* ends with no isolated node, even when every report it tries to send, and
\* the save of every relation, raises.  It takes two sources: see KeepsReporting.
GapsClose ==
  (StaysUp /\ []<>(pc = "select" /\ stale = {})) => <>[](Isolated(graph) = {})

\* No line has come on which a cycle raises.
MailIsReadable == \A i \in 1..arrived : Mail[i] \notin {"unreadable", "malformed"}

\* "Reports honestly to its operator rather than waiting to be messaged"
\* (README): relating memory never keeps the loop from reporting for ever, as
\* long as no line of the inbox makes its cycles raise.
KeepsReporting ==
  (StaysUp /\ StopsRaising /\ []MailIsReadable) =>
    []<>(pc = "receipt" /\ action.kind = "report_to_operator")

\* Line i is a verdict, and in the inbox; it has been recorded.
Delivered(i) == Mail[i] = "verdict" /\ arrived >= i
Heard(i) == pc = "ingest" /\ at = i + 1

\* "Read inbound operator messages and record any verdicts they carry"
\* (kernel/loop.py): a verdict in the inbox reaches the contribution record, if
\* every line is an object (all mail is lost with one that is not) and none
\* before the verdict makes _ingest_verdicts raise.  One behind it may.
VerdictsAreHeard ==
  (StaysUp /\ StopsRaising /\ []~Malformed(arrived)) =>
    \A i \in DOMAIN Mail :
      (\A j \in 1..(i - 1) : Mail[j] # "unreadable") => (Delivered(i) ~> Heard(i))

\* A system "that needs a human to restart its mind every time it crashes is
\* not maintaining itself" (continuity.py): a process that is left running
\* goes on completing cycles, whatever it finds in its inbox.
KeepsCompletingCycles ==
  (StaysUp /\ StopsRaising) => []<>(pc = "checkpoint")
=============================================================================

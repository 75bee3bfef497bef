# A TLA+ model of keava_owent

keava_owent is a persistent agent loop in Python: one process that wakes on an
interval, runs one cycle, and keeps what must survive in a SQLite file and a JSON
snapshot. This directory holds a TLA+ model of it, the TLC configurations that
check the model on small instances, and proofs, checked by TLAPS, that the main
safety properties hold for every instance.

    tlc -config Loop_safety.cfg MCLoop        # and so on, one cfg per question
    tlapm ActsProofs.tla                        # likewise the other *Proofs modules

## 1. The system

One cycle (`kernel/loop.py`, `Loop.cycle`) does, in this order: recover the state
row and number the cycle; read every live source; read the inbox and record
verdicts; read the meter; fold the readings into memory and save the snapshot;
find gaps and choose a goal; turn it into an action; gate it; act or queue it;
write a receipt; append the ledger event; checkpoint.

| Component | State it keeps | Operations | Correct when |
| --- | --- | --- | --- |
| Loop kernel (`kernel/loop.py`) | only the frame of the running cycle | `cycle` and its helpers | whatever is cut short, the durable records still agree |
| Continuity, state (`kernel/continuity.py`, `state.py`) | the state row: `cycle_id`, `stale_sources`, health, and fields never read back | recover, settle, checkpoint | numbers are neither skipped nor reused for a closed cycle |
| Scheduler, assembly (`main.py`) | the process | build, start, what an exception does | cycles go on being completed |
| Live references (`livereference/`) | the registered sources | `read_all` | nothing is built on a source that was not seen; a lost source stays flagged until it is seen |
| Memory (`memory/graph.py`, `recall.py`) | the graph in the process, its snapshot on disk | add node, add edge, save, load, isolated nodes | nothing saved is lost; relations are made once |
| Arrangement (`memory/arrangement/`) | none | `link` (does nothing), `neighbors` | what is retrieved is the nearest and strongest there is |
| Spark (`spark/generator.py`) | none | find gaps, next goal | there is always a goal; stale references come first |
| Membrane, registry, orientation | configuration | allowed, approval needed, self-negating | gated kinds are not done |
| Approvals (`membrane/approval.py`) | table approvals | request, approve, deny | an undecided or denied request is not acted on, an approved one is |
| Receipts (`actions/receipts.py`) | table receipts, a hash chain | record | what the ledger says was done has a receipt; each receipt follows the one before |
| Meter (`ledger/consumption.py`) | time and CPU time of the last reading | read the draw since then | no draw is counted twice, and what is lost is known |
| Ledger, contribution (`ledger/`) | tables ledger, verdicts | append, record verdict | a closed cycle is charged; a verdict is recorded in order |
| Store (`store/db.py`) | the SQLite file | one transaction per write | each write happens or not |
| Transport (`transport/email_transport.py`) | outbox and inbox files | send, fetch | a report leaves a record; mail is read |

Components interact by calls out of `Loop.cycle`; the shared state is the graph,
the database and the two mail files. The outside interferes in these ways: a live
source falls silent or comes back, mail arrives, the operator decides on a request,
a call raises, the process is killed, the next process registers other sources, the
clock is set, and somebody runs `main.py --once` beside the loop.

What is hard here is *partial failure*. Within one process cycles never overlap
(`max_instances=1`, or a sequential loop), but a cycle makes up to seven durable
writes in three places without a common transaction, and it may stop between any two
of them, either with the process (a kill) or without it (an exception that
APScheduler logs), in which case the graph in memory survives and the frame of the
cycle does not. Between two processes the only lock is per process (`_LOCK` in
`store/db.py`), so what one of them has read may be old when it writes.
`PROJECT.json` lists the hazards line by line, with the property for each.

## 2. Modules

    Memory ----+            +-- MCLoop
               +-- Loop ----+-- Approvals ------ MCApprovals
    Membrane --+            +-- LoopRecords ---- MCLoopRecords
                                    |
                             StandingLedger (abstract)

    LiveReference ---- MCLiveReference        SharedStore
          |                                   Metering
        Sight (abstract)                      Recall ---- MCRecall

    MemoryProofs -- LoopProofs -- RecordsProofs -- ActsProofs
    LiveReferenceProofs   SharedStoreProofs   RecallProofs   MeteringProofs

The upper group is one model of the whole cycle in one process. The lower modules
each open up something the cycle takes for a single step or leaves out: how a source
comes to be flagged, what two processes do to the tables, what a reading of the meter
is worth, and how memory is searched.

**Memory** -- graph and snapshot as values: `AddNode`, `AddEdge`, `Isolated`,
`LastOther`, `Load` and so on. The loop only ever makes nodes
`reading:<source>`, so a node is its source. Insertion order is kept, because
`gaps[0]` and `others[-1]` depend on it. All edges are `relates_to`.

**Membrane** -- orientation guard, registry and membrane as operators on a proposed
action: `EarnMyKeep`, `Gate`. `HighImpactKinds` is whatever the operator's file
lists.

**Loop** -- the control of one cycle and the process around it. `pc` is the step
that comes next. A step is the code between two points at which the outside can
see, lose or fail something:

| Action | Code |
| --- | --- |
| `Observe` | recover the row, `read_all` |
| `Fetch`, `FetchRaises`, `Judge`, `JudgeRaises` | `fetch_inbound`, the turns of `_ingest_verdicts`, and the lines on which each of them raises |
| `Meter` | `meter_cycle` |
| `Integrate`, `OpenSnapshot`, `WriteSnapshot` | the turns of `_integrate`; `save()` in two steps, `open(..., "w")` and `json.dump` |
| `Select` | find gaps, next goal, action, orientation guard, registry, membrane |
| `Enqueue`, `Relate`, `Send`, `Receipt` | `_gate_and_act`, `_execute` |
| `Record`, `Checkpoint` | ledger append; settle and save the state row |
| `Raise` | the call made in this step raises; `Abort` is what the scheduler makes of it |
| `Kill`, `Restart`, `Arrive` | process and mail |

A raise is possible in every step that does input or output, before its effect; a
request that raised after SendGrid accepted the mail is in `LoopRecords`. A line of
mail is of one of five kinds: with a valid verdict, without one, with a verdict or
body that is no string (`strip` or `lower` raises), from a sender who is not
allowlisted, or JSON that is no object (`m.get` raises). A foreign line, which
`fetch_inbound` drops, takes a turn of `Judge` that writes nothing.

**LoopRecords** -- the same actions with the rows they write: ledger, receipts,
approvals, verdicts, reports, state row. `attempt` counts started cycles; readings
of the meter are told apart by the attempt that took them, since a reading covers
exactly the draw since the one before. `attempt`, `remembered` (the memory at the
last checkpoint) and `torn` (a process has since been started without a readable
snapshot) are history variables: apart from the bound, no action decides by them.

**StandingLedger** -- what ledger and continuity promise together, without process,
database or failure: the open cycle is charged with ever later readings and closed
only behind a charge of its own; a closed cycle is never charged again. It does not
promise one event per cycle, because the code does not keep that (section 4).
`KeepsStandingLedger` is the refinement, checked by TLC and proved.

**Approvals** -- the approval queue beside the cycle of Loop, without a bound on
attempts: rows that show the same are one, so the state space is finite and
liveness can be asked about. `ADecide` is the operator's `approve` or `deny`.

**LiveReference** -- `read_all` source by source, and the list `stale_sources` with
its order. Each source answers or not, and may change at any moment, between two
reads of one cycle as well. The only times the engine compares are the age of the
reading in hand and the budget of its source, so the clock is that age: it is zero
when `read_fn` has returned (`taken_at` is stamped then), grows, leaps, and is
negative after the clock was set back. A process registers one of several
`Assemblies`, so a flag may outlive the registration of its source. `alive` and
`silent` are history variables.

**Sight** -- what the live references promise, with `seen`, the sources seen in the
current look, as part of the state: only a source in view is seen; a look ends with a
registered source lost unless it is in `seen`, and with every other flag as it was;
nothing but a look changes what is lost. `SeesAsSightDoes` is the refinement: `seen`
is the `fresh` of `read_all`, and a source is in view while a reading of it no older
than its budget is in hand. A `Judge` that finds a reading fresh is a `See`, a
`Checkpoint` is a `Look`, a cut cycle a `GiveUp`, a kill or restart an `Assemble`; the
rest only changes what is in view. Loop's `Observe` is the equation of `Look`.

**SharedStore** -- several processes on one database, each a cycle cut down to its
transactions: recover, look up the last receipt, take the time, append a receipt,
append an event, checkpoint. Receipts carry the position of the row whose hash they
hold; `last_receipt_hash` orders by `created_at`, and where several rows have the
latest time any of them may come first, since SQL leaves that open. `seen` and
`setBack` are history variables.

**Metering** -- `meter_cycle` against what the process really draws: in each tick of
true time some CPU load and the memory it holds, which may change at any moment
(`Resize`). Energy is counted in units, `Digit` of which make the last of the nine
digits kept. A reading is `CpuPercent`, the load since the last reading in steps of a
tenth of a percent (`LoadStep` is what a tick draws at such a load; zero on the first
call), plus the memory held now, both times the wall time since the last reading,
which may be stepped; the sum is rounded, of two digits as near to either. Without
psutil it is a flat assumption per unit of wall time. `CutShort` drops a reading with
the frame of its cycle; `End` loses what no reading covers.

**Recall** -- `RelationalArrangement.neighbors`, one step per turn of a loop.
Candidates of a turn are sorted by weight alone, so of equal ones any may come first.
Two candidates that agree in weight and node are one: the second is passed over
because the node is in `seen`.

Definitions whose comment starts with "A slip" are plausible mistakes in the code
they stand next to. No specification uses them; each property is checked to fail
when its slip replaces the definition, so that it says something about the code.

## 3. What the passing runs show

| Run | Instance | Question |
| --- | --- | --- |
| `Loop_safety` | 3 sources, an unreadable and a malformed line of mail, reports gated, raises and kills everywhere | graph against snapshot, records and freshness |
| `Loop_liveness` | 3 sources, a verdict and an unreadable line behind it, raises and kills everywhere, fairness | gaps close, reports go on, verdicts are read |
| `Records_safety` | 2 sources, 3 attempts, a verdict and a malformed line, SendGrid, raises and kills everywhere | tables against each other and the state row; memory since the last checkpoint; refinement of StandingLedger |
| `Records_mail` | 2 sources, 3 attempts, 4 lines of mail, local outbox, plain loop, `relate_memory` gated | order of verdicts, reports behind receipts, the gate |
| `Shared_store` | 2 processes, 4 cycles, 2 readings of the clock, which may be set back | chain, times, numbers |
| `Live_reference` | 3 sources of which each process registers 2, in 3 ways; budgets 0 and 1 | flags true, ordered, noticed and cleared; refinement of Sight |
| `Recall` | all graphs over 4 nodes with pairs unrelated, weak or strong; every start; budgets 0, 2, 3, 4 | the answer against distance and strength |
| `Metering` | 4 ticks, 3 readings, clock off by one, loads 0 to 2 read in steps of 2, memory 1 or 2, `Digit` 3 | where every unit of draw goes, and how far the books may be off |

Properties of the loop:

- `ActsOnFreshReferencesOnly`: memory is related only in a cycle that read every
  registered source fresh, although the flags come partly from earlier cycles. Nodes
  are added, and the snapshot is written, in any cycle (section 4).
- `MemoryNeverBehindItsFile`: a save that is opened and not finished leaves an empty
  file, but never a process that knows less than a readable one; a later save cannot
  drop what an earlier one kept.
- `RecordedMemoryIsSaved`: from selection to checkpoint the snapshot equals the
  graph (but for the steps that write it), so no receipt or charge speaks of memory
  that a kill could still take.
- `RelationsFormForest`: no node is related twice, and never in a circle, across
  any sequence of crashes. So the reinforcing branch of `add_edge` is never taken.
- `GapsClose`, `KeepsReporting`, `VerdictsAreHeard`: progress (section 5).

Properties of the records: `LedgerCoversCheckpoint`, `IdsNeverRunAhead`,
`LedgerIsAHistory`, `ClosedCyclesStayClosed` and `KeepsStandingLedger` relate ledger
and tables to the number in the state row under reuse of numbers; `EventsAreBacked`
and `OneActPerAttempt` relate ledger, receipts and requests of one attempt (the
limit `max_actions_per_cycle: 1` of `limits.yaml` is read by no code and holds by the
order of the steps); `OneReportPerAttempt` says that a send that does not answer puts
one report at most in the operator's hands per attempt (two attempts may report under
one number); then `GateHolds`, `VerdictsComeInOrder`, `ReportsLeaveARecord`.
`MemoryLostOnlyInASave` ties memory to the state row: what was known at the last
checkpoint is known to every later process, however cycles are cut short or raise or
save over it, unless one was started on a snapshot left half written. It is what
remains of the promise that `Records_kill_in_save` refutes: that kill is its only
exception.

Properties of the shared store:

- `ForksHaveACause`: two receipts follow the same one only if their makings
  overlapped or the first is stamped no later than what it follows (the clock was set
  back, or did not move between the two). Nothing else breaks the chain; a single
  process under a clock that moves never forks it, which is proved (`AloneNeverForks`).
- `TimeFollowsTheChain`: without a step back, `created_at` never decreases from a
  receipt to the one that follows it, whoever wrote them.
- `NumbersHaveNoGaps`: a slow process may set `cycle_id` back and numbers may be used
  again, but none is skipped, and the number in the state row has its event.

Properties of the live references: `FlagsTellTheTruth` (seen and flagged for what the
source did in this very cycle), `LongestLostStaysFirst` (the first flag is what the
loop reports, so the order matters), `SeesAsSightDoes` (after a checkpoint a
registered source is flagged unless that cycle read it within its budget, and no other
flag has come or gone), `LossIsNoticed` and `RecoveryIsNoticed`.

Properties of the retrieval: `NearestAndStrongestFirst` and `NothingBetterLeftOut`,
against distances defined on the graph; `WalkEnds`, and `WalkDescends`, the measure by
which it does: every step lowers `Unmet`, or keeps it and lowers `Turns`. Of the meter:
`CostIsNotOverstated` (unless the clock is set ahead, no more is charged than was drawn)
and `DrawIsAccountedFor` (under a steady clock what was drawn is recorded, in hand,
dropped with a cut cycle, yet to be read, or unseen, which means CPU draw before the
first reading of a process or anything after its last), both to the precision of the
books, `Slack`. That is half a digit for each reading, and for each tick half a step
of load and the range in which memory moves: with a load rounded to 0.1 % and memory
sampled at the reading, the program knows no more. What the two properties add is that
nothing else is lost or counted twice, by cut cycles, ends, starts and clocks.

Bounds. Three sources are the fewest at which a relation has a choice of targets
and a circle of more than two could form; two suffice for the records, whose steps do
not depend on the graph. Three attempts allow an unfinished cycle before and after a
closed one, and a second reuse of one number. The mail of `Records_mail` has verdicts
on either side of a line that is none, and ends in a line that cuts the cycle short.
Four cycles of two processes let one process finish several while the other is
between two transactions; two readings of the clock, one of them twice, make equal,
increasing and decreasing stamps. In `Live_reference` one assembly knows a source the
others do not and two disagree on an order; budgets 0 and 1 with ages -1 to 2 give
every outcome of the comparison. Four nodes give circles, two paths of different
length and of different weight to one node, and a ring that a budget cuts. `Digit` 3
rounds up and down, and a single digit is worth more than one tick; loads in steps of
2 round up, down and to nothing, and memory doubles and halves between two readings.
The mail of `Loop_liveness` has a verdict that is in time and a line on which every
later cycle raises, behind it.
`MaxAttempts`, `MaxCycles`, `MaxTime`, `MaxTicks`, `MaxReadings` and `MaxStep` bound
only runs; the proofs hold for every value. `CHECK_DEADLOCK FALSE` is set for
`Recall` alone, whose walk ends.

## 4. Where the code departs from what it says

Each of these runs checks one statement of the repository and finds a short way in
which it fails.

| Run | Statement | What happens |
| --- | --- | --- |
| `Loop_one_source` | "reports honestly to its operator rather than waiting" (README) | with the one source `build()` registers, its node stays isolated, every cycle is a `noop`, no report is ever sent while it reads fresh |
| `Loop_broken_inbox` | a system that needs a human after a crash "is not maintaining itself" (continuity.py) | one inbox line that is JSON but no object ends every later cycle |
| `Records_kill_in_save` | "killed at any moment and come back knowing what it knew" (db.py) | killed while saving, it comes back with no memory |
| `Approvals_never_done` | gated actions "BLOCK until a human decides" (approval.py) | an approved action is never carried out; the same request is queued again every cycle |

Departures seen while modelling that have no run of their own:

- A kill between ledger append and checkpoint (`loop.py:91-96`) makes two events with
  one cycle number, though `ledger.py:4` says each cycle produces one. The passing
  runs allow for it: readings differ, and `KeepsStandingLedger` permits it.
- engine.py:7-9 has the system refuse to act on a stale reference and drop to
  EXPLORE, observe-only. Only relating stops: in every cycle, stale or not,
  `_integrate` (`loop.py:111-118`) adds nodes for the sources that did read fresh and
  rewrites the snapshot, and no code sets the mode.
- Readings are tagged so that "the ledger never overstates its own precision"
  (`consumption.py:9-10`). The tag says ESTIMATED, but nine digits of a kWh are kept
  where a load is known to 0.1 %: at the shipped cadence of
  1800 s such a step of 28 W is 0.000014 kWh, 14000 of the ninth digit. A process that
  sleeps reads 0.0 and its CPU draw is in no account. The memory at the reading is
  charged for the whole interval. `Slack` in Metering is what this comes to.
- A reading whose cycle is cut short is charged to no cycle (`loop.py:64`): the
  `dropped` of Metering. A `--once` run charges no CPU draw: its only reading is the
  first one, part of `unseen`.
- `_ingest_verdicts` is to "record any verdicts they carry" (`loop.py:121`), but a
  message whose verdict or body is no text raises in it (`loop.py:127,130`), in every
  cycle that reads the inbox: `JudgeRaises`. From then on no cycle is completed, as in
  `Loop_broken_inbox`, and no verdict behind that message is ever recorded, however
  long the process stays up. `VerdictsAreHeard` claims only those before it.
- The inbox is read from its first line in every cycle and nothing marks what was
  read (`email_transport.py:95`), so a verdict is recorded once per cycle, though
  `fetch_inbound` is said to return new messages. `VerdictsComeInOrder` allows it.
- Every cycle but the first is `RECOVERING` (`continuity.py:33`), not only the one
  after a restart, and a cold start is `NOMINAL`, where the docstring says
  `RECOVERING`.
- `latest` is the first value ever read, since `add_node` leaves the payload of a
  known node alone (`loop.py:114-117`).
- The words of a verdict are searched in the whole body, `harmful` first
  (`loop.py:131`), so a reply that quotes the words counts as the worst of them.
- `taken_at` is stamped after `read_fn` returns (`sources.py:33`), so slowness or a
  cache inside a source never makes it stale.
- The flag of a source that is no longer registered is never cleared, and outranks
  every isolated node from then on: the loop only reports.
- The plain loop of `main.py`, meant to keep the system running without APScheduler,
  ends with the first exception (`Records_mail` runs in that mode).

## 5. Fairness

Loop: weak fairness of `LoopStep`, in `FairSpec`. The scheduler starts a cycle
whenever an interval has passed and the previous one has ended, and every call in a
cycle returns or raises (SQLite waits a bounded time for a lock, the request has
`timeout=20`). Nothing promises a restart, the arrival of mail, or that a source
is ever fresh, and a step may raise again and again. So the liveness properties
state what they assume: a process that stays up, and, for reports and verdicts, calls
that stop raising and mail that lets cycles through: `KeepsReporting` assumes that no
line comes on which a cycle raises (`MailIsReadable`), `VerdictsAreHeard` that no line
is JSON but no object, and speaks only of verdicts before the first line whose verdict
or body is no text. Neither kind of line is a call that fails, so `StopsRaising` does
not exclude it, and neither ever stops: `Loop_broken_inbox` shows the one, and section 4
tells of the other. (`StopsRaising` allows a `Raise` that leaves exactly what a step
leaves: a checkpoint that raises and one that writes what is stored already lead to
the same state, so excluding that step would exclude every steady cycle and leave
the two properties empty.) `GapsClose` needs no end of raises, only that a cycle
reaches its selection with all sources fresh again and again; it holds because an
isolated node is related *before* anything that could raise is reached, and a relation
in the graph survives a failed save.

Approvals: weak fairness of the same cycle; nothing makes the operator decide.

LiveReference: weak fairness of `Cycle`, which assumes that every `read_fn` returns or
raises: it has no time limit, and the one `build()` registers is `time.time`.
`LossIsNoticed` and `RecoveryIsNoticed` assume a process that stays up and cycles that
stop being cut short (`StopsCutting`, weakened like `StopsRaising`); recovery also
that readings stop growing older than their budget before they are judged.

Recall: weak fairness of its only process.

## 6. What is proved

The proofs are for every value of the constants: every set and order of sources,
every mail, every membrane configuration, every choice of steps that may raise,
killable or not, supervised or not, any number of attempts; any set of processes; any
assemblies and budgets; any graph; any load, digit and clock. Their assumptions are
the named `ASSUME`s of the modules, which say what the constants are; TLC evaluates
them in every run.

- **MemoryProofs**: lemmas about the operators. `FirstIsolatedIsIsolated`,
  `LastOtherIsOther` (the `CHOOSE`s are well defined), and `ForestGrows`: an edge
  out of an isolated node keeps a forest a forest.
- **LoopProofs**: `LoopInv = TypeOK /\ CycleInv /\ MemoryInv` is inductive. The
  safety properties are not inductive alone: freshness needs that `stale` and
  `readings` together cover the sources from `Observe` on; the forest needs that the
  node in hand is still isolated at `relate`; and all of memory needs that an
  unreadable file counts as an empty one. Theorems `TypeCorrect`, `FreshReferences`,
  `NothingSavedIsForgotten`, `SavedBeforeRecorded`, `ForestOfRelations`. The lemma
  `MemoryOfStep` says of every step but a start what it does to graph and file. With
  it `ClosedGapsStayClosed` proves the safety half of `GapsClose`: while a process
  lives no source that has a relation loses it, and every relation takes one source
  more out of the unrelated ones, so that a process makes no more relations than there
  are sources. `ReadingsInv` (what was read fresh is in the
  graph after `Integrate`) gives `RelatesNotInVain`: with two sources or more an act of
  relating is never a noop: the endless noop of the run Loop_one_source takes a
  configuration of one source, which the shipped `build()` has.
- **RecordsProofs**: `RecordsImplementLoop` carries `LoopInv` over. `LedgerInv` adds
  that all charges before the record step are older than the running attempt, and
  that at the checkpoint step the last charge belongs to the open cycle. Theorems
  `RecordsTypeCorrect`, `EveryClosedCycleIsCharged`, `NothingIsChargedTwice` and the
  refinement `LedgerRefinement`: `RRecord` is a charge, `RCheckpoint` settles,
  everything else stutters.
- **ActsProofs**: `GateInv` says where a gated action can be in hand (only queued or
  past the act), `ActsInv` that no row numbers the running attempt before it has
  acted and that at the record step its event is backed already; `VerdictsInv` that
  the verdicts before the line in hand are on record; `SendsInv` that up to the send
  no report carries the running attempt; `SavedInv` that, unless `torn`, both the
  process and a readable file hold what the last checkpoint was made on, which rests
  on `MemoryOfStep`; `RecordedMemoryIsSaved` is why a checkpoint restores it. Theorems
  `NumbersFit`, `EveryEventIsBacked`, `ActsOncePerAttempt`, `NothingGatedIsDone`,
  `NothingClosedReopens`, `VerdictsInOrder`, `ReportsAreThere` (for the local outbox),
  `ReportsOnce` and `LostOnlyInASave`.
- **SharedStoreProofs**: the invariant is `ChainInv /\ TimeInv /\ NumberInv`. The
  chain needs what a process holds between look-up and append: a row that was the
  latest by time among the `seen` rows there were. From that a fork is explained by
  comparing what each of the two saw. Times need that a stamp taken is neither later
  than now nor earlier than the row looked up; numbers that every running cycle
  builds on events that are there, which append-only tables cannot take back. Theorems
  `SharedTypeCorrect`, `ForksAreExplained`, `TimeFollows`, `NoNumberIsSkipped`. For a
  single process `AloneInv` adds that nothing is stored between look-up and append;
  `AloneNeverForks` concludes that receipts made at strictly increasing times form
  one line (`ChainIsALine`, which two processes break).
- **LiveReferenceProofs**: `LiveInv` says that in a running cycle the flags are the
  saved ones and the sources visited, less those seen fresh, and that the list keeps
  the order of the saved one. Theorems `LiveTypeCorrect`, `FlagsAreTrue`,
  `OldestFlagFirst` and the refinement `LiveRefinement`: what Sight has seen is the
  `fresh` of `read_all`, so that `Checkpoint` is a `Look` because the flags are as
  `LiveInv` says once every source is visited; `Judge` is a `See` only with a reading
  in hand within its budget.
- **RecallProofs**: `WalkInv` adds to the type invariant that every candidate is
  linked to the ring it was gathered from. Theorems `RecallTypeCorrect` (nothing
  twice, never the start, never past the budget) and `WalkedNotScanned`. The order
  needs to know where among the distances the walk stands, which the code never
  computes. `RingInv` says it: between two rings `seen` is the ball of some radius and
  `frontier` its outermost ring; within one, what was returned of the next ring is at
  least as strongly related as every candidate left. Theorems `AnswersInOrder` and
  `BestWithinBudget`. Distances are the balls around the start, unfolded one step at a
  time; facts about all radii are proved by taking the least radius at which they
  would fail (`LeastElement`, from the library's well-foundedness of `<`), which is
  induction without a theorem that takes an operator. `EveryTurnDescends` proves the
  measure `WalkDescends`, `WalkNeverStuck` that until the walk is done it has a step to
  take: of finitely many candidates one is strongest. Both together leave to fairness
  only that the walk goes on.
- **MeteringProofs**: `MeterInv` is the balance `DrawIsAccountedFor` with what the
  gauge holds (CPU draw takes time, memory drew between its least and its most in each
  tick, the steps of the clock fit its offset) and the same balance as an inequality
  where the clock was only set back. The lemmas `LoadFacts`, `MemoryFacts` and
  `EstimateFacts` bound how far a reading can be from the draw it covers, `Rounding`
  what the digits add, and `SlackGrows` that the precision of the books takes up just
  that. Theorems `MeterTypeCorrect`, `NeverOverstated`, `AllDrawIsAccountedFor`, for
  every step of load, digit and range of memory.

Only model-checked: the liveness properties `GapsClose`, `KeepsReporting`,
`VerdictsAreHeard`, `LossIsNoticed`, `RecoveryIsNoticed` and `WalkEnds` (liveness under
fairness is out of the prover's reach), and the runs of section 4, which are
counterexamples. Every invariant and every action property that a passing run checks
is stated by a theorem.

## 7. Not modelled

Because no decision depends on it: report wording and totals, subjects, time stamps
but those of receipts, payloads of the graph, `health`, `open_gaps`, `active_goal` and
`mode` in the state row, signatures and key generation, YAML loading.

Because it is the same form again: the GPU term of a reading and the water
coefficient.

Because the loop never gets there: the strengthening of an edge (`RelationsFormForest`
shows it), edge and node types it does not use, writes to a path (`Membrane` takes
where a path lies for the outcome of the prefix test, whose weakness at
`modes.py:73` it therefore does not show), the packing-geometry stub, which raises.

Abstracted: which verdict a message carries is given with its line; the search for
the words in its text is not modelled. A snapshot written by two processes is not
either: Loop has one process and SharedStore no memory, and the product of both with
raises and kills everywhere is beyond TLC. Missed intervals (`coalesce`) only delay
the next cycle, and no property is about time between cycles.

What could be added: the verdict search over messages as sets of words, the prefix
test over path components, and the memory of two processes as a module of its own.

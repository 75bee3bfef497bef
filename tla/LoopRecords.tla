----------------------------- MODULE LoopRecords ----------------------------
(***************************************************************************)
(* The rows the cycle of Loop.tla writes: the ledger of what each cycle    *)
(* cost, receipts, approvals, verdicts, the reports it sends and the state *)
(* row it checkpoints (store/db.py and the classes in front of it).        *)
(*                                                                         *)
(* Every action here is an action of Loop together with what that step     *)
(* does to the rows.  A cycle that starts is an attempt; an attempt that   *)
(* ends without a checkpoint leaves its cycle number to be used again.     *)
(* The meter reads the draw since its previous reading, so the readings    *)
(* are told apart by the attempt that took them.                           *)
(***************************************************************************)
EXTENDS Loop

CONSTANTS
  MaxAttempts,     \* bound: the cycles that are started, finished or not
  Channel          \* where reports go: "local_outbox" or "sendgrid"

ASSUME RecordsAssumption ==
  /\ MaxAttempts \in Nat
  /\ Channel \in {"local_outbox", "sendgrid"}

VARIABLES
  attempt,       \* history: how many cycles were started
  cycle,         \* state.cycle_id in the running cycle, 0 between cycles
  saved,         \* cycle_id of the state row, 0 while there is no row
  ledger,        \* table ledger
  receipts,      \* table receipts
  approvals,     \* table approvals
  verdicts,      \* table verdicts: the lines of Mail they were read from
  delivered,     \* reports in the outbox file, or accepted by SendGrid
  remembered,    \* history: the memory at the last checkpoint
  torn           \* history: since then a process found no snapshot it could read

rows == <<ledger, receipts, approvals, verdicts, delivered>>
recordVars == <<vars, attempt, cycle, saved, rows, remembered, torn>>

Pending == "PENDING"

RInit ==
  /\ Init
  /\ attempt = 0 /\ cycle = 0 /\ saved = 0
  /\ ledger = <<>> /\ receipts = <<>> /\ approvals = <<>>
  /\ verdicts = <<>> /\ delivered = <<>>
  /\ remembered = NoMemory /\ torn = FALSE

ForgetState == cycle' = 0

-----------------------------------------------------------------------------
(* The steps that write rows. *)

\* Slips: the number is taken from a count of its own, or not advanced.
RObserveOwnCount ==
  /\ attempt < MaxAttempts
  /\ Observe
  /\ attempt' = attempt + 1
  /\ cycle' = attempt + 1
  /\ UNCHANGED <<saved, rows, remembered, torn>>

RObserveSameNumber ==
  /\ attempt < MaxAttempts
  /\ Observe
  /\ attempt' = attempt + 1
  /\ cycle' = saved
  /\ UNCHANGED <<saved, rows, remembered, torn>>

\* recover_or_init, then cycle_id += 1.
RObserve ==
  /\ attempt < MaxAttempts
  /\ Observe
  /\ attempt' = attempt + 1
  /\ cycle' = saved + 1
  /\ UNCHANGED <<saved, rows, remembered, torn>>

\* A slip: the newest mail is judged first.
RJudgeNewestFirst ==
  /\ Judge
  /\ LET m == fetched + 1 - at IN
       verdicts' = IF Mail[m] = "verdict" THEN Append(verdicts, m) ELSE verdicts
  /\ UNCHANGED <<attempt, cycle, saved, ledger, receipts, approvals, delivered,
                 remembered, torn>>

\* record_human_verdict, for a message with a verdict that is a known word.
RJudge ==
  /\ Judge
  /\ verdicts' = IF Mail[at] = "verdict" THEN Append(verdicts, at) ELSE verdicts
  /\ UNCHANGED <<attempt, cycle, saved, ledger, receipts, approvals, delivered,
                 remembered, torn>>

RMeter ==
  /\ Meter
  /\ UNCHANGED <<attempt, cycle, saved, rows, remembered, torn>>

REnqueue ==
  /\ Enqueue
  /\ approvals' = Append(approvals, [cycle |-> cycle, draw |-> attempt,
                                     kind |-> action.kind, status |-> Pending])
  /\ UNCHANGED <<attempt, cycle, saved, ledger, receipts, verdicts, delivered,
                 remembered, torn>>

\* A slip: the outbox file is opened for writing instead of appending.
RSendOverwriting ==
  /\ Send
  /\ delivered' = <<[cycle |-> cycle, draw |-> attempt]>>
  /\ UNCHANGED <<attempt, cycle, saved, ledger, receipts, approvals, verdicts,
                 remembered, torn>>

\* The outbox file takes every report; SendGrid may answer that it does not.
RSend ==
  /\ Send
  /\ \/ delivered' = Append(delivered, [cycle |-> cycle, draw |-> attempt])
     \/ Channel = "sendgrid" /\ delivered' = delivered
  /\ UNCHANGED <<attempt, cycle, saved, ledger, receipts, approvals, verdicts,
                 remembered, torn>>

RReceipt ==
  /\ Receipt
  /\ receipts' = Append(receipts, [cycle |-> cycle, draw |-> attempt,
                                   kind |-> action.kind, status |-> result])
  /\ UNCHANGED <<attempt, cycle, saved, ledger, approvals, verdicts, delivered,
                 remembered, torn>>

RRecord ==
  /\ Record
  /\ ledger' = Append(ledger, [cycle |-> cycle, draw |-> attempt,
                               note |-> action.kind])
  /\ UNCHANGED <<attempt, cycle, saved, receipts, approvals, verdicts, delivered,
                 remembered, torn>>

\* A slip: the state stays in the frame of the loop instead of being read again.
RCheckpointKeepingState ==
  /\ Checkpoint
  /\ saved' = cycle
  /\ UNCHANGED cycle
  /\ remembered' = graph /\ torn' = FALSE
  /\ UNCHANGED <<attempt, rows>>

\* settle, and the state row written over.
RCheckpoint ==
  /\ Checkpoint
  /\ saved' = cycle
  /\ ForgetState
  /\ remembered' = graph /\ torn' = FALSE
  /\ UNCHANGED <<attempt, rows>>

\* The steps that write none.
RQuiet ==
  /\ Fetch \/ Integrate \/ OpenSnapshot \/ WriteSnapshot \/ Select \/ Relate
  /\ UNCHANGED <<attempt, cycle, saved, rows, remembered, torn>>

-----------------------------------------------------------------------------
(* Failures, and the operator. *)

\* requests.post may raise, its 20 seconds over, after SendGrid took the mail.
RRaise ==
  /\ Raise \/ FetchRaises \/ JudgeRaises
  /\ \/ delivered' = delivered
     \/ /\ pc = "send" /\ Channel = "sendgrid"
        /\ delivered' = Append(delivered, [cycle |-> cycle, draw |-> attempt])
  /\ ForgetState
  /\ UNCHANGED <<attempt, saved, ledger, receipts, approvals, verdicts, remembered, torn>>

RKill ==
  /\ Kill
  /\ ForgetState
  /\ UNCHANGED <<attempt, saved, rows, remembered, torn>>

RRestart ==
  /\ Restart
  /\ torn' = (torn \/ ~file.readable)
  /\ UNCHANGED <<attempt, cycle, saved, rows, remembered>>

RArrive ==
  /\ Arrive
  /\ UNCHANGED <<attempt, cycle, saved, rows, remembered, torn>>

\* approve and deny: the operator decides on a row, at any time, and may
\* decide again.
Decide ==
  /\ \E i \in DOMAIN approvals, status \in {"APPROVED", "DENIED"} :
       approvals' = [approvals EXCEPT ![i].status = status]
  /\ UNCHANGED <<vars, attempt, cycle, saved, ledger, receipts, verdicts,
                 delivered, remembered, torn>>

RNext ==
  \/ RObserve \/ RJudge \/ RMeter \/ REnqueue \/ RSend \/ RReceipt \/ RRecord
  \/ RCheckpoint \/ RQuiet \/ RRaise \/ RKill \/ RRestart \/ RArrive \/ Decide

RSpec == RInit /\ [][RNext]_recordVars

-----------------------------------------------------------------------------
(* Properties. *)

Row == [cycle : Nat, draw : Nat]
ActRow == [cycle : Nat, draw : Nat, kind : RegisteredKinds \cup {"none"},
           status : Results]
ApprovalRow == [cycle : Nat, draw : Nat, kind : RegisteredKinds \cup {"none"},
                status : {Pending, "APPROVED", "DENIED"}]
Event == [cycle : Nat, draw : Nat, note : RegisteredKinds \cup {"none"}]

\* Every table holds rows of its type, and the number of the running cycle is
\* the one after the last that was checkpointed.
RTypeOK ==
  /\ attempt \in 0..MaxAttempts
  /\ saved \in Nat
  /\ cycle = IF pc \in {"idle", "down"} THEN 0 ELSE saved + 1
  /\ ledger \in Seq(Event) /\ receipts \in Seq(ActRow)
  /\ approvals \in Seq(ApprovalRow)
  /\ verdicts \in Seq(1..Len(Mail))
  /\ delivered \in Seq(Row)
  /\ remembered \in Graph /\ torn \in BOOLEAN

\* A cycle number is never skipped and never closed without its cost on
\* record, however often the cycle was killed or raised on the way.
LedgerCoversCheckpoint ==
  \A c \in 1..saved : \E i \in DOMAIN ledger : ledger[i].cycle = c

\* No row is ever ahead of the state row by more than the open cycle, so a
\* process that comes back resumes with a number at which all rows still fit.
IdsNeverRunAhead ==
  /\ \A i \in DOMAIN ledger : ledger[i].cycle <= saved + 1
  /\ \A i \in DOMAIN receipts : receipts[i].cycle <= saved + 1
  /\ \A i \in DOMAIN approvals : approvals[i].cycle <= saved + 1
  /\ \A i \in DOMAIN delivered : delivered[i].cycle <= saved + 1

\* The ledger is a history: cycles appear in order, and a reading of the
\* meter is charged at most once, in the order the readings were taken.
LedgerIsAHistory ==
  \A i, j \in DOMAIN ledger :
    i < j => ledger[i].cycle <= ledger[j].cycle /\ ledger[i].draw < ledger[j].draw

\* What the ledger says was done has its proof: a receipt from the same
\* attempt, or for a gated kind the request it was held back with.
EventsAreBacked ==
  \A i \in DOMAIN ledger : LET e == ledger[i] IN
    \/ \E j \in DOMAIN receipts :
         /\ receipts[j].cycle = e.cycle /\ receipts[j].draw = e.draw
         /\ receipts[j].kind = e.note
    \/ \E j \in DOMAIN approvals :
         /\ approvals[j].cycle = e.cycle /\ approvals[j].draw = e.draw
         /\ approvals[j].kind = e.note /\ e.note \in HighImpactKinds

\* "max_actions_per_cycle: 1" (limits.yaml), which no code reads: one attempt
\* never acts twice, nor acts and asks.
OneActPerAttempt ==
  /\ \A i, j \in DOMAIN receipts : receipts[i].draw = receipts[j].draw => i = j
  /\ \A i, j \in DOMAIN approvals : approvals[i].draw = approvals[j].draw => i = j
  /\ \A i \in DOMAIN receipts, j \in DOMAIN approvals :
       receipts[i].draw # approvals[j].draw

\* A verdict is on record only behind every verdict that came before it,
\* even when the cycle that was reading the mail is cut short.
VerdictsComeInOrder ==
  \A i \in DOMAIN verdicts : \A m \in 1..(verdicts[i] - 1) :
    Mail[m] = "verdict" => \E j \in 1..(i - 1) : verdicts[j] = m

\* An action of a kind the operator listed as high-impact leaves no trace of
\* having been done, whatever the operator has decided since: no receipt, and
\* when relating is gated no relation in memory or on disk.
GateHolds ==
  /\ \A i \in DOMAIN receipts : receipts[i].kind \notin HighImpactKinds
  /\ "relate_memory" \in HighImpactKinds =>
       graph.edges = {} /\ file.graph.edges = {}

\* A call that times out is not repeated in its cycle (email_transport.py posts
\* once, with a timeout), so whether SendGrid took the mail of a call that
\* raised or not, the operator gets one report of an attempt at most.
OneReportPerAttempt ==
  \A i, j \in DOMAIN delivered : delivered[i].draw = delivered[j].draw => i = j

\* "Always succeeds at SOMETHING (writing a durable record)" (transport): a
\* receipt that says a report was made has the report to show for it.
ReportsLeaveARecord ==
  \A i \in DOMAIN receipts : receipts[i].status = "reported" =>
    \E j \in DOMAIN delivered : delivered[j].draw = receipts[i].draw

\* A closed cycle stays closed: rows that are added carry its number no more.
ClosedCyclesStayClosed ==
  [][/\ saved' >= saved
     /\ \A i \in DOMAIN ledger' \ DOMAIN ledger : ledger'[i].cycle > saved
     /\ \A i \in DOMAIN receipts' \ DOMAIN receipts : receipts'[i].cycle > saved]_recordVars

\* The ledger and the state row together are the abstract standing ledger.
Standing == INSTANCE StandingLedger WITH
  Draw <- 1..MaxAttempts,
  events <- [i \in DOMAIN ledger |-> [cycle |-> ledger[i].cycle,
                                      draw |-> ledger[i].draw]],
  closed <- saved

KeepsStandingLedger == Standing!Spec

\* What a checkpoint was made on is never lost again, however cycles are cut
\* short, raise or save over it: a process knows less only after it, or one
\* before it, was started on a snapshot that was left half written.
MemoryLostOnlyInASave ==
  (pc # "down" /\ ~Within(remembered, graph)) => torn

\* "Killed at any moment and come back knowing what it knew" (db.py).
MemoryComesBack == pc # "down" => Within(remembered, graph)
=============================================================================

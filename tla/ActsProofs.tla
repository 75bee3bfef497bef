----------------------------- MODULE ActsProofs ----------------------------
(***************************************************************************)
(* What the cycle does and what it leaves on record, for every membrane,   *)
(* every mail and every failure the model allows: the gate, the receipts   *)
(* and requests behind the ledger, the reports that go out and the order   *)
(* in which the operator's verdicts are put on record.                     *)
(***************************************************************************)
EXTENDS RecordsProofs

-----------------------------------------------------------------------------
(* The gate. *)

\* Whether the action in hand may still be executed.
GateInv ==
  /\ pc = "enqueue" => action.kind \in HighImpactKinds
  /\ pc \notin {"enqueue", "record", "checkpoint"} =>
       action = NoAction \/ action.kind \notin HighImpactKinds
  /\ pc \in {"relate", "send", "receipt"} => action # NoAction
  /\ pc = "relate" => action.kind = "relate_memory"
  /\ "relate_memory" \in HighImpactKinds =>
       graph.edges = {} /\ file.graph.edges = {}

\* The loop proposes nothing that is refused outright: its actions are
\* executed, or wait for the operator when he listed their kind.
LEMMA GateOfSelected ==
  ASSUME NEW g, NEW lost
  PROVE  LET a == EarnMyKeep(ActionForGap(g, lost)) IN
         Gate(a) = IF a.kind \in HighImpactKinds THEN "awaiting_approval"
                                                 ELSE "execute"
<1>1. CASE lost = {} /\ Isolated(g) # {}
  BY <1>1 DEF ActionForGap, EarnMyKeep, SelfNegating, SelfNegatingKinds, Proposal,
              Gate, Allowed, RequiresApproval, RegisteredKinds
<1>2. CASE ~(lost = {} /\ Isolated(g) # {})
  BY <1>2 DEF ActionForGap, EarnMyKeep, SelfNegating, SelfNegatingKinds, Proposal,
              Gate, Allowed, RequiresApproval, RegisteredKinds
<1>3. QED
  BY <1>1, <1>2

LEMMA SelectedStepGated ==
  ASSUME LoopInv, Select
  PROVE  /\ action'.kind \in {"relate_memory", "report_to_operator"}
         /\ action'.kind \in HighImpactKinds => pc' = "enqueue"
         /\ action'.kind \notin HighImpactKinds => pc' \in {"relate", "send"}
         /\ pc' = "relate" => action'.kind = "relate_memory"
<1>1. action' = EarnMyKeep(ActionForGap(graph, stale)) /\ graph \in Graph
  BY DEF Select, LoopInv, TypeOK
<1>2. action'.kind \in {"relate_memory", "report_to_operator"}
  BY <1>1, SelectedAction
<1>3. Gate(action') = IF action'.kind \in HighImpactKinds THEN "awaiting_approval"
                                                          ELSE "execute"
  BY <1>1, GateOfSelected
<1>4. QED
  BY <1>2, <1>3 DEF Select, BranchOf

LEMMA InitGateInv == Init => GateInv
BY NoMemoryIsGraph DEF Init, GateInv, Unreadable

LEMMA GateInvStep ==
  ASSUME LoopInv, GateInv, [Next]_vars
  PROVE  GateInv'
<1>1. NoAction.kind \notin {"relate_memory", "report_to_operator"}
  BY NoActionType
<1>2. CASE Observe \/ Fetch \/ Judge \/ Meter \/ OpenSnapshot
  BY <1>2, NoMemoryIsGraph
  DEF GateInv, Observe, Fetch, Judge, Meter, OpenSnapshot, durable, locals, Unreadable
<1>3. CASE Integrate
  <2>1. graph'.edges = graph.edges
    BY <1>3 DEF Integrate, AddNode, LoopInv, TypeOK, Graph
  <2>2. QED
    BY <1>3, <2>1 DEF GateInv, Integrate, durable
<1>4. CASE WriteSnapshot
  BY <1>4 DEF GateInv, WriteSnapshot, Snapshot
<1>5. CASE Select
  BY <1>1, <1>5, SelectedStepGated DEF GateInv, Select, durable
<1>6. CASE Relate
  BY <1>6 DEF GateInv, Relate, durable
<1>7. CASE Enqueue \/ Send \/ Receipt \/ Record
  BY <1>7 DEF GateInv, Enqueue, Send, Receipt, Record, durable, locals
<1>8. CASE Checkpoint \/ FetchRaises \/ JudgeRaises \/ Raise \/ Kill
  BY <1>8, NoMemoryIsGraph
  DEF GateInv, Checkpoint, FetchRaises, JudgeRaises, Raise, Kill, Abort, Forget, durable
<1>9. CASE Restart
  BY <1>9, NoMemoryIsGraph DEF GateInv, Restart, Load, durable, locals
<1>10. CASE Arrive \/ UNCHANGED vars
  BY <1>10 DEF GateInv, Arrive, vars, durable, locals
<1>11. QED
  BY <1>2, <1>3, <1>4, <1>5, <1>6, <1>7, <1>8, <1>9, <1>10
  DEF Next, LoopStep, Ingest, Act

-----------------------------------------------------------------------------
(* The rows an attempt leaves. *)

\* What backs the event e: a receipt, or the request of a gated action.
Backed(e) ==
  \/ \E j \in DOMAIN receipts :
       /\ receipts[j].cycle = e.cycle /\ receipts[j].draw = e.draw
       /\ receipts[j].kind = e.note
  \/ \E j \in DOMAIN approvals :
       /\ approvals[j].cycle = e.cycle /\ approvals[j].draw = e.draw
       /\ approvals[j].kind = e.note /\ e.note \in HighImpactKinds

\* The event the running attempt is about to be charged with.
NextEvent == [cycle |-> saved + 1, draw |-> attempt, note |-> action.kind]

\* No row numbers an attempt that was not started, and none numbers the running
\* one before it has acted; then its event is backed already.
RowsOfAttempt ==
  /\ \A i \in DOMAIN receipts : receipts[i].draw <= attempt
  /\ \A i \in DOMAIN approvals : approvals[i].draw <= attempt
  /\ pc \notin {"idle", "down", "record", "checkpoint"} =>
       /\ \A i \in DOMAIN receipts : receipts[i].draw # attempt
       /\ \A i \in DOMAIN approvals : approvals[i].draw # attempt
  /\ pc = "record" => Backed(NextEvent)

ReceiptsUngated == \A i \in DOMAIN receipts : receipts[i].kind \notin HighImpactKinds

ActsInv ==
  /\ IdsNeverRunAhead /\ EventsAreBacked /\ OneActPerAttempt
  /\ RowsOfAttempt /\ ReceiptsUngated

LEMMA InitActsInv == RInit => ActsInv
BY DEF RInit, Init, ActsInv, IdsNeverRunAhead, EventsAreBacked, OneActPerAttempt,
       RowsOfAttempt, ReceiptsUngated

\* Append, without asking what the new row is.
LEMMA AppendedRow ==
  ASSUME NEW S, NEW s \in Seq(S), NEW e
  PROVE  /\ Len(s) \in Nat
         /\ DOMAIN s = 1..Len(s)
         /\ DOMAIN Append(s, e) = 1..(Len(s) + 1)
         /\ \A i \in 1..Len(s) : Append(s, e)[i] = s[i]
         /\ Append(s, e)[Len(s) + 1] = e
<1>1. s \in Seq(S \cup {e}) /\ e \in S \cup {e}
  BY SeqMonotonic
<1>2. QED
  BY <1>1, Appended

LEMMA RowNumbers ==
  ASSUME RTypeOK
  PROVE  /\ \A i \in DOMAIN receipts : receipts[i].cycle \in Nat /\ receipts[i].draw \in Nat
         /\ \A i \in DOMAIN approvals : approvals[i].cycle \in Nat /\ approvals[i].draw \in Nat
         /\ \A i \in DOMAIN delivered : delivered[i].cycle \in Nat /\ delivered[i].draw \in Nat
         /\ saved \in Nat /\ attempt \in Nat
<1>1. \A i \in DOMAIN receipts : receipts[i] \in ActRow
  BY LenProperties, ElementOfSeq DEF RTypeOK
<1>2. \A i \in DOMAIN approvals : approvals[i] \in ApprovalRow
  BY LenProperties, ElementOfSeq DEF RTypeOK
<1>3. \A i \in DOMAIN delivered : delivered[i] \in Row
  BY LenProperties, ElementOfSeq DEF RTypeOK
<1>4. saved \in Nat /\ attempt \in Nat
  BY RecordsAssumption DEF RTypeOK
<1>5. QED
  BY <1>1, <1>2, <1>3, <1>4 DEF ActRow, ApprovalRow, Row

-----------------------------------------------------------------------------
(* One lemma for each step that touches the rows. *)

LEMMA ObserveKeepsActsInv ==
  ASSUME RTypeOK, ActsInv, RObserve
  PROVE  ActsInv'
<1>1. /\ attempt' = attempt + 1 /\ saved' = saved /\ pc' = "fetch"
      /\ UNCHANGED rows
  BY DEF RObserve, Observe
<1>2. RowsOfAttempt'
  BY <1>1, RowNumbers DEF ActsInv, RowsOfAttempt, rows
<1>3. QED
  BY <1>1, <1>2 DEF ActsInv, IdsNeverRunAhead, EventsAreBacked, OneActPerAttempt,
                    ReceiptsUngated, rows

LEMMA ReceiptKeepsActsInv ==
  ASSUME RTypeOK, GateInv, ActsInv, RReceipt
  PROVE  ActsInv'
<1> DEFINE n == Len(receipts)
           r == [cycle |-> cycle, draw |-> attempt, kind |-> action.kind,
                 status |-> result]
<1>1. /\ receipts' = Append(receipts, r)
      /\ pc = "receipt" /\ pc' = "record" /\ action' = action
      /\ UNCHANGED <<attempt, saved, ledger, approvals, delivered>>
  BY DEF RReceipt, Receipt, locals
<1>2. r.cycle = saved + 1 /\ r.draw = attempt /\ r.kind = action.kind
  BY <1>1 DEF RTypeOK
<1>3. action.kind \notin HighImpactKinds
  BY <1>1 DEF GateInv
<1>4. receipts \in Seq(ActRow)
  BY DEF RTypeOK
<1> HIDE DEF r
<1>5. /\ n \in Nat /\ DOMAIN receipts = 1..n /\ DOMAIN receipts' = 1..(n + 1)
      /\ \A i \in 1..n : receipts'[i] = receipts[i]
      /\ receipts'[n + 1] = r
  BY <1>1, <1>4, AppendedRow
<1> HIDE DEF n
<1>6. \A i \in 1..(n + 1) : i \in 1..n \/ i = n + 1
  BY <1>5
<1>7. IdsNeverRunAhead'
  BY <1>1, <1>2, <1>5, <1>6, RowNumbers DEF ActsInv, IdsNeverRunAhead
<1>8. EventsAreBacked'
  <2>1. \A j \in DOMAIN receipts : j \in DOMAIN receipts' /\ receipts'[j] = receipts[j]
    BY <1>5
  <2>2. QED
    BY <1>1, <2>1 DEF ActsInv, EventsAreBacked
<1>9. OneActPerAttempt'
  BY <1>1, <1>2, <1>5, <1>6 DEF ActsInv, OneActPerAttempt, RowsOfAttempt
<1>10. RowsOfAttempt'
  <2>1. n + 1 \in DOMAIN receipts'
    BY <1>5
  <2>2. Backed(NextEvent)'
    BY <1>1, <1>2, <1>5, <2>1 DEF Backed, NextEvent
  <2>3. QED
    BY <1>1, <1>2, <1>5, <1>6, <2>2, RowNumbers DEF ActsInv, RowsOfAttempt
<1>11. ReceiptsUngated'
  BY <1>2, <1>3, <1>5, <1>6 DEF ActsInv, ReceiptsUngated
<1>12. QED
  BY <1>7, <1>8, <1>9, <1>10, <1>11 DEF ActsInv

LEMMA EnqueueKeepsActsInv ==
  ASSUME RTypeOK, GateInv, ActsInv, REnqueue
  PROVE  ActsInv'
<1> DEFINE n == Len(approvals)
           r == [cycle |-> cycle, draw |-> attempt, kind |-> action.kind,
                 status |-> Pending]
<1>1. /\ approvals' = Append(approvals, r)
      /\ pc = "enqueue" /\ pc' = "record" /\ action' = action
      /\ UNCHANGED <<attempt, saved, ledger, receipts, delivered>>
  BY DEF REnqueue, Enqueue
<1>2. r.cycle = saved + 1 /\ r.draw = attempt /\ r.kind = action.kind
  BY <1>1 DEF RTypeOK
<1>3. action.kind \in HighImpactKinds
  BY <1>1 DEF GateInv
<1>4. approvals \in Seq(ApprovalRow)
  BY DEF RTypeOK
<1> HIDE DEF r
<1>5. /\ n \in Nat /\ DOMAIN approvals = 1..n /\ DOMAIN approvals' = 1..(n + 1)
      /\ \A i \in 1..n : approvals'[i] = approvals[i]
      /\ approvals'[n + 1] = r
  BY <1>1, <1>4, AppendedRow
<1> HIDE DEF n
<1>6. \A i \in 1..(n + 1) : i \in 1..n \/ i = n + 1
  BY <1>5
<1>7. IdsNeverRunAhead'
  BY <1>1, <1>2, <1>5, <1>6, RowNumbers DEF ActsInv, IdsNeverRunAhead
<1>8. EventsAreBacked'
  <2>1. \A j \in DOMAIN approvals : j \in DOMAIN approvals' /\ approvals'[j] = approvals[j]
    BY <1>5
  <2>2. QED
    BY <1>1, <2>1 DEF ActsInv, EventsAreBacked
<1>9. OneActPerAttempt'
  BY <1>1, <1>2, <1>5, <1>6 DEF ActsInv, OneActPerAttempt, RowsOfAttempt
<1>10. RowsOfAttempt'
  <2>1. n + 1 \in DOMAIN approvals'
    BY <1>5
  <2>2. Backed(NextEvent)'
    BY <1>1, <1>2, <1>3, <1>5, <2>1 DEF Backed, NextEvent
  <2>3. QED
    BY <1>1, <1>2, <1>5, <1>6, <2>2, RowNumbers DEF ActsInv, RowsOfAttempt
<1>11. ReceiptsUngated'
  BY <1>1 DEF ActsInv, ReceiptsUngated
<1>12. QED
  BY <1>7, <1>8, <1>9, <1>10, <1>11 DEF ActsInv

LEMMA RecordKeepsActsInv ==
  ASSUME RTypeOK, ActsInv, RRecord
  PROVE  ActsInv'
<1> DEFINE n == Len(ledger)
<1>1. /\ n \in Nat /\ DOMAIN ledger = 1..n /\ DOMAIN ledger' = 1..(n + 1)
      /\ \A i \in 1..n : ledger'[i] = ledger[i]
      /\ ledger'[n + 1] = NextEvent
      /\ saved' = saved /\ attempt' = attempt
      /\ pc = "record" /\ pc' = "checkpoint"
  BY ChargeAppends DEF NextEvent
<1>2. UNCHANGED <<receipts, approvals, delivered>>
  BY DEF RRecord
<1> HIDE DEF n
<1>3. \A i \in 1..(n + 1) : i \in 1..n \/ i = n + 1
  BY <1>1
<1>4. NextEvent.cycle = saved + 1
  BY DEF NextEvent
<1>5. IdsNeverRunAhead'
  BY <1>1, <1>2, <1>3, <1>4, RowNumbers DEF ActsInv, IdsNeverRunAhead
<1>6. EventsAreBacked'
  <2>1. \A i \in DOMAIN ledger' : Backed(ledger'[i])
    <3>1. \A i \in 1..n : Backed(ledger[i])
      BY <1>1 DEF ActsInv, EventsAreBacked, Backed
    <3>2. Backed(NextEvent)
      BY <1>1 DEF ActsInv, RowsOfAttempt
    <3>3. QED
      BY <1>1, <1>3, <3>1, <3>2
  <2>2. QED
    BY <1>2, <2>1 DEF EventsAreBacked, Backed
<1>7. QED
  BY <1>1, <1>2, <1>5, <1>6
  DEF ActsInv, OneActPerAttempt, RowsOfAttempt, ReceiptsUngated

LEMMA CheckpointKeepsActsInv ==
  ASSUME RTypeOK, LedgerInv, ActsInv, RCheckpoint
  PROVE  ActsInv'
<1>1. /\ saved' = saved + 1 /\ attempt' = attempt /\ pc' = "idle"
      /\ UNCHANGED rows
  BY DEF RTypeOK, RCheckpoint, Checkpoint
<1>2. IdsNeverRunAhead'
  BY <1>1, RowNumbers, LedgerRows DEF ActsInv, IdsNeverRunAhead, rows
<1>3. QED
  BY <1>1, <1>2 DEF ActsInv, EventsAreBacked, OneActPerAttempt, RowsOfAttempt,
                    ReceiptsUngated, rows

\* A report that is delivered, by a call that returns or by one that raises.
LEMMA DeliveryKeepsIds ==
  ASSUME RTypeOK, ActsInv, UNCHANGED <<saved, ledger, receipts, approvals>>,
         \/ delivered' = delivered
         \/ /\ pc = "send"
            /\ delivered' = Append(delivered, [cycle |-> cycle, draw |-> attempt])
  PROVE  IdsNeverRunAhead'
<1>1. CASE delivered' = delivered
  BY <1>1 DEF ActsInv, IdsNeverRunAhead
<1>2. CASE /\ pc = "send"
           /\ delivered' = Append(delivered, [cycle |-> cycle, draw |-> attempt])
  <2> DEFINE n == Len(delivered)
             r == [cycle |-> cycle, draw |-> attempt]
  <2>1. r.cycle = saved + 1
    BY <1>2 DEF RTypeOK
  <2>2. delivered \in Seq(Row) /\ delivered' = Append(delivered, r)
    BY <1>2 DEF RTypeOK
  <2> HIDE DEF r
  <2>3. /\ n \in Nat /\ DOMAIN delivered = 1..n /\ DOMAIN delivered' = 1..(n + 1)
        /\ \A i \in 1..n : delivered'[i] = delivered[i]
        /\ delivered'[n + 1] = r
    BY <2>2, AppendedRow
  <2> HIDE DEF n
  <2>4. \A i \in 1..(n + 1) : i \in 1..n \/ i = n + 1
    BY <2>3
  <2>5. QED
    BY <2>1, <2>3, <2>4, RowNumbers DEF ActsInv, IdsNeverRunAhead
<1>3. QED
  BY <1>1, <1>2

LEMMA SendKeepsActsInv ==
  ASSUME RTypeOK, ActsInv, RSend
  PROVE  ActsInv'
<1>1. /\ pc = "send" /\ pc' = "receipt"
      /\ UNCHANGED <<attempt, saved, ledger, receipts, approvals>>
      /\ \/ delivered' = delivered
         \/ delivered' = Append(delivered, [cycle |-> cycle, draw |-> attempt])
  BY DEF RSend, Send
<1>2. IdsNeverRunAhead'
  BY <1>1, DeliveryKeepsIds
<1>3. QED
  BY <1>1, <1>2 DEF ActsInv, EventsAreBacked, OneActPerAttempt, RowsOfAttempt,
                    ReceiptsUngated

LEMMA RaiseKeepsActsInv ==
  ASSUME RTypeOK, ActsInv, RRaise
  PROVE  ActsInv'
<1>1. /\ pc' \in {"idle", "down"}
      /\ UNCHANGED <<attempt, saved, ledger, receipts, approvals>>
      /\ \/ delivered' = delivered
         \/ /\ pc = "send"
            /\ delivered' = Append(delivered, [cycle |-> cycle, draw |-> attempt])
  BY DEF RRaise, Raise, FetchRaises, JudgeRaises, Abort
<1>2. IdsNeverRunAhead'
  BY <1>1, DeliveryKeepsIds
<1>3. QED
  BY <1>1, <1>2 DEF ActsInv, EventsAreBacked, OneActPerAttempt, RowsOfAttempt,
                    ReceiptsUngated

LEMMA DecideKeepsActsInv ==
  ASSUME RTypeOK, ActsInv, Decide
  PROVE  ActsInv'
<1>1. /\ DOMAIN approvals' = DOMAIN approvals
      /\ \A i \in DOMAIN approvals :
           /\ approvals'[i].cycle = approvals[i].cycle
           /\ approvals'[i].draw = approvals[i].draw
           /\ approvals'[i].kind = approvals[i].kind
  BY DecideKeepsTable DEF RTypeOK
<1>2. /\ pc' = pc /\ action' = action
      /\ UNCHANGED <<attempt, saved, ledger, receipts, delivered>>
  BY DEF Decide, vars, locals
<1>3. RowsOfAttempt'
  BY <1>1, <1>2 DEF ActsInv, RowsOfAttempt, Backed, NextEvent
<1>4. EventsAreBacked'
  BY <1>1, <1>2 DEF ActsInv, EventsAreBacked
<1>5. QED
  BY <1>1, <1>2, <1>3, <1>4
  DEF ActsInv, IdsNeverRunAhead, OneActPerAttempt, ReceiptsUngated

\* The steps that leave the tables alone stay before the record step, or leave
\* the cycle.
LEMMA QuietKeepsActsInv ==
  ASSUME LoopInv, ActsInv,
         RJudge \/ RMeter \/ RQuiet \/ RKill \/ RRestart \/ RArrive
  PROVE  ActsInv'
<1>1. /\ UNCHANGED <<attempt, saved, ledger, receipts, approvals, delivered>>
      /\ \/ pc' = pc /\ action' = action
         \/ pc' \in {"idle", "down"}
         \/ {pc, pc'} \cap {"idle", "down", "record", "checkpoint"} = {}
  <2>1. CASE RJudge \/ RMeter
    BY <2>1 DEF RJudge, RMeter, Judge, Meter, rows
  <2>2. CASE RQuiet /\ Select
    BY <2>2, SelectedStepGated DEF RQuiet, Select, rows
  <2>3. CASE RQuiet /\ ~Select
    BY <2>3 DEF RQuiet, Fetch, Integrate, OpenSnapshot, WriteSnapshot, Relate, rows
  <2>4. CASE RKill \/ RRestart
    BY <2>4 DEF RKill, Kill, RRestart, Restart, rows
  <2>5. CASE RArrive
    BY <2>5 DEF RArrive, Arrive, rows, locals
  <2>6. QED
    BY <2>1, <2>2, <2>3, <2>4, <2>5
<1>2. RowsOfAttempt'
  BY <1>1 DEF ActsInv, RowsOfAttempt, Backed, NextEvent
<1>3. QED
  BY <1>1, <1>2 DEF ActsInv, IdsNeverRunAhead, EventsAreBacked, OneActPerAttempt,
                    ReceiptsUngated

LEMMA ActsInvStep ==
  ASSUME LoopInv, RTypeOK, LedgerInv, GateInv, ActsInv, [RNext]_recordVars
  PROVE  ActsInv'
<1>1. CASE UNCHANGED recordVars
  BY <1>1 DEF recordVars, vars, locals, rows, ActsInv, IdsNeverRunAhead,
              EventsAreBacked, OneActPerAttempt, RowsOfAttempt, ReceiptsUngated,
              Backed, NextEvent
<1>2. QED
  BY <1>1, ObserveKeepsActsInv, ReceiptKeepsActsInv, EnqueueKeepsActsInv,
     RecordKeepsActsInv, CheckpointKeepsActsInv, SendKeepsActsInv,
     RaiseKeepsActsInv, DecideKeepsActsInv, QuietKeepsActsInv DEF RNext

-----------------------------------------------------------------------------
(* The theorems about the acts. *)

\* GateInv and ActsInv hold together throughout.
THEOREM ActsInvariant == RSpec => [](GateInv /\ ActsInv)
<1>1. RInit => GateInv /\ ActsInv
  BY InitGateInv, InitActsInv DEF RInit
<1>2. /\ LoopInv /\ RTypeOK /\ LedgerInv /\ GateInv /\ ActsInv
      /\ [RNext]_recordVars
      => GateInv' /\ ActsInv'
  BY GateInvStep, ActsInvStep, StepOfLoop
<1>3. QED
  BY <1>1, <1>2, LedgerInvariant, PTL DEF RSpec

\* After any crash or error, the number a new cycle takes is not behind any row.
THEOREM NumbersFit == RSpec => []IdsNeverRunAhead
<1>1. ActsInv => IdsNeverRunAhead
  BY DEF ActsInv
<1>2. QED
  BY <1>1, ActsInvariant, PTL

\* Every event of the ledger has a receipt, or the request of a gated action.
THEOREM EveryEventIsBacked == RSpec => []EventsAreBacked
<1>1. ActsInv => EventsAreBacked
  BY DEF ActsInv
<1>2. QED
  BY <1>1, ActsInvariant, PTL

\* No attempt acts twice, and none both acts and asks.
THEOREM ActsOncePerAttempt == RSpec => []OneActPerAttempt
<1>1. ActsInv => OneActPerAttempt
  BY DEF ActsInv
<1>2. QED
  BY <1>1, ActsInvariant, PTL

\* A kind the operator listed as high-impact is never done, whatever he decided
\* about it later, and leaves no trace in memory.
THEOREM NothingGatedIsDone == RSpec => []GateHolds
<1>1. GateInv /\ ActsInv => GateHolds
  BY DEF GateInv, ActsInv, ReceiptsUngated, GateHolds
<1>2. QED
  BY <1>1, ActsInvariant, PTL

\* Rows that are added always carry a number past the last closed cycle.
THEOREM NothingClosedReopens == RSpec => ClosedCyclesStayClosed
<1> DEFINE Later ==
      /\ saved' >= saved
      /\ \A i \in DOMAIN ledger' \ DOMAIN ledger : ledger'[i].cycle > saved
      /\ \A i \in DOMAIN receipts' \ DOMAIN receipts : receipts'[i].cycle > saved
<1>1. LoopInv /\ RTypeOK /\ [RNext]_recordVars => [Later]_recordVars
  <2> SUFFICES ASSUME LoopInv, RTypeOK, RNext
               PROVE  Later
    OBVIOUS
  <2>1. saved \in Nat
    BY DEF RTypeOK
  <2>2. CASE RRecord
    <3>1. receipts' = receipts
      BY <2>2 DEF RRecord
    <3>2. /\ Len(ledger) \in Nat
          /\ DOMAIN ledger' \ DOMAIN ledger = {Len(ledger) + 1}
          /\ ledger'[Len(ledger) + 1].cycle = saved + 1 /\ saved' = saved
      BY <2>2, ChargeAppends
    <3>3. QED
      BY <2>1, <3>1, <3>2
  <2>3. CASE RReceipt
    <3> DEFINE r == [cycle |-> cycle, draw |-> attempt, kind |-> action.kind,
                     status |-> result]
    <3>1. /\ receipts' = Append(receipts, r) /\ receipts \in Seq(ActRow)
          /\ ledger' = ledger /\ saved' = saved /\ r.cycle = saved + 1
      BY <2>3 DEF RReceipt, Receipt, RTypeOK
    <3> HIDE DEF r
    <3>2. /\ DOMAIN receipts' \ DOMAIN receipts = {Len(receipts) + 1}
          /\ receipts'[Len(receipts) + 1] = r
      BY <3>1, AppendedRow
    <3>3. QED
      BY <2>1, <3>1, <3>2
  <2>4. CASE RCheckpoint
    BY <2>1, <2>4 DEF RCheckpoint, Checkpoint, RTypeOK, rows
  <2>5. CASE ~RRecord /\ ~RReceipt /\ ~RCheckpoint
    <3>1. saved' = saved /\ ledger' = ledger /\ receipts' = receipts
      BY <2>5 DEF RNext, RObserve, RJudge, RMeter, REnqueue, RSend, RQuiet, RRaise,
                  RKill, RRestart, RArrive, Decide, rows
    <3>2. QED
      BY <2>1, <3>1
  <2>6. QED
    BY <2>2, <2>3, <2>4, <2>5
<1>2. QED
  BY <1>1, LedgerInvariant, PTL DEF RSpec, ClosedCyclesStayClosed

-----------------------------------------------------------------------------
(* The mail of the operator. *)

\* The verdicts before the line in hand are on record.
VerdictsInv ==
  /\ VerdictsComeInOrder
  /\ pc = "ingest" =>
       \A m \in 1..(at - 1) :
         Mail[m] = "verdict" => \E j \in DOMAIN verdicts : verdicts[j] = m

\* A report the outbox took is there before its receipt is written.
ReportsInv ==
  /\ ReportsLeaveARecord
  /\ pc = "receipt" /\ result = "reported" =>
       \E j \in DOMAIN delivered : delivered[j].draw = attempt

-----------------------------------------------------------------------------
(* Verdicts. *)

LEMMA JudgeKeepsVerdictsInv ==
  ASSUME LoopInv, RTypeOK, VerdictsInv, RJudge
  PROVE  VerdictsInv'
<1> DEFINE n == Len(verdicts)
<1>1. /\ pc = "ingest" /\ pc' = "ingest" /\ at' = at + 1 /\ at \in Nat \ {0}
      /\ verdicts' = IF Mail[at] = "verdict" THEN Append(verdicts, at) ELSE verdicts
  BY MailIsFinite DEF RJudge, Judge, LoopInv, TypeOK
<1>2. verdicts \in Seq(1..Len(Mail))
  BY DEF RTypeOK
<1>3. n \in Nat /\ DOMAIN verdicts = 1..n /\ \A i \in 1..n : verdicts[i] \in Nat
  BY <1>2, MailIsFinite, LenProperties, ElementOfSeq
<1>4. CASE Mail[at] = "verdict"
  <2>1. /\ DOMAIN verdicts' = 1..(n + 1)
        /\ \A i \in 1..n : verdicts'[i] = verdicts[i]
        /\ verdicts'[n + 1] = at
    BY <1>1, <1>2, <1>4, AppendedRow
  <2> HIDE DEF n
  <2>2. VerdictsComeInOrder'
    <3> SUFFICES ASSUME NEW i \in 1..(n + 1), NEW m \in 1..(verdicts'[i] - 1),
                        Mail[m] = "verdict"
                 PROVE  \E j \in 1..(i - 1) : verdicts'[j] = m
      BY <2>1 DEF VerdictsComeInOrder
    <3>1. CASE i \in 1..n
      <4>1. PICK j \in 1..(i - 1) : verdicts[j] = m
        BY <1>3, <2>1, <3>1 DEF VerdictsInv, VerdictsComeInOrder
      <4>2. j \in 1..n
        BY <1>3, <3>1
      <4>3. QED
        BY <2>1, <4>1, <4>2
    <3>2. CASE i = n + 1
      <4>1. PICK j \in 1..n : verdicts[j] = m
        BY <1>1, <1>3, <2>1, <3>2 DEF VerdictsInv
      <4>2. QED
        BY <1>3, <2>1, <3>2, <4>1
    <3>3. QED
      BY <1>3, <3>1, <3>2
  <2>3. \A m \in 1..at : Mail[m] = "verdict" =>
          \E j \in DOMAIN verdicts' : verdicts'[j] = m
    <3> SUFFICES ASSUME NEW m \in 1..at, Mail[m] = "verdict"
                 PROVE  \E j \in 1..(n + 1) : verdicts'[j] = m
      BY <2>1
    <3>1. CASE m = at
      BY <1>3, <2>1, <3>1
    <3>2. CASE m \in 1..(at - 1)
      BY <1>1, <1>3, <2>1, <3>2 DEF VerdictsInv
    <3>3. m = at \/ m \in 1..(at - 1)
      BY <1>1
    <3>4. QED
      BY <3>1, <3>2, <3>3
  <2>4. QED
    BY <1>1, <2>2, <2>3 DEF VerdictsInv
<1>5. CASE Mail[at] # "verdict"
  <2>1. verdicts' = verdicts
    BY <1>1, <1>5
  <2>2. \A m \in 1..at : m = at \/ m \in 1..(at - 1)
    BY <1>1
  <2>3. QED
    BY <1>1, <1>5, <2>1, <2>2 DEF VerdictsInv, VerdictsComeInOrder
<1>6. QED
  BY <1>4, <1>5

LEMMA VerdictsInvStep ==
  ASSUME LoopInv, RTypeOK, VerdictsInv, [RNext]_recordVars
  PROVE  VerdictsInv'
<1>1. CASE RJudge
  BY <1>1, JudgeKeepsVerdictsInv
<1>2. CASE RQuiet /\ Fetch
  <2>1. at' = 1 /\ verdicts' = verdicts
    BY <1>2 DEF RQuiet, Fetch, rows
  <2>2. QED
    BY <2>1 DEF VerdictsInv, VerdictsComeInOrder
<1>3. CASE RQuiet /\ Select
  <2>1. pc' # "ingest" /\ verdicts' = verdicts
    BY <1>3, SelectedStepGated DEF RQuiet, rows
  <2>2. QED
    BY <2>1 DEF VerdictsInv, VerdictsComeInOrder
<1>4. CASE RQuiet /\ ~Fetch /\ ~Select
  <2>1. pc' # "ingest" /\ verdicts' = verdicts
    BY <1>4 DEF RQuiet, Integrate, OpenSnapshot, WriteSnapshot, Relate, rows
  <2>2. QED
    BY <2>1 DEF VerdictsInv, VerdictsComeInOrder
<1>5. CASE \/ RObserve \/ RMeter \/ REnqueue \/ RSend \/ RReceipt \/ RRecord
           \/ RCheckpoint
  <2>1. pc' # "ingest" /\ verdicts' = verdicts
    BY <1>5 DEF RObserve, RMeter, REnqueue, RSend, RReceipt, RRecord, RCheckpoint,
                Observe, Meter, Enqueue, Send, Receipt, Record, Checkpoint, rows
  <2>2. QED
    BY <2>1 DEF VerdictsInv, VerdictsComeInOrder
<1>6. CASE RRaise \/ RKill \/ RRestart
  <2>1. pc' # "ingest" /\ verdicts' = verdicts
    BY <1>6 DEF RRaise, RKill, RRestart, Raise, FetchRaises,
              JudgeRaises, Abort, Kill, Restart, rows
  <2>2. QED
    BY <2>1 DEF VerdictsInv, VerdictsComeInOrder
<1>7. CASE RArrive \/ Decide \/ UNCHANGED recordVars
  <2>1. pc' = pc /\ at' = at /\ verdicts' = verdicts
    BY <1>7 DEF RArrive, Arrive, Decide, recordVars, vars, locals, rows
  <2>2. QED
    BY <2>1 DEF VerdictsInv, VerdictsComeInOrder
<1>8. QED
  BY <1>1, <1>2, <1>3, <1>4, <1>5, <1>6, <1>7 DEF RNext

\* A verdict is on record only behind every verdict that came before it, by
\* whichever cycles the inbox was read and wherever they were cut short.
THEOREM VerdictsInOrder == RSpec => []VerdictsComeInOrder
<1>1. RInit => VerdictsInv
  BY DEF RInit, Init, VerdictsInv, VerdictsComeInOrder
<1>2. VerdictsInv => VerdictsComeInOrder
  BY DEF VerdictsInv
<1>3. QED
  BY <1>1, <1>2, VerdictsInvStep, LedgerInvariant, PTL DEF RSpec

-----------------------------------------------------------------------------
(* Reports. *)

\* No step takes a report out of the outbox.
LEMMA ReportsStay ==
  ASSUME RTypeOK, RNext, NEW j \in DOMAIN delivered
  PROVE  j \in DOMAIN delivered' /\ delivered'[j] = delivered[j]
<1> DEFINE r == [cycle |-> cycle, draw |-> attempt]
<1>1. delivered' = delivered \/ delivered' = Append(delivered, r)
  BY DEF RNext, RObserve, RJudge, RMeter, REnqueue, RSend, RReceipt, RRecord,
         RCheckpoint, RQuiet, RRaise, RKill, RRestart, RArrive, Decide, rows
<1>2. delivered \in Seq(Row)
  BY DEF RTypeOK
<1> HIDE DEF r
<1>3. QED
  BY <1>1, <1>2, AppendedRow

LEMMA SendKeepsReportsInv ==
  ASSUME Channel = "local_outbox", RTypeOK, ReportsInv, RSend
  PROVE  ReportsInv'
<1> DEFINE r == [cycle |-> cycle, draw |-> attempt]
<1>1. /\ delivered' = Append(delivered, r) /\ r.draw = attempt
      /\ receipts' = receipts /\ attempt' = attempt
  BY DEF RSend
<1>2. delivered \in Seq(Row)
  BY DEF RTypeOK
<1> HIDE DEF r
<1>3. /\ DOMAIN delivered \subseteq DOMAIN delivered'
      /\ \A j \in DOMAIN delivered : delivered'[j] = delivered[j]
      /\ Len(delivered) + 1 \in DOMAIN delivered'
      /\ delivered'[Len(delivered) + 1].draw = attempt
  BY <1>1, <1>2, AppendedRow
<1>4. QED
  BY <1>1, <1>3 DEF ReportsInv, ReportsLeaveARecord

LEMMA ReceiptKeepsReportsInv ==
  ASSUME RTypeOK, ReportsInv, RReceipt
  PROVE  ReportsInv'
<1> DEFINE n == Len(receipts)
           r == [cycle |-> cycle, draw |-> attempt, kind |-> action.kind,
                 status |-> result]
<1>1. /\ receipts' = Append(receipts, r) /\ r.draw = attempt /\ r.status = result
      /\ delivered' = delivered /\ pc = "receipt" /\ pc' = "record"
  BY DEF RReceipt, Receipt
<1>2. receipts \in Seq(ActRow)
  BY DEF RTypeOK
<1> HIDE DEF r
<1>3. /\ n \in Nat /\ DOMAIN receipts = 1..n /\ DOMAIN receipts' = 1..(n + 1)
      /\ \A i \in 1..n : receipts'[i] = receipts[i]
      /\ receipts'[n + 1] = r
  BY <1>1, <1>2, AppendedRow
<1>4. \A i \in 1..(n + 1) : i \in 1..n \/ i = n + 1
  BY <1>3
<1>5. QED
  BY <1>1, <1>3, <1>4 DEF ReportsInv, ReportsLeaveARecord

LEMMA ReportsInvStep ==
  ASSUME Channel = "local_outbox", LoopInv, RTypeOK, ReportsInv, [RNext]_recordVars
  PROVE  ReportsInv'
<1>1. CASE RSend
  BY <1>1, SendKeepsReportsInv
<1>2. CASE RReceipt
  BY <1>2, ReceiptKeepsReportsInv
<1>3. CASE RNext /\ ~RSend /\ ~RReceipt
  <2>1. receipts' = receipts
    BY <1>3 DEF RNext, RObserve, RJudge, RMeter, REnqueue, RRecord, RCheckpoint,
                RQuiet, RRaise, RKill, RRestart, RArrive, Decide, rows
  <2>2. ReportsLeaveARecord'
    BY <1>3, <2>1, ReportsStay DEF ReportsInv, ReportsLeaveARecord
  <2>3. \/ pc' = pc /\ result' = result /\ attempt' = attempt
        \/ pc' # "receipt"
        \/ result' # "reported"
    <3>1. CASE RQuiet /\ Select
      BY <3>1, SelectedStepGated DEF RQuiet
    <3>2. CASE RQuiet /\ ~Select
      BY <3>2 DEF RQuiet, Fetch, Integrate, OpenSnapshot, WriteSnapshot, Relate
    <3>3. CASE RObserve \/ RJudge \/ RMeter \/ REnqueue \/ RRecord \/ RCheckpoint
      BY <3>3 DEF RObserve, RJudge, RMeter, REnqueue, RRecord, RCheckpoint, Observe,
                  Judge, Meter, Enqueue, Record, Checkpoint
    <3>4. CASE RRaise \/ RKill \/ RRestart
      BY <3>4 DEF RRaise, RKill, RRestart, Raise, FetchRaises,
                  JudgeRaises, Abort, Kill, Restart
    <3>5. CASE RArrive \/ Decide
      BY <3>5 DEF RArrive, Arrive, Decide, vars, locals
    <3>6. QED
      BY <1>3, <3>1, <3>2, <3>3, <3>4, <3>5 DEF RNext
  <2>4. QED
    BY <1>3, <2>2, <2>3, ReportsStay DEF ReportsInv
<1>4. CASE UNCHANGED recordVars
  BY <1>4 DEF recordVars, vars, locals, rows, ReportsInv, ReportsLeaveARecord
<1>5. QED
  BY <1>1, <1>2, <1>3, <1>4

\* With the local outbox, a receipt that says a report was made has the report
\* to show for it.
THEOREM ReportsAreThere ==
  ASSUME Channel = "local_outbox"
  PROVE  RSpec => []ReportsLeaveARecord
<1>1. RInit => ReportsInv
  BY DEF RInit, Init, ReportsInv, ReportsLeaveARecord
<1>2. LoopInv /\ RTypeOK /\ ReportsInv /\ [RNext]_recordVars => ReportsInv'
  BY ReportsInvStep
<1>3. ReportsInv => ReportsLeaveARecord
  BY DEF ReportsInv
<1>4. QED
  BY <1>1, <1>2, <1>3, LedgerInvariant, PTL DEF RSpec

\* The steps at which the attempt in hand may have reported already.
Settled == {"idle", "down", "receipt", "record", "checkpoint"}

\* Before and at its send, an attempt has sent nothing.
SendsInv ==
  /\ OneReportPerAttempt
  /\ \A j \in DOMAIN delivered : delivered[j].draw <= attempt
  /\ pc \notin Settled => \A j \in DOMAIN delivered : delivered[j].draw # attempt

LEMMA DeliveryKeepsSendsInv ==
  ASSUME RTypeOK, SendsInv, pc = "send", pc' \in Settled, attempt' = attempt,
         \/ delivered' = delivered
         \/ delivered' = Append(delivered, [cycle |-> cycle, draw |-> attempt])
  PROVE  SendsInv'
<1>1. CASE delivered' = delivered
  BY <1>1 DEF SendsInv, OneReportPerAttempt
<1>2. CASE delivered' = Append(delivered, [cycle |-> cycle, draw |-> attempt])
  <2> DEFINE n == Len(delivered)
             r == [cycle |-> cycle, draw |-> attempt]
  <2>1. delivered \in Seq(Row) /\ delivered' = Append(delivered, r) /\ r.draw = attempt
    BY <1>2 DEF RTypeOK
  <2> HIDE DEF r
  <2>2. /\ n \in Nat /\ DOMAIN delivered = 1..n /\ DOMAIN delivered' = 1..(n + 1)
        /\ \A i \in 1..n : delivered'[i] = delivered[i]
        /\ delivered'[n + 1].draw = attempt
    BY <2>1, AppendedRow
  <2>3. \A j \in 1..n : delivered[j].draw # attempt
    BY <2>2 DEF SendsInv, Settled
  <2> HIDE DEF n
  <2>4. \A i \in 1..(n + 1) : i \in 1..n \/ i = n + 1
    BY <2>2
  <2>5. OneReportPerAttempt'
    BY <2>2, <2>3, <2>4 DEF SendsInv, OneReportPerAttempt
  <2>6. attempt <= attempt
    BY DEF RTypeOK
  <2>7. QED
    BY <2>2, <2>4, <2>5, <2>6 DEF SendsInv
<1>3. QED
  BY <1>1, <1>2

LEMMA SendsInvStep ==
  ASSUME LoopInv, RTypeOK, SendsInv, [RNext]_recordVars
  PROVE  SendsInv'
<1>1. CASE RObserve
  <2>1. attempt' = attempt + 1 /\ delivered' = delivered /\ attempt \in Nat
    BY <1>1, RecordsAssumption DEF RObserve, rows, RTypeOK
  <2>2. \A j \in DOMAIN delivered : delivered[j].draw \in Nat
    <3>1. delivered \in Seq(Row)
      BY DEF RTypeOK
    <3>2. \A j \in DOMAIN delivered : delivered[j] \in Row
      BY <3>1, ElementOfSeq, LenProperties
    <3>3. QED
      BY <3>2 DEF Row
  <2>3. QED
    BY <2>1, <2>2 DEF SendsInv, OneReportPerAttempt
<1>2. CASE RSend \/ (RRaise /\ pc = "send")
  BY <1>2, DeliveryKeepsSendsInv
  DEF RSend, Send, RRaise, Raise, FetchRaises, JudgeRaises, Abort, Settled
<1>3. CASE \/ RJudge \/ RMeter \/ REnqueue \/ RReceipt \/ RRecord \/ RCheckpoint
           \/ RQuiet \/ (RRaise /\ pc # "send") \/ RKill \/ RRestart \/ RArrive
           \/ Decide \/ UNCHANGED recordVars
  <2>1. delivered' = delivered /\ attempt' = attempt
    BY <1>3 DEF RJudge, RMeter, REnqueue, RReceipt, RRecord, RCheckpoint, RQuiet,
                RRaise, RKill, RRestart, RArrive, Decide, recordVars, rows
  <2>2. pc \in Settled => pc' \in Settled
    <3>1. CASE RQuiet
      BY <3>1 DEF RQuiet, Fetch, Integrate, OpenSnapshot, WriteSnapshot, Select,
                  Relate, Settled
    <3>2. CASE RJudge \/ RMeter \/ REnqueue \/ RReceipt \/ RRecord \/ RCheckpoint
      BY <3>2 DEF RJudge, RMeter, REnqueue, RReceipt, RRecord, RCheckpoint, Judge,
                  Meter, Enqueue, Receipt, Record, Checkpoint, Settled
    <3>3. CASE RRaise \/ RKill \/ RRestart
      BY <3>3 DEF RRaise, RKill, RRestart, Raise, FetchRaises, JudgeRaises, Abort,
                  Kill, Restart, Settled
    <3>4. CASE RArrive \/ Decide \/ UNCHANGED recordVars
      BY <3>4 DEF RArrive, Arrive, Decide, recordVars, vars
    <3>5. QED
      BY <1>3, <3>1, <3>2, <3>3, <3>4
  <2>3. QED
    BY <2>1, <2>2 DEF SendsInv, OneReportPerAttempt
<1>4. QED
  BY <1>1, <1>2, <1>3 DEF RNext

\* The operator gets one report of an attempt at most, whatever the provider
\* answers or fails to answer.
THEOREM ReportsOnce == RSpec => []OneReportPerAttempt
<1>1. RInit => SendsInv
  BY DEF RInit, Init, SendsInv, OneReportPerAttempt, Settled
<1>2. SendsInv => OneReportPerAttempt
  BY DEF SendsInv
<1>3. QED
  BY <1>1, <1>2, SendsInvStep, LedgerInvariant, PTL DEF RSpec

-----------------------------------------------------------------------------
(* The memory between two checkpoints. *)

\* Unless a process found no snapshot since the last checkpoint, what was known
\* at that checkpoint is in the process, and in the file as far as the file
\* can be read.
SavedInv ==
  ~torn => /\ pc # "down" => Within(remembered, graph)
           /\ file.readable => Within(remembered, file.graph)

LEMMA SavedInvStep ==
  ASSUME LoopInv, SavedInv, [RNext]_recordVars
  PROVE  SavedInv'
<1>1. CASE RRestart
  <2>1. CASE file.readable
    BY <1>1, <2>1 DEF SavedInv, RRestart, Restart, Load, durable
  <2>2. CASE ~file.readable
    BY <1>1, <2>2 DEF SavedInv, RRestart
  <2>3. QED
    BY <2>1, <2>2
<1>2. CASE RCheckpoint
  <2>1. file' = Snapshot(graph) /\ graph' = graph /\ remembered' = graph
    BY <1>2 DEF RCheckpoint, Checkpoint, LoopInv, MemoryInv, RecordedMemoryIsSaved
  <2>2. QED
    BY <2>1 DEF SavedInv, Snapshot, Within
<1>3. CASE (RNext \/ UNCHANGED recordVars) /\ ~RRestart /\ ~RCheckpoint
  <2>1. torn' = torn /\ remembered' = remembered
    BY <1>3, Zenon
    DEF RNext, RObserve, RJudge, RMeter, REnqueue, RSend, RReceipt, RRecord, RQuiet,
        RRaise, RKill, RArrive, Decide, recordVars
  <2>2. ~Restart
    <3>1. CASE UNCHANGED vars
      BY <3>1 DEF Restart, vars
    <3>2. CASE ~UNCHANGED vars
      BY <1>3, <3>2, SelectedStep, LoopAssumption
      DEF RNext, RObserve, RJudge, RMeter, REnqueue, RSend, RReceipt, RRecord,
          RQuiet, RRaise, RKill, RArrive, Decide, recordVars, Restart, Observe,
          Judge, Meter, Enqueue, Send, Receipt, Record, Fetch, Integrate,
          OpenSnapshot, WriteSnapshot, Select, Relate, Raise, FetchRaises,
          JudgeRaises, Kill, Arrive, Steps
    <3>3. QED
      BY <3>1, <3>2
  <2>3. [Next]_vars
    BY <1>3, StepOfLoop
  <2>4. /\ \/ pc' = "down"
           \/ pc # "down" /\ Within(graph, graph')
        /\ \/ file' = file
           \/ ~file'.readable
           \/ pc # "down" /\ pc' # "down" /\ graph' = graph /\ file' = Snapshot(graph)
    BY <2>2, <2>3, MemoryOfStep
  <2>5. QED
    BY <2>1, <2>4, WithinIsTransitive DEF SavedInv, Snapshot
<1>4. QED
  BY <1>1, <1>2, <1>3

\* What a checkpoint was made on is only ever lost through a snapshot that was
\* left half written, for any sources, mail and failures.
THEOREM LostOnlyInASave == RSpec => []MemoryLostOnlyInASave
<1>1. RInit => SavedInv
  BY NoMemoryWithin DEF RInit, Init, SavedInv, Unreadable
<1>2. SavedInv => MemoryLostOnlyInASave
  BY DEF SavedInv, MemoryLostOnlyInASave
<1>3. QED
  BY <1>1, <1>2, SavedInvStep, LedgerInvariant, PTL DEF RSpec
=============================================================================

---------------------------- MODULE RecordsProofs ---------------------------
(***************************************************************************)
(* The invariants of LoopRecords and its refinement of StandingLedger, for *)
(* every configuration, every mail, every failure the model allows, and    *)
(* any number of attempts.                                                 *)
(***************************************************************************)
EXTENDS LoopRecords, LoopProofs

\* The ledger against the state row: cycles 1..saved are charged, the last
\* event belongs to the cycle about to be closed, and the reading of the
\* running attempt is charged only in its last step.
LedgerInv ==
  /\ LedgerCoversCheckpoint
  /\ LedgerIsAHistory
  /\ \A i \in DOMAIN ledger : /\ ledger[i].cycle <= saved + 1
                              /\ ledger[i].draw <= attempt
  /\ pc \notin {"idle", "down"} => attempt > 0
  /\ pc \notin {"idle", "down", "checkpoint"} =>
       \A i \in DOMAIN ledger : ledger[i].draw < attempt
  /\ pc = "checkpoint" =>
       ledger # <<>> /\ ledger[Len(ledger)].cycle = saved + 1

-----------------------------------------------------------------------------
(* A row is appended to a table. *)

LEMMA Appended ==
  ASSUME NEW S, NEW s \in Seq(S), NEW e \in S
  PROVE  /\ Append(s, e) \in Seq(S)
         /\ Len(s) \in Nat
         /\ DOMAIN s = 1..Len(s)
         /\ DOMAIN Append(s, e) = 1..(Len(s) + 1)
         /\ Len(Append(s, e)) = Len(s) + 1
         /\ Append(s, e) # <<>>
         /\ \A i \in 1..Len(s) : Append(s, e)[i] = s[i]
         /\ Append(s, e)[Len(s) + 1] = e
BY AppendProperties, LenProperties

\* Every step of the records is a step of the loop, or none.
LEMMA StepOfLoop == [RNext]_recordVars => [Next]_vars
<1>1. RQuiet => Next
  BY DEF RQuiet, Next, LoopStep, Ingest, Act
<1>2. RRaise => Next
  BY DEF RRaise, Next, LoopStep, Ingest
<1>3. RNext => Next \/ UNCHANGED vars
  BY <1>1, <1>2
  DEF RNext, RObserve, RJudge, RMeter, REnqueue, RSend, RReceipt, RRecord,
      RCheckpoint, RKill, RRestart, RArrive, Decide, Next, LoopStep, Ingest, Act
<1>4. QED
  BY <1>3 DEF recordVars

\* The cycle of LoopRecords is the cycle of Loop.
THEOREM RecordsImplementLoop == RSpec => Spec
<1>1. RInit => Init
  BY DEF RInit
<1>2. QED
  BY <1>1, StepOfLoop, PTL DEF RSpec, Spec

-----------------------------------------------------------------------------
(* Typing. *)

LEMMA InitTypeOK == RInit => RTypeOK
<1> SUFFICES ASSUME RInit PROVE RTypeOK
  OBVIOUS
<1>1. /\ attempt = 0 /\ saved = 0 /\ cycle = 0 /\ pc = "idle"
      /\ ledger = <<>> /\ receipts = <<>> /\ approvals = <<>>
      /\ verdicts = <<>> /\ delivered = <<>> /\ remembered = NoMemory
  BY DEF RInit, Init
<1>2. torn \in BOOLEAN
  BY Zenon DEF RInit
<1>3. QED
  BY <1>1, <1>2, RecordsAssumption, NoMemoryIsGraph, EmptySeq DEF RTypeOK

\* Where the cycle number is, at either end of each step.
LEMMA CycleNumber ==
  ASSUME LoopInv, RTypeOK, RNext
  PROVE  /\ saved' \in Nat
         /\ cycle' = IF pc' \in {"idle", "down"} THEN 0 ELSE saved' + 1
<1> USE DEF RTypeOK
<1>1. CASE RObserve
  BY <1>1 DEF RObserve, Observe
<1>2. CASE RJudge \/ RMeter \/ REnqueue \/ RSend \/ RReceipt \/ RRecord
  BY <1>2 DEF RJudge, RMeter, REnqueue, RSend, RReceipt, RRecord,
              Judge, Meter, Enqueue, Send, Receipt, Record
<1>3. CASE RCheckpoint
  BY <1>3 DEF RCheckpoint, Checkpoint, ForgetState
<1>4. CASE RQuiet
  <2>1. CASE Select
    BY <1>4, <2>1, SelectedStep DEF RQuiet, Select
  <2>2. CASE Fetch \/ Integrate \/ OpenSnapshot \/ WriteSnapshot \/ Relate
    BY <1>4, <2>2 DEF RQuiet, Fetch, Integrate, OpenSnapshot, WriteSnapshot, Relate
  <2>3. QED
    BY <1>4, <2>1, <2>2 DEF RQuiet
<1>5. CASE RRaise
  BY <1>5 DEF RRaise, Raise, FetchRaises, JudgeRaises, Abort, ForgetState
<1>6. CASE RKill
  BY <1>6 DEF RKill, Kill, ForgetState
<1>7. CASE RRestart
  BY <1>7 DEF RRestart, Restart
<1>8. CASE RArrive \/ Decide
  BY <1>8 DEF RArrive, Arrive, Decide, vars
<1>9. QED
  BY <1>1, <1>2, <1>3, <1>4, <1>5, <1>6, <1>7, <1>8 DEF RNext

LEMMA DecideKeepsTable ==
  ASSUME approvals \in Seq(ApprovalRow), Decide
  PROVE  /\ approvals' \in Seq(ApprovalRow)
         /\ DOMAIN approvals' = DOMAIN approvals
         /\ \A i \in DOMAIN approvals :
              /\ approvals'[i].cycle = approvals[i].cycle
              /\ approvals'[i].draw = approvals[i].draw
              /\ approvals'[i].kind = approvals[i].kind
<1>1. PICK i \in DOMAIN approvals, status \in {"APPROVED", "DENIED"} :
        approvals' = [approvals EXCEPT ![i].status = status]
  BY DEF Decide
<1>2. approvals[i] \in ApprovalRow /\ i \in 1..Len(approvals)
  BY LenProperties, ElementOfSeq
<1>3. [approvals[i] EXCEPT !.status = status] \in ApprovalRow
  BY <1>2 DEF ApprovalRow
<1>4. approvals' = [approvals EXCEPT ![i] = [approvals[i] EXCEPT !.status = status]]
  BY <1>1
<1>5. approvals' \in Seq(ApprovalRow)
  BY <1>2, <1>3, <1>4, ExceptSeq
<1>6. QED
  BY <1>2, <1>4, <1>5 DEF ApprovalRow

LEMMA TypeOKStep ==
  ASSUME LoopInv, RTypeOK, RNext
  PROVE  RTypeOK'
<1>1. /\ attempt \in Nat /\ saved \in Nat /\ cycle \in Nat /\ graph \in Graph
      /\ action.kind \in RegisteredKinds \cup {"none"} /\ result \in Results
  BY RecordsAssumption DEF RTypeOK, LoopInv, TypeOK
<1>2. /\ saved' \in Nat
      /\ cycle' = IF pc' \in {"idle", "down"} THEN 0 ELSE saved' + 1
  BY CycleNumber
<1>3. CASE RObserve
  BY <1>2, <1>3, RecordsAssumption DEF RTypeOK, RObserve, rows
<1>4. CASE RJudge
  <2>1. at \in 1..Len(Mail)
    BY <1>4, MailIsFinite DEF RJudge, Judge, LoopInv, TypeOK
  <2>2. verdicts' \in Seq(1..Len(Mail))
    BY <1>4, <2>1, Appended DEF RJudge, RTypeOK
  <2>3. QED
    BY <1>2, <1>4, <2>2 DEF RTypeOK, RJudge
<1>5. CASE RMeter
  BY <1>2, <1>5 DEF RTypeOK, RMeter, rows
<1>6. CASE REnqueue
  <2>1. [cycle |-> cycle, draw |-> attempt, kind |-> action.kind,
         status |-> Pending] \in ApprovalRow
    BY <1>1 DEF ApprovalRow
  <2>2. approvals' \in Seq(ApprovalRow)
    BY <1>6, <2>1, Appended DEF REnqueue, RTypeOK
  <2>3. QED
    BY <1>2, <1>6, <2>2 DEF RTypeOK, REnqueue
<1>7. ASSUME \/ delivered' = delivered
             \/ delivered' = Append(delivered, [cycle |-> cycle, draw |-> attempt])
      PROVE  delivered' \in Seq(Row)
  <2>1. [cycle |-> cycle, draw |-> attempt] \in Row
    BY <1>1 DEF Row
  <2>2. delivered \in Seq(Row)
    BY DEF RTypeOK
  <2>3. Append(delivered, [cycle |-> cycle, draw |-> attempt]) \in Seq(Row)
    BY <2>1, <2>2, AppendProperties
  <2>4. QED
    BY <1>7, <2>2, <2>3
<1>8. CASE RSend
  <2>1. delivered' \in Seq(Row)
    BY <1>7, <1>8 DEF RSend
  <2>2. QED
    BY <1>2, <1>8, <2>1 DEF RTypeOK, RSend
<1>9. CASE RReceipt
  <2>1. [cycle |-> cycle, draw |-> attempt, kind |-> action.kind,
         status |-> result] \in ActRow
    BY <1>1 DEF ActRow
  <2>2. receipts' \in Seq(ActRow)
    BY <1>9, <2>1, Appended DEF RReceipt, RTypeOK
  <2>3. QED
    BY <1>2, <1>9, <2>2 DEF RTypeOK, RReceipt
<1>10. CASE RRecord
  <2>1. [cycle |-> cycle, draw |-> attempt, note |-> action.kind] \in Event
    BY <1>1 DEF Event
  <2>2. ledger' \in Seq(Event)
    BY <1>10, <2>1, Appended DEF RRecord, RTypeOK
  <2>3. QED
    BY <1>2, <1>10, <2>2 DEF RTypeOK, RRecord
<1>11. CASE RCheckpoint
  BY <1>1, <1>2, <1>11 DEF RTypeOK, RCheckpoint, ForgetState, rows
<1>12. CASE RQuiet
  BY <1>2, <1>12 DEF RTypeOK, RQuiet, rows
<1>13. CASE RRaise
  <2>1. delivered' \in Seq(Row)
    BY <1>7, <1>13 DEF RRaise
  <2>2. QED
    BY <1>2, <1>13, <2>1 DEF RTypeOK, RRaise, ForgetState
<1>14. CASE RKill
  BY <1>2, <1>14 DEF RTypeOK, RKill, ForgetState, rows
<1>15. CASE RRestart
  BY <1>2, <1>15 DEF RTypeOK, RRestart, rows
<1>16. CASE RArrive
  BY <1>2, <1>16 DEF RTypeOK, RArrive, rows
<1>17. CASE Decide
  <2>1. approvals' \in Seq(ApprovalRow)
    BY <1>17, DecideKeepsTable DEF RTypeOK
  <2>2. QED
    BY <1>2, <1>17, <2>1 DEF RTypeOK, Decide, vars
<1>18. QED
  BY <1>3, <1>4, <1>5, <1>6, <1>8, <1>9, <1>10, <1>11, <1>12, <1>13, <1>14, <1>15,
     <1>16, <1>17 DEF RNext

-----------------------------------------------------------------------------
(* The ledger. *)

LEMMA InitLedgerInv == RInit => LedgerInv
BY DEF RInit, Init, LedgerInv, LedgerCoversCheckpoint, LedgerIsAHistory

LEMMA LedgerRows ==
  ASSUME RTypeOK, NEW i \in DOMAIN ledger
  PROVE  ledger[i].cycle \in Nat /\ ledger[i].draw \in Nat
<1>1. ledger \in Seq(Event)
  BY DEF RTypeOK
<1>2. i \in 1..Len(ledger)
  BY <1>1, LenProperties
<1>3. ledger[i] \in Event
  BY <1>1, <1>2, ElementOfSeq
<1>4. QED
  BY <1>3 DEF Event

\* The steps that leave the ledger, the state row and the attempt alone also
\* stay within the part of the cycle before the charge, or leave the cycle.
LEMMA OtherStepsOfLedger ==
  ASSUME LoopInv, RNext, ~RObserve, ~RRecord, ~RCheckpoint
  PROVE  /\ ledger' = ledger /\ saved' = saved /\ attempt' = attempt
         /\ \/ pc' = pc
            \/ pc' \in {"idle", "down"}
            \/ {pc, pc'} \cap {"idle", "down", "checkpoint"} = {}
<1>1. CASE RJudge \/ RMeter \/ REnqueue \/ RSend \/ RReceipt
  BY <1>1 DEF RJudge, RMeter, REnqueue, RSend, RReceipt, Judge, Meter, Enqueue,
              Send, Receipt, rows
<1>2. CASE RQuiet
  <2>1. CASE Select
    BY <1>2, <2>1, SelectedStep DEF RQuiet, Select, rows
  <2>2. CASE Fetch \/ Integrate \/ OpenSnapshot \/ WriteSnapshot \/ Relate
    BY <1>2, <2>2 DEF RQuiet, Fetch, Integrate, OpenSnapshot, WriteSnapshot,
                      Relate, rows
  <2>3. QED
    BY <1>2, <2>1, <2>2 DEF RQuiet
<1>3. CASE RRaise
  BY <1>3 DEF RRaise, Raise, FetchRaises, JudgeRaises, Abort
<1>4. CASE RKill \/ RRestart
  BY <1>4 DEF RKill, Kill, RRestart, Restart, rows
<1>5. CASE RArrive \/ Decide
  BY <1>5 DEF RArrive, Arrive, Decide, rows, vars
<1>6. QED
  BY <1>1, <1>2, <1>3, <1>4, <1>5 DEF RNext

LEMMA ObserveKeepsLedgerInv ==
  ASSUME RTypeOK, LedgerInv, RObserve
  PROVE  LedgerInv'
<1>1. /\ ledger' = ledger /\ saved' = saved /\ attempt' = attempt + 1
      /\ pc = "idle" /\ pc' = "fetch"
  BY DEF RObserve, Observe, rows
<1>2. attempt \in Nat
  BY RecordsAssumption DEF RTypeOK
<1>3. \A i \in DOMAIN ledger : ledger[i].draw \in Nat
  BY LedgerRows
<1>4. \A i \in DOMAIN ledger : ledger[i].draw < attempt'
  BY <1>1, <1>2, <1>3 DEF LedgerInv
<1>5. QED
  BY <1>1, <1>2, <1>3, <1>4
  DEF LedgerInv, LedgerCoversCheckpoint, LedgerIsAHistory

\* The charge goes to the open cycle and is later than all before it.
LEMMA ChargeAppends ==
  ASSUME RTypeOK, RRecord
  PROVE  LET n == Len(ledger) IN
         /\ n \in Nat /\ DOMAIN ledger = 1..n /\ DOMAIN ledger' = 1..(n + 1)
         /\ Len(ledger') = n + 1 /\ ledger' # <<>>
         /\ \A i \in 1..n : ledger'[i] = ledger[i]
         /\ ledger'[n + 1] = [cycle |-> saved + 1, draw |-> attempt,
                              note |-> action.kind]
         /\ saved' = saved /\ attempt' = attempt
         /\ pc = "record" /\ pc' = "checkpoint"
<1> DEFINE e == [cycle |-> cycle, draw |-> attempt, note |-> action.kind]
<1>1. /\ ledger' = Append(ledger, e)
      /\ saved' = saved /\ attempt' = attempt
      /\ pc = "record" /\ pc' = "checkpoint"
  BY DEF RRecord, Record
<1>2. cycle = saved + 1
  BY <1>1 DEF RTypeOK
<1>3. ledger \in Seq(Event) /\ ledger \in Seq(Event \cup {e}) /\ e \in Event \cup {e}
  BY SeqMonotonic DEF RTypeOK
<1>4. QED
  <2> HIDE DEF e
  <2>1. /\ Len(ledger) \in Nat
        /\ DOMAIN ledger = 1..Len(ledger)
        /\ DOMAIN Append(ledger, e) = 1..(Len(ledger) + 1)
        /\ Len(Append(ledger, e)) = Len(ledger) + 1
        /\ Append(ledger, e) # <<>>
        /\ \A i \in 1..Len(ledger) : Append(ledger, e)[i] = ledger[i]
        /\ Append(ledger, e)[Len(ledger) + 1] = e
    BY <1>3, Appended
  <2>2. e = [cycle |-> saved + 1, draw |-> attempt, note |-> action.kind]
    BY <1>2 DEF e
  <2>3. QED
    BY <1>1, <2>1, <2>2

LEMMA RecordKeepsLedgerInv ==
  ASSUME RTypeOK, LedgerInv, RRecord
  PROVE  LedgerInv'
<1> DEFINE n == Len(ledger)
<1>1. /\ n \in Nat /\ DOMAIN ledger = 1..n /\ DOMAIN ledger' = 1..(n + 1)
      /\ Len(ledger') = n + 1 /\ ledger' # <<>>
      /\ \A i \in 1..n : ledger'[i] = ledger[i]
      /\ ledger'[n + 1].cycle = saved + 1 /\ ledger'[n + 1].draw = attempt
      /\ saved' = saved /\ attempt' = attempt
      /\ pc = "record" /\ pc' = "checkpoint"
  BY ChargeAppends
<1>2. saved \in Nat /\ attempt \in Nat
  BY RecordsAssumption DEF RTypeOK
<1>3. \A i \in 1..n : /\ ledger[i].cycle <= saved + 1
                      /\ ledger[i].draw < attempt
                      /\ ledger[i].draw <= attempt
  BY <1>1 DEF LedgerInv
<1> HIDE DEF n
<1>4. LedgerCoversCheckpoint'
  <2> SUFFICES ASSUME NEW c \in 1..saved
               PROVE  \E i \in DOMAIN ledger' : ledger'[i].cycle = c
    BY <1>1 DEF LedgerCoversCheckpoint
  <2>1. PICK i \in DOMAIN ledger : ledger[i].cycle = c
    BY DEF LedgerInv, LedgerCoversCheckpoint
  <2>2. QED
    BY <1>1, <2>1
<1>5. LedgerIsAHistory'
  <2> SUFFICES ASSUME NEW i \in 1..(n + 1), NEW j \in 1..(n + 1), i < j
               PROVE  /\ ledger'[i].cycle <= ledger'[j].cycle
                      /\ ledger'[i].draw < ledger'[j].draw
    BY <1>1 DEF LedgerIsAHistory
  <2>1. i \in 1..n
    BY <1>1
  <2>2. CASE j \in 1..n
    BY <1>1, <2>1, <2>2 DEF LedgerInv, LedgerIsAHistory
  <2>3. CASE j = n + 1
    BY <1>1, <1>3, <2>1, <2>3
  <2>4. QED
    BY <1>1, <2>2, <2>3
<1>6. \A i \in DOMAIN ledger' : /\ ledger'[i].cycle <= saved' + 1
                               /\ ledger'[i].draw <= attempt'
  <2> SUFFICES ASSUME NEW i \in 1..(n + 1)
               PROVE  ledger'[i].cycle <= saved + 1 /\ ledger'[i].draw <= attempt
    BY <1>1
  <2>1. CASE i \in 1..n
    BY <1>1, <1>3, <2>1
  <2>2. CASE i = n + 1
    BY <1>1, <1>2, <2>2
  <2>3. QED
    BY <1>1, <2>1, <2>2
<1>7. attempt' > 0
  BY <1>1 DEF LedgerInv
<1>8. QED
  BY <1>1, <1>4, <1>5, <1>6, <1>7 DEF LedgerInv

LEMMA CheckpointKeepsLedgerInv ==
  ASSUME RTypeOK, LedgerInv, RCheckpoint
  PROVE  LedgerInv'
<1>1. /\ ledger' = ledger /\ attempt' = attempt /\ saved' = saved + 1
      /\ pc = "checkpoint" /\ pc' = "idle" /\ saved \in Nat
  BY DEF RTypeOK, RCheckpoint, Checkpoint, rows
<1>2. Len(ledger) \in DOMAIN ledger /\ ledger[Len(ledger)].cycle = saved + 1
  BY <1>1, LenProperties, EmptySeq DEF LedgerInv, RTypeOK
<1>3. LedgerCoversCheckpoint'
  BY <1>1, <1>2 DEF LedgerInv, LedgerCoversCheckpoint
<1>4. \A i \in DOMAIN ledger : ledger[i].cycle \in Nat /\ ledger[i].draw \in Nat
  BY LedgerRows
<1>5. QED
  BY <1>1, <1>3, <1>4 DEF LedgerInv, LedgerIsAHistory

LEMMA LedgerInvStep ==
  ASSUME LoopInv, RTypeOK, LedgerInv, RNext
  PROVE  LedgerInv'
<1>1. CASE RObserve
  BY <1>1, ObserveKeepsLedgerInv
<1>2. CASE RRecord
  BY <1>2, RecordKeepsLedgerInv
<1>3. CASE RCheckpoint
  BY <1>3, CheckpointKeepsLedgerInv
<1>4. CASE ~RObserve /\ ~RRecord /\ ~RCheckpoint
  BY <1>4, OtherStepsOfLedger
  DEF LedgerInv, LedgerCoversCheckpoint, LedgerIsAHistory
<1>5. QED
  BY <1>1, <1>2, <1>3, <1>4

-----------------------------------------------------------------------------
(* The theorems about the ledger. *)

LEMMA RStutter ==
  ASSUME UNCHANGED recordVars, RTypeOK, LedgerInv
  PROVE  RTypeOK' /\ LedgerInv'
BY DEF recordVars, vars, durable, locals, rows, RTypeOK, LedgerInv,
       LedgerCoversCheckpoint, LedgerIsAHistory

\* LoopInv, RTypeOK and LedgerInv hold together throughout.
THEOREM LedgerInvariant == RSpec => [](LoopInv /\ RTypeOK /\ LedgerInv)
<1>1. RInit => RTypeOK /\ LedgerInv
  BY InitTypeOK, InitLedgerInv
<1>2. LoopInv /\ RTypeOK /\ LedgerInv /\ [RNext]_recordVars => RTypeOK' /\ LedgerInv'
  BY TypeOKStep, LedgerInvStep, RStutter
<1>3. RSpec => []LoopInv
  BY RecordsImplementLoop, LoopInvariant, PTL
<1>4. QED
  BY <1>1, <1>2, <1>3, PTL DEF RSpec

\* Every table holds rows of its type, and a running cycle has the number
\* after the last one checkpointed.
THEOREM RecordsTypeCorrect == RSpec => []RTypeOK
BY LedgerInvariant, PTL

\* Every closed cycle has its cost on record.
THEOREM EveryClosedCycleIsCharged == RSpec => []LedgerCoversCheckpoint
<1>1. LedgerInv => LedgerCoversCheckpoint
  BY DEF LedgerInv
<1>2. QED
  BY <1>1, LedgerInvariant, PTL

\* Cycles are charged in order and no reading of the meter is charged twice.
THEOREM NothingIsChargedTwice == RSpec => []LedgerIsAHistory
<1>1. LedgerInv => LedgerIsAHistory
  BY DEF LedgerInv
<1>2. QED
  BY <1>1, LedgerInvariant, PTL

-----------------------------------------------------------------------------
(* The ledger and the state row implement the standing ledger. *)

\* The events the abstract ledger sees.
Charges == [i \in DOMAIN ledger |-> [cycle |-> ledger[i].cycle,
                                     draw |-> ledger[i].draw]]

LEMMA RecordIsCharge ==
  ASSUME RTypeOK, LedgerInv, RRecord
  PROVE  Standing!Charge
<1> DEFINE n == Len(ledger)
           e == [cycle |-> saved + 1, draw |-> attempt]
<1>1. /\ n \in Nat /\ DOMAIN ledger = 1..n /\ DOMAIN ledger' = 1..(n + 1)
      /\ \A i \in 1..n : ledger'[i] = ledger[i]
      /\ ledger'[n + 1].cycle = saved + 1 /\ ledger'[n + 1].draw = attempt
      /\ saved' = saved /\ pc = "record"
  BY ChargeAppends
<1>2. attempt \in 1..MaxAttempts
  BY <1>1, RecordsAssumption DEF RTypeOK, LedgerInv
<1>3. \A i \in DOMAIN Charges : Charges[i].draw < attempt
  BY <1>1 DEF LedgerInv, Charges
<1>4. Charges' = Append(Charges, e)
  <2> HIDE DEF n
  <2> DEFINE Pair == [cycle : Nat, draw : Nat]
  <2>1. Charges \in Seq(Pair) /\ Len(Charges) = n /\ e \in Pair
    <3>1. \A i \in 1..n : [cycle |-> ledger[i].cycle, draw |-> ledger[i].draw] \in Pair
      BY <1>1, LedgerRows
    <3>2. Charges = [i \in 1..n |-> [cycle |-> ledger[i].cycle,
                                     draw |-> ledger[i].draw]]
      BY <1>1 DEF Charges
    <3>3. e \in Pair
      BY <1>2, RecordsAssumption DEF RTypeOK
    <3> HIDE DEF Pair, e
    <3>4. Charges \in Seq(Pair)
      BY <1>1, <3>1, <3>2
    <3>5. QED
      BY <1>1, <3>2, <3>3, <3>4, LenProperties
  <2>2. /\ DOMAIN Append(Charges, e) = 1..(n + 1)
        /\ \A i \in 1..n : Append(Charges, e)[i] = Charges[i]
        /\ Append(Charges, e)[n + 1] = e
        /\ Append(Charges, e) \in Seq(Pair)
    <3> HIDE DEF Pair, e
    <3> QED BY <2>1, Appended
  <2>3. /\ Charges' = [i \in 1..(n + 1) |-> [cycle |-> ledger'[i].cycle,
                                             draw |-> ledger'[i].draw]]
    BY <1>1 DEF Charges
  <2>4. \A i \in 1..(n + 1) : Charges'[i] = Append(Charges, e)[i]
    <3>1. \A i \in 1..n : Charges'[i] = Charges[i]
      BY <1>1, <2>3 DEF Charges
    <3>2. Charges'[n + 1] = e
      BY <1>1, <2>3
    <3>3. QED
      BY <1>1, <2>2, <3>1, <3>2
  <2>5. Append(Charges, e) = [i \in 1..(n + 1) |-> Append(Charges, e)[i]]
    <3> HIDE DEF Pair, e
    <3>1. Append(Charges, e) = [i \in 1..Len(Append(Charges, e)) |->
                                 Append(Charges, e)[i]]
      BY <2>2, LenProperties
    <3>2. Len(Append(Charges, e)) = n + 1
      BY <2>1, Appended
    <3>3. QED
      BY <3>1, <3>2
  <2>6. QED
    BY <2>3, <2>4, <2>5
<1>5. QED
  BY <1>1, <1>2, <1>3, <1>4 DEF Standing!Charge, Charges

LEMMA CheckpointIsSettle ==
  ASSUME RTypeOK, LedgerInv, RCheckpoint
  PROVE  Standing!Settle
<1>1. /\ ledger' = ledger /\ saved' = saved + 1
      /\ ledger # <<>> /\ ledger[Len(ledger)].cycle = saved + 1
  BY DEF RTypeOK, LedgerInv, RCheckpoint, Checkpoint, rows
<1>2. /\ ledger \in Seq(Event) /\ Len(ledger) \in Nat \ {0}
      /\ DOMAIN ledger = 1..Len(ledger)
  BY <1>1, LenProperties, EmptySeq DEF RTypeOK
<1>3. /\ DOMAIN Charges = 1..Len(ledger)
      /\ Len(Charges) = Len(ledger)
      /\ Charges # <<>>
  BY <1>2, LenProperties DEF Charges
<1>4. Charges[Len(Charges)].cycle = saved + 1
  BY <1>1, <1>2, <1>3 DEF Charges
<1>5. QED
  BY <1>1, <1>3, <1>4 DEF Standing!Settle, Charges

LEMMA StepOfStandingLedger ==
  LoopInv /\ RTypeOK /\ LedgerInv /\ [RNext]_recordVars
    => [Standing!Next]_<<Charges, saved>>
<1> SUFFICES ASSUME LoopInv, RTypeOK, LedgerInv, [RNext]_recordVars
             PROVE  [Standing!Next]_<<Charges, saved>>
  OBVIOUS
<1>1. CASE RRecord
  BY <1>1, RecordIsCharge DEF Standing!Next
<1>2. CASE RCheckpoint
  BY <1>2, CheckpointIsSettle DEF Standing!Next
<1>3. CASE RObserve
  BY <1>3 DEF RObserve, rows, Charges
<1>4. CASE RNext /\ ~RObserve /\ ~RRecord /\ ~RCheckpoint
  BY <1>4, OtherStepsOfLedger DEF Charges
<1>5. CASE UNCHANGED recordVars
  BY <1>5 DEF recordVars, rows, Charges
<1>6. QED
  BY <1>1, <1>2, <1>3, <1>4, <1>5

\* Whatever is killed, raised or started again, the ledger and the state row
\* behave as the abstract ledger: the open cycle is charged with ever later
\* readings, and closed only behind a charge of its own.
THEOREM LedgerRefinement == RSpec => KeepsStandingLedger
<1>1. RInit => Standing!Init
  BY DEF RInit, Standing!Init
<1>2. RSpec => Standing!Init /\ [][Standing!Next]_<<Charges, saved>>
  BY <1>1, StepOfStandingLedger, LedgerInvariant, PTL DEF RSpec
<1>3. QED
  BY <1>2, PTL DEF KeepsStandingLedger, Standing!Spec, Charges
=============================================================================

----------------------------- MODULE SharedStore ----------------------------
(***************************************************************************)
(* Several processes on one database: the loop, and a cycle started by     *)
(* hand next to it with --once (main.py).  The lock of store/db.py is one  *)
(* per process, so nothing but SQLite's single transactions orders what    *)
(* they do, and what a process has read may be old when it writes.         *)
(*                                                                         *)
(* A cycle is cut down to its transactions on the state row, the receipts  *)
(* and the ledger (recover, look up the last receipt, append a receipt,    *)
(* append an event, checkpoint).  Receipts are chained by hash and looked  *)
(* up by time, so the clock of the host is part of the model, and it may   *)
(* be set back.  The hash of a row stands for the row: it is its position. *)
(***************************************************************************)
EXTENDS Integers, Sequences

CONSTANTS
  Process,        \* the processes on the database
  MaxCycles,      \* bound: the cycles that are started
  MaxTime         \* bound: the readings of the clock

ASSUME SharedAssumption ==
  /\ MaxCycles \in Nat
  /\ MaxTime \in Nat

VARIABLES
  now,            \* what the clock shows
  setBack,        \* history: it was set back
  started,        \* how many cycles were started
  saved,          \* cycle_id of the state row, 0 while there is no row
  receipts,       \* table receipts: previous row (0 is GENESIS) and created_at
  ledger,         \* table ledger: the cycle_id of each event
  pc,             \* the next transaction of each process
  cycle,          \* state.cycle_id of each running cycle
  prev,           \* the row each process took for the last receipt
  seen,           \* history: how many receipts there were then
  stamp           \* created_at of the receipt each process is making

clock == <<now, setBack>>
tables == <<saved, receipts, ledger>>
frame == <<cycle, prev, seen, stamp>>
sharedVars == <<clock, started, tables, pc, frame>>

Steps == {"idle", "act", "stamp", "append", "record", "checkpoint"}

Init ==
  /\ now = 0 /\ setBack = FALSE /\ started = 0
  /\ saved = 0 /\ receipts = <<>> /\ ledger = <<>>
  /\ pc = [p \in Process |-> "idle"]
  /\ cycle = [p \in Process |-> 0]
  /\ prev = [p \in Process |-> 0]
  /\ seen = [p \in Process |-> 0]
  /\ stamp = [p \in Process |-> 0]

Goes(p, from, to) == pc[p] = from /\ pc' = [pc EXCEPT ![p] = to]

\* The frame of the cycle is lost with it.
Leaves(p) ==
  /\ pc' = [pc EXCEPT ![p] = "idle"]
  /\ cycle' = [cycle EXCEPT ![p] = 0]
  /\ prev' = [prev EXCEPT ![p] = 0]
  /\ seen' = [seen EXCEPT ![p] = 0]
  /\ stamp' = [stamp EXCEPT ![p] = 0]

-----------------------------------------------------------------------------
(* One cycle of one process. *)

\* A slip: the number is one more than the events there are.
RecoverByCount(p) ==
  /\ started < MaxCycles
  /\ Goes(p, "idle", "act")
  /\ started' = started + 1
  /\ cycle' = [cycle EXCEPT ![p] = Len(ledger) + 1]
  /\ UNCHANGED <<clock, tables, prev, seen, stamp>>

\* recover_or_init, then cycle_id += 1.
Recover(p) ==
  /\ started < MaxCycles
  /\ Goes(p, "idle", "act")
  /\ started' = started + 1
  /\ cycle' = [cycle EXCEPT ![p] = saved + 1]
  /\ UNCHANGED <<clock, tables, prev, seen, stamp>>

\* The action was refused, or queued for approval: there is no receipt.
HeldBack(p) ==
  /\ Goes(p, "act", "record")
  /\ UNCHANGED <<clock, started, tables, frame>>

\* A slip: the oldest receipt is looked up.
OldestReceipts(rows) ==
  IF rows = <<>> THEN {0}
  ELSE {i \in DOMAIN rows : \A j \in DOMAIN rows : rows[i].at <= rows[j].at}

\* ORDER BY created_at DESC LIMIT 1; which of several rows with the latest
\* time comes first is left open.
LastReceipts(rows) ==
  IF rows = <<>> THEN {0}
  ELSE {i \in DOMAIN rows : \A j \in DOMAIN rows : rows[j].at <= rows[i].at}

\* last_receipt_hash
LookUp(p) ==
  /\ Goes(p, "act", "stamp")
  /\ \E i \in LastReceipts(receipts) : prev' = [prev EXCEPT ![p] = i]
  /\ seen' = [seen EXCEPT ![p] = Len(receipts)]
  /\ UNCHANGED <<clock, started, tables, cycle, stamp>>

\* A slip: the time is local time, which a change of offset may put back.
StampInLocalTime(p) ==
  /\ Goes(p, "stamp", "append")
  /\ \E t \in {now - 1, now} : t >= 0 /\ stamp' = [stamp EXCEPT ![p] = t]
  /\ UNCHANGED <<clock, started, tables, cycle, prev, seen>>

\* created_at is taken when the body is put together.
Stamp(p) ==
  /\ Goes(p, "stamp", "append")
  /\ stamp' = [stamp EXCEPT ![p] = now]
  /\ UNCHANGED <<clock, started, tables, cycle, prev, seen>>

\* A slip: the row is stored first and then taken for the last one.
AppendReceiptToItself(p) ==
  /\ Goes(p, "append", "record")
  /\ receipts' = Append(receipts, [prev |-> Len(receipts) + 1, at |-> stamp[p],
                                   seen |-> Len(receipts) + 1])
  /\ UNCHANGED <<clock, started, saved, ledger, frame>>

\* append_receipt
AppendReceipt(p) ==
  /\ Goes(p, "append", "record")
  /\ receipts' = Append(receipts, [prev |-> prev[p], at |-> stamp[p],
                                   seen |-> seen[p]])
  /\ UNCHANGED <<clock, started, saved, ledger, frame>>

\* append_ledger
AppendEvent(p) ==
  /\ Goes(p, "record", "checkpoint")
  /\ ledger' = Append(ledger, cycle[p])
  /\ UNCHANGED <<clock, started, saved, receipts, frame>>

\* save_state
Checkpoint(p) ==
  /\ pc[p] = "checkpoint"
  /\ saved' = cycle[p]
  /\ Leaves(p)
  /\ UNCHANGED <<clock, started, receipts, ledger>>

\* The process is killed, or a call raises: the database stays locked longer
\* than sqlite3 waits, the disk is full.
CutShort(p) ==
  /\ pc[p] # "idle"
  /\ Leaves(p)
  /\ UNCHANGED <<clock, started, tables>>

-----------------------------------------------------------------------------
(* The clock of the host. *)

Tick ==
  /\ now < MaxTime
  /\ now' = now + 1
  /\ UNCHANGED <<setBack, started, tables, pc, frame>>

SetBack ==
  /\ \E t \in 0..MaxTime : t < now /\ now' = t
  /\ setBack' = TRUE
  /\ UNCHANGED <<started, tables, pc, frame>>

Step(p) ==
  \/ Recover(p) \/ HeldBack(p) \/ LookUp(p) \/ Stamp(p) \/ AppendReceipt(p)
  \/ AppendEvent(p) \/ Checkpoint(p) \/ CutShort(p)

Next == (\E p \in Process : Step(p)) \/ Tick \/ SetBack

Spec == Init /\ [][Next]_sharedVars

-----------------------------------------------------------------------------
(* Properties. *)

Receipt == [prev : Nat, at : 0..MaxTime, seen : Nat]

\* Every variable stays in its range, and a receipt points at rows that were
\* there when it was made, so every chain ends at GENESIS.
SharedTypeOK ==
  /\ now \in 0..MaxTime /\ setBack \in BOOLEAN
  /\ started \in 0..MaxCycles /\ saved \in Nat
  /\ receipts \in Seq(Receipt)
  /\ ledger \in Seq(Nat)
  /\ pc \in [Process -> Steps]
  /\ cycle \in [Process -> Nat]
  /\ prev \in [Process -> Nat] /\ seen \in [Process -> Nat]
  /\ stamp \in [Process -> 0..MaxTime]
  /\ \A i \in DOMAIN receipts :
       receipts[i].prev <= receipts[i].seen /\ receipts[i].seen < i

\* "Each receipt chains to the previous one" (receipts.py), as far as it goes:
\* two receipts name the same previous one only if the later was begun
\* before the earlier was stored, or the earlier is stamped no later than the
\* row it follows, because the clock was set back or did not move.
ForksHaveACause ==
  \A i, j \in DOMAIN receipts :
    (i < j /\ receipts[i].prev = receipts[j].prev) =>
      \/ receipts[j].seen < i
      \/ /\ receipts[i].prev # 0
         /\ receipts[i].at <= receipts[receipts[i].prev].at

\* As long as the clock is not set back, created_at never decreases along a
\* chain, whatever the processes do in between: to read the receipts by time
\* is to meet each after the one it vouches for.
TimeFollowsTheChain ==
  ~setBack => \A i \in DOMAIN receipts :
    receipts[i].prev # 0 => receipts[receipts[i].prev].at <= receipts[i].at

\* A checkpoint of a slow process may set the number back; yet no number is
\* skipped: an event of cycle n has an event of every earlier cycle before
\* it, and the number in the state row has its event.
NumbersHaveNoGaps ==
  /\ \A i \in DOMAIN ledger : \A n \in 1..(ledger[i] - 1) :
       \E j \in 1..(i - 1) : ledger[j] = n
  /\ saved # 0 => \E i \in DOMAIN ledger : ledger[i] = saved
=============================================================================

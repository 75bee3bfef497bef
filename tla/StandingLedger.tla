--------------------------- MODULE StandingLedger ---------------------------
(***************************************************************************)
(* What ledger/ledger.py and kernel/continuity.py promise together, with   *)
(* no process, database or failure in sight: a history of events, each of  *)
(* which charges one reading of the meter to the cycle that is open, and a *)
(* count of the cycles that are closed.  A cycle is closed only when it    *)
(* has been charged, and a closed cycle is never charged again.            *)
(***************************************************************************)
EXTENDS Integers, Sequences

CONSTANT Draw        \* the readings of the meter, in the order it takes them

VARIABLES
  events,    \* the ledger: a sequence of charges, append only
  closed     \* the number of the last closed cycle, 0 before the first

Init == events = <<>> /\ closed = 0

\* A reading is charged to the open cycle, later than all charged before it.
Charge ==
  \E d \in Draw :
    /\ \A i \in DOMAIN events : events[i].draw < d
    /\ events' = Append(events, [cycle |-> closed + 1, draw |-> d])
    /\ closed' = closed

\* The open cycle is closed, having been charged by the last event.
Settle ==
  /\ events # <<>>
  /\ events[Len(events)].cycle = closed + 1
  /\ closed' = closed + 1
  /\ events' = events

Next == Charge \/ Settle

Spec == Init /\ [][Next]_<<events, closed>>
=============================================================================

------------------------------ MODULE Metering ------------------------------
(***************************************************************************)
(* The consumption meter (ledger/consumption.py) against what the process  *)
(* really draws: readings that cover the time since the one before, taken  *)
(* by a wall clock that may be stepped, with a first CPU load that is      *)
(* always zero and later ones in tenths of a percent, with the memory held *)
(* at the reading taken for that of the whole interval, rounded to the     *)
(* digits that are kept, and lost when the cycle that took them is cut     *)
(* short or the process is killed.                                         *)
(*                                                                         *)
(* What is really drawn is what the meter's own power model gives for the  *)
(* load and the memory of each tick of true time; that 28 watts and 0.3    *)
(* watts per gigabyte are themselves guesses is not the question here.     *)
(* Energy is counted in units far below the last digit kept.               *)
(***************************************************************************)
EXTENDS Integers

CONSTANTS
  MaxLoad,        \* the most a tick of CPU load draws
  LoadStep,       \* what a tick draws at a load of a tenth of a percent
  MinMemory,      \* what a tick draws for the least memory a process holds,
  MaxMemory,      \* and for the most
  FlatDraw,       \* what a tick is assumed to draw without psutil
  Digit,          \* the last of the nine digits kept, in units
  MaxTicks,       \* bound: ticks of true time in which the process runs
  MaxReadings,    \* bound: readings that are taken
  MaxStep         \* bound: how far the clock is off, either way

ASSUME MeteringAssumption ==
  /\ MaxLoad \in Nat /\ LoadStep \in Nat \ {0}
  /\ MinMemory \in Nat /\ MaxMemory \in Nat /\ MinMemory <= MaxMemory
  /\ FlatDraw \in Nat /\ Digit \in Nat \ {0}
  /\ MaxTicks \in Nat /\ MaxReadings \in Nat /\ MaxStep \in Nat

VARIABLES
  psutil,         \* psutil is installed
  pc,             \* "down", "idle", or "metered": the cycle holds a reading
  first,          \* cpu_percent was not called before in this process
  since,          \* true time since the last reading
  busy,           \* CPU draw since the last reading
  held,           \* memory draw since the last reading
  rss,            \* what a tick draws for the memory held now
  shift,          \* how far the wall clock was stepped since then
  reading,        \* total_energy_kwh in the cycle's frame
  recorded,       \* the sum of the ledger's total_energy_kwh
  ticks,          \* history: true time so far
  spent,          \* history: what was really drawn
  unseen,         \* history: what was drawn and no reading covers
  dropped,        \* history: readings that reached no ledger
  readings,       \* history: how many readings were taken
  stepped         \* history: directions in which the clock was stepped

gauge == <<first, since, busy, held, shift>>
books == <<spent, unseen, dropped, readings>>
meterVars == <<psutil, pc, gauge, rss, reading, recorded, ticks, books, stepped>>

FreshGauge == since' = 0 /\ busy' = 0 /\ held' = 0 /\ shift' = 0

Memory == MinMemory..MaxMemory

Init ==
  /\ psutil \in BOOLEAN
  /\ pc = "down" /\ rss \in Memory
  /\ first = TRUE /\ since = 0 /\ busy = 0 /\ held = 0 /\ shift = 0
  /\ reading = 0 /\ recorded = 0 /\ ticks = 0
  /\ spent = 0 /\ unseen = 0 /\ dropped = 0 /\ readings = 0
  /\ stepped = {}

-----------------------------------------------------------------------------
(* One reading. *)

\* Slips: a negative interval is turned round, or passes.
WallByAbs(elapsed) == IF elapsed < 0 THEN -elapsed ELSE elapsed

WallUnclamped(elapsed) == elapsed

\* max(0.0, now - self._last_wall)
Wall(elapsed) == IF elapsed < 0 THEN 0 ELSE elapsed

\* cpu_percent, as the draw of a tick at that load: of an interval of true
\* time that drew used units, rounded to a tenth of a percent, of two as near
\* to either; 0.0 when it is called first, or at once again.
CpuPercent(used, interval, isFirst) ==
  IF isFirst \/ interval = 0 THEN {0}
  ELSE {load \in 0..(used + LoadStep) :
          /\ load % LoadStep = 0
          /\ 2 * (load * interval - used)
               \in (-(LoadStep * interval))..(LoadStep * interval)}

\* round(_, 9): to the nearest multiple of Digit; of two as near, to either.
Rounded(total) ==
  {r \in (total - Digit)..(total + Digit) :
     2 * (r - total) \in (-Digit)..Digit /\ r % Digit = 0}

\* What the meter may take the draw for: load and the memory held now, both
\* over all of the interval, or without psutil a flat assumption.
Estimates ==
  LET wall == Wall(since + shift) IN
    IF psutil THEN {load * wall + rss * wall : load \in CpuPercent(busy, since, first)}
              ELSE {FlatDraw * wall}

\* A slip: the time of the last reading is kept.
MeterKeepingLast ==
  /\ pc = "idle" /\ readings < MaxReadings
  /\ pc' = "metered"
  /\ \E total \in Estimates : reading' \in Rounded(total)
  /\ unseen' = unseen + IF first THEN busy ELSE 0
  /\ readings' = readings + 1
  /\ first' = FALSE
  /\ UNCHANGED <<psutil, since, busy, held, shift, rss, recorded, ticks, spent,
                 dropped, stepped>>

\* meter_cycle
MeterCycle ==
  /\ pc = "idle" /\ readings < MaxReadings
  /\ pc' = "metered"
  /\ \E total \in Estimates : reading' \in Rounded(total)
  /\ unseen' = unseen + IF first THEN busy ELSE 0
  /\ readings' = readings + 1
  /\ first' = FALSE
  /\ FreshGauge
  /\ UNCHANGED <<psutil, rss, recorded, ticks, spent, dropped, stepped>>

\* ledger.append
Charge ==
  /\ pc = "metered"
  /\ pc' = "idle"
  /\ recorded' = recorded + reading
  /\ reading' = 0
  /\ UNCHANGED <<psutil, gauge, rss, ticks, books, stepped>>

-----------------------------------------------------------------------------
(* The process and its clock. *)

\* A call between the reading and the append raises, and the scheduler goes on.
CutShort ==
  /\ pc = "metered"
  /\ pc' = "idle"
  /\ dropped' = dropped + reading
  /\ reading' = 0
  /\ UNCHANGED <<psutil, gauge, rss, recorded, ticks, spent, unseen, readings,
                 stepped>>

\* The process ends: killed, by an exception, or because it ran --once.
End ==
  /\ pc # "down"
  /\ pc' = "down"
  /\ unseen' = unseen + busy + held
  /\ dropped' = dropped + reading
  /\ reading' = 0
  /\ first' = TRUE /\ FreshGauge
  /\ UNCHANGED <<psutil, rss, recorded, ticks, spent, readings, stepped>>

\* ConsumptionMeter.__init__
Start ==
  /\ pc = "down"
  /\ pc' = "idle"
  /\ rss' \in Memory
  /\ UNCHANGED <<psutil, gauge, reading, recorded, ticks, books, stepped>>

Tick ==
  /\ pc # "down" /\ ticks < MaxTicks
  /\ ticks' = ticks + 1
  /\ since' = since + 1
  /\ held' = held + rss
  /\ \E load \in 0..MaxLoad :
       busy' = busy + load /\ spent' = spent + load + rss
  /\ UNCHANGED <<psutil, pc, first, shift, rss, reading, recorded, unseen, dropped,
                 readings, stepped>>

\* The process takes more memory, or gives some back.
Resize ==
  /\ pc # "down"
  /\ rss' \in Memory \ {rss}
  /\ UNCHANGED <<psutil, pc, gauge, reading, recorded, ticks, books, stepped>>

StepClock ==
  /\ pc # "down"
  /\ \E s \in (-MaxStep)..MaxStep :
       /\ s # shift
       /\ shift' = s
       /\ stepped' = stepped \cup {IF s < shift THEN "back" ELSE "ahead"}
  /\ UNCHANGED <<psutil, pc, first, since, busy, held, rss, reading, recorded, ticks,
                 books>>

Next ==
  MeterCycle \/ Charge \/ CutShort \/ End \/ Start \/ Tick \/ Resize \/ StepClock

Spec == Init /\ [][Next]_meterVars

-----------------------------------------------------------------------------
(* Properties. *)

\* Every variable stays in its range; a reading and the sums never go below
\* zero, wherever the clock goes.
MeterTypeOK ==
  /\ psutil \in BOOLEAN /\ first \in BOOLEAN
  /\ pc \in {"down", "idle", "metered"}
  /\ since \in Nat /\ busy \in Nat /\ held \in Nat /\ rss \in Memory
  /\ shift \in (-MaxStep)..MaxStep
  /\ reading \in Nat /\ recorded \in Nat
  /\ ticks \in 0..MaxTicks
  /\ spent \in Nat /\ unseen \in Nat /\ dropped \in Nat
  /\ readings \in 0..MaxReadings
  /\ stepped \subseteq {"back", "ahead"}

\* The precision of the books, twice over: half a digit for each reading, and
\* for each tick that was read or lost half a step of load and the most by
\* which the memory at a reading can differ from that held before.
Blur == LoadStep + 2 * (MaxMemory - MinMemory)

Slack == readings * Digit + (ticks - since) * Blur

\* "The ledger never overstates its own precision" (consumption.py): unless
\* the clock is set ahead, the ledger never charges more than was drawn by
\* more than its precision.  That precision is not the nine digits it keeps:
\* a load is only known to a tenth of a percent, and memory only at the end.
CostIsNotOverstated ==
  (psutil /\ "ahead" \notin stepped) => 2 * recorded <= 2 * spent + Slack

\* "Consumption metered for real" (README): under a clock that is not
\* stepped, what was drawn is, to the precision of the books, in the ledger,
\* in a reading the cycle still holds or dropped, yet to be read, or unseen:
\* the CPU draw before the first reading of a process, and what came after
\* its last.  No interval is counted twice, and none is lost.
DrawIsAccountedFor ==
  (psutil /\ stepped = {}) =>
    2 * (spent - (recorded + reading + dropped + busy + held + unseen))
      \in (-Slack)..Slack
=============================================================================

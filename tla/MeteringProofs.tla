--------------------------- MODULE MeteringProofs ---------------------------
(***************************************************************************)
(* The books of Metering balance, to their precision, for every load and   *)
(* every course of memory and clock, whatever the digit and the step of    *)
(* load are, and for any number of readings.                               *)
(***************************************************************************)
EXTENDS Metering, TLAPS

\* Multiplying by a natural number keeps an order.
LEMMA Scaling ==
  ASSUME NEW x \in Int, NEW y \in Int, NEW n \in Nat, x <= y
  PROVE  x * n <= y * n
BY SMT

\* A bound that is passed on, and one that grows.
LEMMA BoundsAdd ==
  ASSUME NEW t \in Nat, NEW g \in Nat, NEW e \in Nat, NEW r \in Nat, NEW s \in Nat,
         NEW b \in Nat, NEW w \in Nat, NEW d \in Nat,
         2 * (t + g) <= 2 * s + b, 2 * (e - g) <= w, 2 * (r - e) <= d
  PROVE  2 * (t + r) <= 2 * s + (b + (d + w))
BY SMT

LEMMA BoundsGrow ==
  ASSUME NEW b \in Nat, NEW c \in Nat, b <= c
  PROVE  /\ \A x \in Int : x \in (-b)..b => x \in (-c)..c
         /\ \A x \in Int, y \in Int, z \in Int :
              x <= z + b /\ y <= x => y <= z + c
BY SMT

LEMMA BlurIsNat == Blur \in Nat /\ LoadStep \in Nat /\ MaxMemory - MinMemory \in Nat
BY MeteringAssumption DEF Blur

LEMMA Rounding ==
  ASSUME NEW t \in Nat, NEW r \in Rounded(t)
  PROVE  r \in Nat /\ 2 * (r - t) <= Digit /\ -Digit <= 2 * (r - t)
<1>1. /\ r \in Int /\ r % Digit = 0 /\ 2 * (r - t) \in (-Digit)..Digit
      /\ Digit \in Nat \ {0}
  BY MeteringAssumption DEF Rounded
<1>2. r >= 0
  <2>1. SUFFICES ASSUME r < 0 PROVE FALSE
    BY <1>1
  <2>2. 2 * r >= -Digit /\ 0 < r + Digit /\ r + Digit < Digit
    BY <1>1, <2>1
  <2>3. r % Digit = r + Digit
    BY <1>1, <2>1, <2>2, SMT
  <2>4. QED
    BY <1>1, <2>2, <2>3
<1>3. QED
  BY <1>1, <1>2

\* What the precision of the books is after one reading more, and that it is
\* never lost again.
LEMMA SlackGrows ==
  ASSUME NEW n \in Nat, NEW t \in Nat, NEW s \in Nat, s <= t
  PROVE  /\ n * Digit + (t - s) * Blur \in Nat
         /\ (n + 1) * Digit + (t - 0) * Blur
              = (n * Digit + (t - s) * Blur) + (Digit + s * Blur)
         /\ n * Digit + (t - s) * Blur <= n * Digit + (t - 0) * Blur
         /\ s * Blur \in Nat /\ (t + 1) - (s + 1) = t - s
<1> DEFINE d == Digit  m == Blur
<1>1. d \in Nat /\ m \in Nat
  BY BlurIsNat, MeteringAssumption
<1> HIDE DEF d, m
<1>2. /\ n * d \in Nat /\ s * m \in Nat /\ (t - s) * m \in Nat
      /\ (n + 1) * d = n * d + d
      /\ (t - 0) * m = (t - s) * m + s * m
  BY <1>1, SMT
<1>3. /\ n * d + (t - s) * m \in Nat
      /\ (n + 1) * d + (t - 0) * m = (n * d + (t - s) * m) + (d + s * m)
      /\ n * d + (t - s) * m <= n * d + (t - 0) * m
  BY <1>1, <1>2
<1>4. QED
  BY <1>2, <1>3 DEF d, m

-----------------------------------------------------------------------------
(* The inductive invariant. *)

\* A cycle that is over holds no reading; a clock that was not set ahead is
\* not ahead, one that was not stepped is not off; CPU draw takes time, and
\* memory drew between the least and the most in each tick.
GaugeInv ==
  /\ MeterTypeOK
  /\ pc # "metered" => reading = 0
  /\ since <= ticks
  /\ since = 0 => busy = 0
  /\ MinMemory * since <= held /\ held <= MaxMemory * since
  /\ "ahead" \notin stepped => shift <= 0
  /\ stepped = {} => shift = 0

Kept == recorded + reading + dropped + busy + held

\* CostIsNotOverstated, with all that may still come to be charged.
CostInv ==
  (psutil /\ "ahead" \notin stepped) => 2 * Kept <= 2 * spent + Slack

MeterInv == GaugeInv /\ CostInv /\ DrawIsAccountedFor

\* What cpu_percent makes of the draw it covers.
LEMMA LoadFacts ==
  ASSUME GaugeInv, NEW load \in CpuPercent(busy, since, first)
  PROVE  /\ load \in Nat
         /\ 2 * (load * since - IF first THEN 0 ELSE busy)
              \in (-(LoadStep * since))..(LoadStep * since)
<1>1. since \in Nat /\ busy \in Nat /\ LoadStep \in Nat
  BY MeteringAssumption DEF GaugeInv, MeterTypeOK
<1>2. LoadStep * since \in Nat
  BY <1>1, SMT
<1>3. CASE first
  <2>1. load = 0
    BY <1>3 DEF CpuPercent
  <2>2. load * since = 0
    BY <1>1, <2>1, SMT
  <2>3. QED
    BY <1>2, <1>3, <2>1, <2>2
<1>4. CASE ~first /\ since = 0
  <2>1. load = 0 /\ busy = 0
    BY <1>4 DEF CpuPercent, GaugeInv
  <2>2. load * since = 0
    BY <1>1, <2>1, SMT
  <2>3. QED
    BY <1>2, <1>4, <2>1, <2>2
<1>5. CASE ~first /\ since # 0
  BY <1>1, <1>5 DEF CpuPercent
<1>6. QED
  BY <1>3, <1>4, <1>5

\* What the memory at the reading says of that of the interval.
LEMMA MemoryFacts ==
  ASSUME GaugeInv
  PROVE  /\ rss * since \in Nat
         /\ rss * since - held \in
              (-((MaxMemory - MinMemory) * since))..((MaxMemory - MinMemory) * since)
<1>1. /\ since \in Nat /\ held \in Nat /\ rss \in Nat
      /\ MinMemory \in Nat /\ MaxMemory \in Nat /\ MinMemory <= rss /\ rss <= MaxMemory
  BY MeteringAssumption DEF GaugeInv, MeterTypeOK, Memory
<1> DEFINE a == MinMemory * since  b == MaxMemory * since  m == rss * since
<1>2. a \in Nat /\ b \in Nat /\ m \in Nat
  BY <1>1, SMT
<1>3. a <= m /\ m <= b
  BY <1>1, Scaling
<1>4. (MaxMemory - MinMemory) * since = b - a
  BY <1>1, SMT
<1>5. a <= held /\ held <= b
  BY DEF GaugeInv
<1> HIDE DEF a, b, m
<1>6. m - held \in (-(b - a))..(b - a)
  BY <1>1, <1>2, <1>3, <1>5
<1>7. QED
  BY <1>2, <1>4, <1>6 DEF m

\* What the meter takes the draw for, by what it knows of the clock.
LEMMA EstimateFacts ==
  ASSUME GaugeInv, NEW e \in Estimates
  PROVE  /\ e \in Nat
         /\ (psutil /\ "ahead" \notin stepped) =>
              2 * (e - (busy + held)) <= since * Blur
         /\ (psutil /\ stepped = {}) =>
              2 * (e - (held + IF first THEN 0 ELSE busy))
                \in (-(since * Blur))..(since * Blur)
<1> DEFINE wall == Wall(since + shift)
<1>1. /\ since \in Nat /\ busy \in Nat /\ held \in Nat /\ rss \in Nat /\ shift \in Int
      /\ LoadStep \in Nat /\ FlatDraw \in Nat /\ MaxMemory - MinMemory \in Nat
  BY MeteringAssumption, BlurIsNat DEF GaugeInv, MeterTypeOK, Memory
<1>2. wall \in Nat /\ (shift <= 0 => wall <= since) /\ (shift = 0 => wall = since)
  BY <1>1 DEF Wall
<1>3. CASE ~psutil
  <2>1. e = FlatDraw * wall
    BY <1>3 DEF Estimates
  <2> HIDE DEF wall
  <2>2. e \in Nat
    BY <1>1, <1>2, <2>1, SMT
  <2>3. QED
    BY <1>3, <2>2
<1>4. CASE psutil
  <2>1. PICK load \in CpuPercent(busy, since, first) : e = load * wall + rss * wall
    BY <1>4 DEF Estimates
  <2> DEFINE c == IF first THEN 0 ELSE busy
             f == load * since          \* the load, and the memory,
             m == rss * since           \* had the wall clock kept time
             u == LoadStep * since
             v == (MaxMemory - MinMemory) * since
  <2>2. load \in Nat /\ 2 * (f - c) \in (-u)..u
    BY LoadFacts
  <2>3. m - held \in (-v)..v
    BY MemoryFacts
  <2>4. f \in Nat /\ m \in Nat /\ u \in Nat /\ v \in Nat
    BY <1>1, <2>2, SMT
  <2>5. since * Blur = u + 2 * v
    <3>1. \A x \in Nat, y \in Nat, t \in Nat : t * (x + 2 * y) = x * t + 2 * (y * t)
      BY SMT
    <3>2. QED
      BY <1>1, <3>1 DEF Blur
  <2>6. c \in Nat /\ c <= busy
    BY <1>1
  <2> HIDE DEF wall
  <2>7. load * wall \in Nat /\ rss * wall \in Nat
    BY <1>1, <1>2, <2>2, SMT
  <2>8. shift <= 0 => load * wall <= f /\ rss * wall <= m
    <3>1. \A x \in Nat, y \in Nat, z \in Nat : y <= z => x * y <= x * z
      BY SMT
    <3>2. QED
      BY <1>1, <1>2, <2>2, <3>1
  <2>9. shift = 0 => load * wall = f /\ rss * wall = m
    BY <1>2
  <2> DEFINE p == load * wall  q == rss * wall
  <2>10. e = p + q /\ p \in Nat /\ q \in Nat
    BY <2>1, <2>7
  <2> HIDE DEF p, q, c, f, m, u, v
  <2>11. shift <= 0 => 2 * (e - (busy + held)) <= u + 2 * v
    <3>1. SUFFICES ASSUME shift <= 0 PROVE 2 * (e - (busy + held)) <= u + 2 * v
      OBVIOUS
    <3>2. p <= f /\ q <= m
      BY <2>8, <3>1 DEF p, q
    <3>3. QED
      BY <1>1, <2>2, <2>3, <2>4, <2>6, <2>10, <3>2
  <2>12. shift = 0 => 2 * (e - (held + c)) \in (-(u + 2 * v))..(u + 2 * v)
    <3>1. SUFFICES ASSUME shift = 0
                   PROVE  2 * (e - (held + c)) \in (-(u + 2 * v))..(u + 2 * v)
      OBVIOUS
    <3>2. e = f + m
      BY <2>9, <2>10, <3>1 DEF p, q
    <3>3. QED
      BY <1>1, <2>2, <2>3, <2>4, <2>6, <3>2
  <2>13. ("ahead" \notin stepped => shift <= 0) /\ (stepped = {} => shift = 0)
    BY DEF GaugeInv
  <2>14. e \in Nat
    BY <2>10
  <2>15. QED
    BY <2>5, <2>11, <2>12, <2>13, <2>14 DEF c
<1>5. QED
  BY <1>3, <1>4

LEMMA InitMeter == Init => MeterInv
<1> SUFFICES ASSUME Init PROVE MeterInv
  OBVIOUS
<1>1. MinMemory * 0 = 0 /\ MaxMemory * 0 = 0 /\ 0 * Digit = 0 /\ 0 * Blur = 0
  BY MeteringAssumption, BlurIsNat, SMT
<1>2. Slack = 0
  BY <1>1, MeteringAssumption DEF Init, Slack
<1>3. QED
  BY <1>1, <1>2, MeteringAssumption
  DEF Init, MeterInv, GaugeInv, MeterTypeOK, CostInv, Kept, DrawIsAccountedFor

LEMMA SlackIsNat == ASSUME MeterInv PROVE Slack \in Nat
BY SlackGrows, MeteringAssumption DEF MeterInv, GaugeInv, MeterTypeOK, Slack

\* The step that takes a reading: the only one that rounds.
LEMMA ReadingKeepsBooks ==
  ASSUME MeterInv, MeterCycle PROVE MeterInv'
<1>1. PICK e \in Estimates : reading' \in Rounded(e)
  BY DEF MeterCycle
<1> DEFINE c == IF first THEN busy ELSE 0
           w == since * Blur
<1>2. /\ e \in Nat
      /\ (psutil /\ "ahead" \notin stepped) => 2 * (e - (busy + held)) <= w
      /\ (psutil /\ stepped = {}) =>
           2 * (e - (held + IF first THEN 0 ELSE busy)) \in (-w)..w
  BY EstimateFacts DEF MeterInv
<1>3. /\ reading' \in Nat
      /\ 2 * (reading' - e) <= Digit /\ -Digit <= 2 * (reading' - e)
  BY <1>1, <1>2, Rounding
<1>4. /\ since \in Nat /\ busy \in Nat /\ held \in Nat /\ ticks \in Nat /\ since <= ticks
      /\ recorded \in Nat /\ dropped \in Nat /\ spent \in Nat /\ unseen \in Nat
      /\ readings \in 0..MaxReadings /\ reading = 0
      /\ MaxReadings \in Nat /\ MaxStep \in Nat /\ Digit \in Nat
      /\ MinMemory \in Nat /\ MaxMemory \in Nat
  BY MeteringAssumption DEF MeterInv, GaugeInv, MeterTypeOK, MeterCycle
<1>5. /\ readings < MaxReadings /\ readings' = readings + 1
      /\ pc' = "metered" /\ first' = FALSE
      /\ since' = 0 /\ busy' = 0 /\ held' = 0 /\ shift' = 0
      /\ unseen' = unseen + c
      /\ psutil' = psutil /\ rss' = rss /\ recorded' = recorded /\ ticks' = ticks
      /\ spent' = spent /\ dropped' = dropped /\ stepped' = stepped
  BY DEF MeterCycle, FreshGauge
<1>6. Slack' = Slack + (Digit + w) /\ Slack \in Nat /\ w \in Nat
  BY <1>4, <1>5, SlackGrows DEF Slack
<1>7. GaugeInv'
  <2>1. 0 \in (-MaxStep)..MaxStep /\ readings + 1 \in 0..MaxReadings
    BY <1>4, <1>5
  <2>2. unseen + c \in Nat
    BY <1>4
  <2>3. MeterTypeOK'
    BY <1>3, <1>4, <1>5, <2>1, <2>2 DEF MeterInv, GaugeInv, MeterTypeOK, Memory
  <2>4. MinMemory * 0 = 0 /\ MaxMemory * 0 = 0
    BY <1>4, SMT
  <2>5. QED
    BY <1>4, <1>5, <2>3, <2>4 DEF GaugeInv
<1> DEFINE b == Slack
<1>8. CostInv'
  <2>1. SUFFICES ASSUME psutil, "ahead" \notin stepped
                 PROVE  2 * (recorded + reading' + dropped) <= 2 * spent + (b + (Digit + w))
    BY <1>3, <1>4, <1>5, <1>6 DEF CostInv, Kept
  <2>2. 2 * (recorded + dropped + busy + held) <= 2 * spent + b
    BY <1>4, <2>1 DEF MeterInv, CostInv, Kept
  <2>3. 2 * (e - (busy + held)) <= w
    BY <1>2, <2>1
  <2>4. b \in Nat /\ w \in Nat
    BY <1>6
  <2>5. e \in Nat
    BY <1>2
  <2> DEFINE t == recorded + dropped  g == busy + held
  <2>6. t \in Nat /\ g \in Nat /\ spent \in Nat /\ Digit \in Nat
    BY <1>4
  <2>7. 2 * (t + g) <= 2 * spent + b
    BY <1>4, <2>2
  <2>8. 2 * (e - g) <= w
    BY <2>3
  <2>9. recorded + reading' + dropped = t + reading'
    BY <1>3, <1>4
  <2>10. reading' \in Nat /\ 2 * (reading' - e) <= Digit
    BY <1>3
  <2> HIDE DEF b, w, t, g
  <2>11. 2 * (t + reading') <= 2 * spent + (b + (Digit + w))
    BY <2>4, <2>5, <2>6, <2>7, <2>8, <2>10, BoundsAdd
  <2>12. QED
    BY <2>9, <2>11
<1>9. DrawIsAccountedFor'
  <2>1. SUFFICES ASSUME psutil, stepped = {}
                 PROVE  2 * (spent - (recorded + reading' + dropped + (unseen + c)))
                          \in (-(b + (Digit + w)))..(b + (Digit + w))
    <3>1. recorded + reading' + dropped + 0 + 0 + (unseen + c)
            = recorded + reading' + dropped + (unseen + c)
      BY <1>3, <1>4
    <3>2. SUFFICES ASSUME psutil, stepped = {}
                   PROVE  2 * (spent - (recorded + reading' + dropped + (unseen + c)))
                            \in (-(Slack'))..Slack'
      BY <1>5, <3>1 DEF DrawIsAccountedFor
    <3>3. QED
      BY <1>6, <2>1, <3>2
  <2>2. 2 * (spent - (recorded + dropped + (busy + held) + unseen)) \in (-b)..b
    BY <1>4, <2>1 DEF MeterInv, DrawIsAccountedFor
  <2>3. 2 * (e + c - (busy + held)) \in (-w)..w
    BY <1>2, <1>4, <2>1
  <2>4. b \in Nat /\ w \in Nat /\ c \in Nat
    BY <1>4, <1>6
  <2> HIDE DEF b, w, c
  <2> DEFINE d == spent - (recorded + dropped + (busy + held) + unseen)
             k == e + c - (busy + held)
             r == reading' - e
  <2>5. spent - (recorded + reading' + dropped + (unseen + c)) = d - k - r
    BY <1>2, <1>3, <1>4, <2>4
  <2>6. d \in Int /\ k \in Int /\ r \in Int
    BY <1>2, <1>3, <1>4, <2>4
  <2>7. 2 * d \in (-b)..b /\ 2 * k \in (-w)..w /\ 2 * r <= Digit /\ -Digit <= 2 * r
    BY <1>3, <2>2, <2>3
  <2> HIDE DEF d, k, r
  <2>8. 2 * (d - k - r) \in (-(b + (Digit + w)))..(b + (Digit + w))
    BY <1>4, <2>4, <2>6, <2>7
  <2>9. QED
    BY <2>5, <2>8
<1>10. QED
  BY <1>7, <1>8, <1>9 DEF MeterInv

\* A step that takes no reading, loses none of what is kept, and leaves the
\* gauge as good as it was.
LEMMA StepMeter == ASSUME MeterInv, [Next]_meterVars PROVE MeterInv'
<1> USE MeteringAssumption
    DEF MeterInv, GaugeInv, MeterTypeOK, Memory, CostInv, Kept, DrawIsAccountedFor
<1>1. CASE MeterCycle
  BY <1>1, ReadingKeepsBooks
<1> DEFINE b == Slack
<1>2. b \in Nat
  BY SlackIsNat
<1>3. CASE Charge
  BY <1>2, <1>3 DEF Charge, gauge, books, Slack
<1>4. CASE CutShort
  BY <1>2, <1>4 DEF CutShort, gauge, Slack
<1>5. CASE End
  <2>1. Slack <= Slack' /\ Slack' \in Nat
    BY <1>5, SlackGrows DEF End, FreshGauge, Slack
  <2>2. MinMemory * 0 = 0 /\ MaxMemory * 0 = 0
    BY SMT
  <2>3. GaugeInv'
    BY <1>5, <2>2 DEF End, FreshGauge
  <2>4. CostInv'
    <3>1. Kept' = recorded + 0 + (dropped + reading) + 0 + 0
      BY <1>5 DEF End, FreshGauge
    <3>2. Kept' <= Kept /\ Kept' \in Nat /\ Kept \in Nat
      BY <3>1
    <3>3. spent' = spent /\ psutil' = psutil /\ stepped' = stepped
      BY <1>5 DEF End
    <3>4. 2 * Kept' <= 2 * Kept /\ 2 * Kept \in Int /\ 2 * Kept' \in Int /\ 2 * spent \in Int
      BY <3>2
    <3>5. (psutil /\ "ahead" \notin stepped) => 2 * Kept <= 2 * spent + b
      OBVIOUS
    <3> HIDE DEF Kept, b
    <3>6. Slack = b
      BY DEF b
    <3>7. (psutil /\ "ahead" \notin stepped) => 2 * Kept' <= 2 * spent + Slack'
      BY ONLY <1>2, <2>1, <3>4, <3>5, <3>6, BoundsGrow
    <3>8. QED
      BY ONLY <3>3, <3>7 DEF CostInv
  <2>5. DrawIsAccountedFor'
    <3> DEFINE k == recorded + reading + dropped + busy + held + unseen
    <3>1. k' = k /\ k \in Nat
      BY <1>5 DEF End, FreshGauge
    <3>2. spent' = spent /\ psutil' = psutil /\ stepped' = stepped
      BY <1>5 DEF End
    <3>3. (psutil /\ stepped = {}) => 2 * (spent - k) \in (-b)..b
      OBVIOUS
    <3>4. SUFFICES (psutil /\ stepped = {}) => 2 * (spent - k) \in (-(Slack'))..Slack'
      BY <3>1, <3>2
    <3>5. 2 * (spent - k) \in Int
      BY <3>1
    <3> HIDE DEF k
    <3>6. QED
      BY ONLY <1>2, <2>1, <3>3, <3>5, BoundsGrow
  <2>6. QED
    BY <2>3, <2>4, <2>5
<1>6. CASE Start
  BY <1>2, <1>6 DEF Start, gauge, books, Slack
<1>7. CASE Tick
  <2>1. Slack' = Slack
    BY <1>7, SlackGrows DEF Tick, Slack
  <2>2. /\ MinMemory * (since + 1) = MinMemory * since + MinMemory
        /\ MaxMemory * (since + 1) = MaxMemory * since + MaxMemory
        /\ MinMemory * since \in Nat /\ MaxMemory * since \in Nat
    BY SMT
  <2>3. QED
    BY <1>2, <1>7, <2>1, <2>2 DEF Tick
<1>8. CASE Resize
  BY <1>2, <1>8 DEF Resize, gauge, books, Slack
<1>9. CASE StepClock
  BY <1>2, <1>9 DEF StepClock, books, Slack
<1>10. CASE UNCHANGED meterVars
  BY <1>2, <1>10 DEF meterVars, gauge, books, Slack
<1>11. QED
  BY <1>1, <1>3, <1>4, <1>5, <1>6, <1>7, <1>8, <1>9, <1>10 DEF Next

\* The books of the meter always balance.
THEOREM MeterInvariant == Spec => []MeterInv
<1>1. QED
  BY InitMeter, StepMeter, PTL DEF Spec

\* Every variable of the meter keeps its type, and no sum falls below zero.
THEOREM MeterTypeCorrect == Spec => []MeterTypeOK
<1>1. MeterInv => MeterTypeOK
  BY DEF MeterInv, GaugeInv
<1>2. QED
  BY MeterInvariant, <1>1, PTL

\* Under a clock that is never set ahead the ledger never charges more than was
\* drawn by more than the precision of its books (ledger/consumption.py).
THEOREM NeverOverstated == Spec => []CostIsNotOverstated
<1>1. MeterInv => CostIsNotOverstated
  <2>1. SUFFICES ASSUME MeterInv, psutil, "ahead" \notin stepped
                 PROVE  2 * recorded <= 2 * spent + Slack
    BY DEF CostIsNotOverstated
  <2> DEFINE b == Slack
  <2>2. b \in Nat
    BY <2>1, SlackIsNat
  <2>3. 2 * Kept <= 2 * spent + b
    BY <2>1 DEF MeterInv, CostInv
  <2> HIDE DEF b
  <2>4. 2 * recorded <= 2 * spent + b
    BY <2>1, <2>2, <2>3 DEF MeterInv, GaugeInv, MeterTypeOK, Kept
  <2>5. QED
    BY <2>4 DEF b
<1>2. QED
  BY MeterInvariant, <1>1, PTL

\* Under a clock that is not stepped every draw is in one book, and in one
\* only, to the precision of the books (ledger/consumption.py).
THEOREM AllDrawIsAccountedFor == Spec => []DrawIsAccountedFor
<1>1. MeterInv => DrawIsAccountedFor
  BY DEF MeterInv
<1>2. QED
  BY MeterInvariant, <1>1, PTL
=============================================================================

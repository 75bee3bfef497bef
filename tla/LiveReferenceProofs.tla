------------------------- MODULE LiveReferenceProofs ------------------------
(***************************************************************************)
(* The invariants of LiveReference and its refinement of Sight, for any    *)
(* sources and budgets, any assemblies, and any course of what happens.    *)
(***************************************************************************)
EXTENDS LiveReference, SequenceTheorems, TLAPS

InCycle == pc \in {"read", "judge"}

\* The sources read_all is through with.
Visited == {registered[i] : i \in 1..(at - 1)}

\* What the flags of a running cycle are made of.
FlagInv ==
  InCycle =>
    /\ Names(stale) = (Names(savedStale) \cup Visited) \ fresh
    /\ fresh \subseteq Visited
    /\ answering \subseteq alive
    /\ Source \ answering \subseteq silent
    /\ pc = "judge" => /\ InHand \in alive
                       /\ age > Budget[InHand] => InHand \in silent
    /\ fresh \subseteq alive
    /\ \A i \in 1..(at - 1) : registered[i] \in Names(stale) => registered[i] \in silent

\* Every two of list, the later of which is in old, are so ordered in old.
KeepsOrder(list, old) ==
  \A i, j \in DOMAIN list :
    (i < j /\ list[j] \in Names(old)) =>
      \E k, l \in DOMAIN old : k < l /\ old[k] = list[i] /\ old[l] = list[j]

OrderInv == InCycle => KeepsOrder(stale, savedStale)

OutsideInv == ~InCycle => at = 1 /\ age = 0 /\ fresh = {}

LiveInv == LTypeOK /\ FlagInv /\ OrderInv /\ OutsideInv

-----------------------------------------------------------------------------
(* The list of stale sources. *)

LEMMA SeqFacts ==
  ASSUME NEW S, NEW list \in Seq(S)
  PROVE  /\ Len(list) \in Nat /\ DOMAIN list = 1..Len(list)
         /\ Names(list) \subseteq S
         /\ \A i \in 1..Len(list) : list[i] \in S
BY LenProperties, ElementOfSeq DEF Names

\* flag_stale adds the source, once, at the end.
LEMMA FlagFacts ==
  ASSUME NEW S, NEW list \in Seq(S), NEW s \in S, NoRepeats(list)
  PROVE  /\ FlagStale(list, s) \in Seq(S)
         /\ NoRepeats(FlagStale(list, s))
         /\ Names(FlagStale(list, s)) = Names(list) \cup {s}
         /\ \A old : (KeepsOrder(list, old) /\ (s \in Names(old) => s \in Names(list)))
                       => KeepsOrder(FlagStale(list, s), old)
<1>1. CASE s \in Names(list)
  BY <1>1 DEF FlagStale
<1>2. CASE s \notin Names(list)
  <2> DEFINE new == Append(list, s)
  <2>1. FlagStale(list, s) = new
    BY <1>2 DEF FlagStale
  <2>2. /\ new \in Seq(S) /\ Len(list) \in Nat /\ DOMAIN list = 1..Len(list)
        /\ DOMAIN new = 1..(Len(list) + 1)
        /\ \A i \in 1..Len(list) : new[i] = list[i]
        /\ new[Len(list) + 1] = s
    BY AppendProperties, LenProperties
  <2> HIDE DEF new
  <2>3. \A i \in 1..Len(list) : list[i] # s
    BY <1>2, <2>2 DEF Names
  <2>4. NoRepeats(new)
    BY <2>2, <2>3 DEF NoRepeats
  <2>5. Names(new) = Names(list) \cup {s}
    <3>1. ASSUME NEW x \in Names(new) PROVE x \in Names(list) \cup {s}
      BY <2>2, <3>1 DEF Names
    <3>2. ASSUME NEW x \in Names(list) \cup {s} PROVE x \in Names(new)
      <4>1. CASE x = s
        <5>1. Len(list) + 1 \in DOMAIN new
          BY <2>2
        <5>2. QED
          BY <5>1, <4>1, <2>2 DEF Names
      <4>2. CASE x \in Names(list)
        <5>1. PICK i \in 1..Len(list) : list[i] = x
          BY <4>2, <2>2 DEF Names
        <5>2. i \in DOMAIN new /\ new[i] = x
          BY <5>1, <2>2
        <5>3. QED
          BY <5>2 DEF Names
      <4>3. QED
        BY <3>2, <4>1, <4>2
    <3>3. QED
      BY <3>1, <3>2
  <2>6. ASSUME NEW old, KeepsOrder(list, old), s \notin Names(old)
        PROVE  KeepsOrder(new, old)
    <3>1. SUFFICES ASSUME NEW i \in 1..(Len(list) + 1), NEW j \in 1..(Len(list) + 1),
                          i < j, new[j] \in Names(old)
                   PROVE  \E k, l \in DOMAIN old :
                            k < l /\ old[k] = new[i] /\ old[l] = new[j]
      BY <2>2 DEF KeepsOrder
    <3>2. j \in 1..Len(list) /\ i \in 1..Len(list)
      BY <2>2, <2>6, <3>1
    <3>3. list[j] \in Names(old) /\ new[i] = list[i] /\ new[j] = list[j]
      BY <2>2, <3>1, <3>2
    <3>4. QED
      BY <3>1, <3>2, <3>3, <2>2, <2>6 DEF KeepsOrder
  <2>7. QED
    BY <1>2, <2>1, <2>2, <2>4, <2>5, <2>6
<1>3. QED
  BY <1>1, <1>2

\* clear_stale takes the source out and leaves the order of the others.
LEMMA ClearFacts ==
  ASSUME NEW S, NEW list \in Seq(S), NEW s \in S, NoRepeats(list)
  PROVE  /\ ClearStale(list, s) \in Seq(S)
         /\ NoRepeats(ClearStale(list, s))
         /\ Names(ClearStale(list, s)) = Names(list) \ {s}
         /\ \A old : KeepsOrder(list, old) => KeepsOrder(ClearStale(list, s), old)
<1>0. Len(list) \in Nat /\ DOMAIN list = 1..Len(list)
  BY LenProperties
<1>1. CASE s \notin Names(list)
  <2>1. ClearStale(list, s) = list
    BY <1>0, <1>1 DEF ClearStale, RemoveFirst, Names
  <2>2. QED
    BY <2>1, <1>1
<1>2. CASE s \in Names(list)
  <2>1. PICK k \in 1..Len(list) : list[k] = s
    BY <1>0, <1>2 DEF Names
  <2>2. SelectInSeq(list, LAMBDA v : v = s) = k
    <3>1. {i \in 1..Len(list) : list[i] = s} = {k}
      BY <1>0, <2>1 DEF NoRepeats
    <3>2. Min({k}) = k
      BY <2>1 DEF Min
    <3>3. QED
      BY <3>1, <3>2 DEF SelectInSeq
  <2> DEFINE new == RemoveAt(list, k)
  <2>3. ClearStale(list, s) = new
    BY <2>1, <2>2 DEF ClearStale, RemoveFirst
  <2>4. /\ new \in Seq(S)
        /\ Len(new) = Len(list) - 1 /\ DOMAIN new = 1..(Len(list) - 1)
        /\ \A i \in 1..(Len(list) - 1) :
             new[i] = IF i < k THEN list[i] ELSE list[i + 1]
    <3> DEFINE a == SubSeq(list, 1, k - 1)  b == SubSeq(list, k + 1, Len(list))
    <3>1. /\ a \in Seq(S) /\ Len(a) = k - 1
          /\ \A i \in 1..(k - 1) : a[i] = list[i]
      BY <1>0, <2>1, SubSeqProperties
    <3>2. /\ b \in Seq(S) /\ Len(b) = Len(list) - k
          /\ \A i \in 1..(Len(list) - k) : b[i] = list[k + i]
      <4> DEFINE m == k + 1  n == Len(list)
      <4>0. k \in Int /\ n \in Int /\ k <= n /\ m = k + 1
        BY <1>0, <2>1
      <4>1. /\ m \in Int /\ n \in Int /\ n - m + 1 = n - k
            /\ ~(m <= n) => n - k = 0
        <5> HIDE DEF m, n
        <5> QED BY <4>0
      <4>2. \A i \in m..n : list[i] \in S
        BY <1>0, <2>1, ElementOfSeq
      <4> HIDE DEF m, n
      <4>3. /\ SubSeq(list, m, n) \in Seq(S)
            /\ Len(SubSeq(list, m, n)) = n - k
            /\ \A i \in 1..(n - k) : SubSeq(list, m, n)[i] = list[m + i - 1]
        BY <4>1, <4>2, SubSeqProperties
      <4>4. \A i \in 1..(n - k) : m + i - 1 = k + i
        BY <2>1, <1>0 DEF m, n
      <4>5. QED
        BY <4>3, <4>4 DEF m, n
    <3>3. new = a \o b
      BY DEF RemoveAt
    <3> HIDE DEF a, b, new
    <3>4. /\ a \o b \in Seq(S) /\ Len(a \o b) = Len(a) + Len(b)
          /\ \A i \in 1..(Len(a) + Len(b)) :
               (a \o b)[i] = IF i <= Len(a) THEN a[i] ELSE b[i - Len(a)]
      BY <3>1, <3>2, ConcatProperties
    <3>5. ASSUME NEW i \in 1..(Len(list) - 1)
          PROVE  new[i] = IF i < k THEN list[i] ELSE list[i + 1]
      <4>1. CASE i < k
        BY <4>1, <3>1, <3>2, <3>3, <3>4, <1>0, <2>1
      <4>2. CASE ~(i < k)
        <5>1. i - (k - 1) \in 1..(Len(list) - k)
          BY <4>2, <1>0, <2>1
        <5>2. new[i] = b[i - (k - 1)]
          BY <4>2, <3>1, <3>2, <3>3, <3>4, <1>0, <2>1
        <5>3. b[i - (k - 1)] = list[k + (i - (k - 1))]
          BY <5>1, <3>2
        <5>4. k + (i - (k - 1)) = i + 1
          BY <2>1
        <5>5. QED
          BY <5>2, <5>3, <5>4, <4>2
      <4>3. QED
        BY <4>1, <4>2
    <3>6. Len(new) = Len(list) - 1 /\ DOMAIN new = 1..(Len(list) - 1)
      BY <3>1, <3>2, <3>3, <3>4, <1>0, <2>1, LenProperties
    <3>7. QED
      BY <3>3, <3>4, <3>5, <3>6
  <2> HIDE DEF new
  <2> DEFINE pos(i) == IF i < k THEN i ELSE i + 1
  <2>5. \A i \in 1..(Len(list) - 1) :
          /\ pos(i) \in 1..Len(list) /\ pos(i) # k
          /\ new[i] = list[pos(i)]
    BY <2>1, <2>4, <1>0
  <2>6. \A i, j \in 1..(Len(list) - 1) :
          (i < j => pos(i) < pos(j)) /\ (pos(i) = pos(j) => i = j)
    BY <2>1, <1>0
  <2>7. \A m \in 1..Len(list) : m # k =>
          \E i \in 1..(Len(list) - 1) : pos(i) = m
    <3>1. SUFFICES ASSUME NEW m \in 1..Len(list), m # k
                   PROVE  \E i \in 1..(Len(list) - 1) : pos(i) = m
      OBVIOUS
    <3>2. CASE m < k
      BY <3>1, <3>2, <2>1, <1>0
    <3>3. CASE m > k
      <4>1. m - 1 \in 1..(Len(list) - 1) /\ ~(m - 1 < k) /\ (m - 1) + 1 = m
        BY <3>1, <3>3, <2>1, <1>0
      <4>2. pos(m - 1) = m
        BY <4>1
      <4>3. QED
        BY <4>1, <4>2
    <3>4. QED
      BY <3>1, <3>2, <3>3, <2>1, <1>0
  <2> HIDE DEF pos
  <2>8. NoRepeats(new)
    <3>1. SUFFICES ASSUME NEW i \in 1..(Len(list) - 1), NEW j \in 1..(Len(list) - 1),
                          new[i] = new[j]
                   PROVE  i = j
      BY <2>4 DEF NoRepeats
    <3>2. pos(i) \in DOMAIN list /\ pos(j) \in DOMAIN list /\ list[pos(i)] = list[pos(j)]
      BY <3>1, <2>5, <1>0
    <3>3. pos(i) = pos(j)
      BY <3>2 DEF NoRepeats
    <3>4. QED
      BY <3>3, <2>6
  <2>9. Names(new) = Names(list) \ {s}
    <3>1. ASSUME NEW x \in Names(new) PROVE x \in Names(list) \ {s}
      <4>1. PICK i \in 1..(Len(list) - 1) : new[i] = x
        BY <2>4 DEF Names
      <4>2. pos(i) \in DOMAIN list /\ list[pos(i)] = x /\ pos(i) # k
        BY <4>1, <2>5, <1>0
      <4>3. QED
        BY <4>2, <2>1, <1>0 DEF Names, NoRepeats
    <3>2. ASSUME NEW x \in Names(list) \ {s} PROVE x \in Names(new)
      <4>1. PICK m \in 1..Len(list) : list[m] = x /\ m # k
        BY <3>2, <2>1, <1>0 DEF Names
      <4>2. PICK i \in 1..(Len(list) - 1) : pos(i) = m
        BY <4>1, <2>7
      <4>3. i \in DOMAIN new /\ new[i] = x
        BY <4>1, <4>2, <2>4, <2>5
      <4>4. QED
        BY <4>3 DEF Names
    <3>3. QED
      BY <3>1, <3>2
  <2>10. ASSUME NEW old, KeepsOrder(list, old) PROVE KeepsOrder(new, old)
    <3>1. SUFFICES ASSUME NEW i \in 1..(Len(list) - 1), NEW j \in 1..(Len(list) - 1),
                          i < j, new[j] \in Names(old)
                   PROVE  \E l, m \in DOMAIN old :
                            l < m /\ old[l] = new[i] /\ old[m] = new[j]
      BY <2>4 DEF KeepsOrder
    <3>2. /\ pos(i) \in DOMAIN list /\ pos(j) \in DOMAIN list /\ pos(i) < pos(j)
          /\ new[i] = list[pos(i)] /\ new[j] = list[pos(j)]
      BY <3>1, <2>5, <2>6, <1>0
    <3>3. QED
      BY <3>1, <3>2, <2>10 DEF KeepsOrder
  <2>11. QED
    BY <2>3, <2>4, <2>8, <2>9, <2>10
<1>3. QED
  BY <1>1, <1>2

-----------------------------------------------------------------------------
(* The steps. *)

LEMMA LiveTypes ==
  ASSUME LTypeOK
  PROVE  /\ Len(registered) \in Nat /\ DOMAIN registered = 1..Len(registered)
         /\ \A i \in 1..Len(registered) : registered[i] \in Source
         /\ at \in Nat /\ at > 0 /\ at <= Len(registered) + 1
         /\ \A s \in Source : Budget[s] \in Nat
         /\ NoRepeats(stale) /\ stale \in Seq(Source)
<1>1. registered \in Seq(Source) /\ at \in 1..(Len(registered) + 1)
  BY DEF LTypeOK
<1>2. Len(registered) \in Nat /\ DOMAIN registered = 1..Len(registered)
      /\ \A i \in 1..Len(registered) : registered[i] \in Source
  BY <1>1, SeqFacts
<1>3. QED
  BY <1>1, <1>2, LiveAssumption DEF LTypeOK

LEMMA LiveInit == Init => LiveInv
<1> SUFFICES ASSUME Init PROVE LiveInv
  OBVIOUS
<1>1. <<>> \in Seq(Source) /\ NoRepeats(<<>>) /\ Len(<<>>) = 0
  BY DEF NoRepeats
<1>2. LTypeOK
  BY <1>1 DEF Init, LTypeOK
<1>3. QED
  BY <1>2 DEF Init, LiveInv, FlagInv, OrderInv, OutsideInv, InCycle

\* What the source in hand is, in a cycle that is not through.
LEMMA HandFacts ==
  ASSUME LiveInv, InCycle, at <= Len(registered)
  PROVE  /\ InHand \in Source /\ InHand \notin Visited /\ InHand \notin fresh
         /\ InHand \in Names(savedStale) => InHand \in Names(stale)
         /\ {registered[i] : i \in 1..((at + 1) - 1)} = Visited \cup {InHand}
         /\ \A i \in 1..(at - 1) : registered[i] # InHand
<1>0. LTypeOK
  BY DEF LiveInv
<1>1. /\ Len(registered) \in Nat /\ DOMAIN registered = 1..Len(registered)
      /\ \A i \in 1..Len(registered) : registered[i] \in Source
      /\ at \in 1..Len(registered) /\ NoRepeats(registered)
  BY <1>0, LiveTypes DEF LTypeOK
<1>2. \A i \in 1..(at - 1) : registered[i] # registered[at]
  BY <1>1 DEF NoRepeats
<1>3. (at + 1) - 1 = at /\ 1..at = 1..(at - 1) \cup {at}
  BY <1>1
<1>4. /\ fresh \subseteq Visited
      /\ Names(stale) = (Names(savedStale) \cup Visited) \ fresh
  BY DEF LiveInv, FlagInv
<1>5. registered[at] \notin Visited
  BY <1>2 DEF Visited
<1>6. QED
  BY <1>1, <1>2, <1>3, <1>4, <1>5 DEF InHand, Visited

\* The turn of the loop in which the source in hand is flagged.
LEMMA FlagTurn ==
  ASSUME LiveInv, InCycle, at <= Len(registered), InHand \in silent,
         stale' = FlagStale(stale, InHand), at' = at + 1, pc' = "read",
         UNCHANGED <<answering, registered, savedStale, fresh, alive, silent>>,
         age' \in Int, age' >= -1
  PROVE  LiveInv'
<1>0. LTypeOK /\ FlagInv /\ OrderInv
  BY DEF LiveInv
<1>1. /\ stale' \in Seq(Source) /\ NoRepeats(stale')
      /\ Names(stale') = Names(stale) \cup {InHand}
      /\ KeepsOrder(stale', savedStale)
  <2>1. KeepsOrder(stale, savedStale)
    BY <1>0 DEF OrderInv
  <2>2. /\ stale \in Seq(Source) /\ NoRepeats(stale) /\ InHand \in Source
        /\ InHand \in Names(savedStale) => InHand \in Names(stale)
    BY <1>0, HandFacts DEF LTypeOK
  <2>3. /\ FlagStale(stale, InHand) \in Seq(Source) /\ NoRepeats(FlagStale(stale, InHand))
        /\ Names(FlagStale(stale, InHand)) = Names(stale) \cup {InHand}
        /\ KeepsOrder(FlagStale(stale, InHand), savedStale)
    BY <2>1, <2>2, FlagFacts
  <2>4. QED
    BY <2>3
<1>2. at' \in 1..(Len(registered) + 1)
  BY <1>0, LiveTypes
<1>3. LTypeOK'
  BY <1>0, <1>1, <1>2 DEF LTypeOK
<1>4. Visited' = Visited \cup {InHand}
  BY HandFacts DEF Visited
<1>5. \A i \in 1..(at' - 1) : registered[i] \in Names(stale') => registered[i] \in silent
  <2>1. SUFFICES ASSUME NEW i \in 1..at, registered[i] \in Names(stale')
                 PROVE  registered[i] \in silent
    BY <1>0, LiveTypes
  <2>2. CASE i = at
    BY <2>2 DEF InHand
  <2>3. CASE i \in 1..(at - 1)
    BY <2>1, <2>3, <1>0, <1>1, HandFacts DEF FlagInv
  <2>4. QED
    BY <2>1, <2>2, <2>3, <1>0, LiveTypes
<1>6. FlagInv'
  BY <1>0, <1>1, <1>4, <1>5, HandFacts DEF FlagInv, InCycle
<1>7. QED
  BY <1>1, <1>3, <1>6 DEF LiveInv, OrderInv, OutsideInv, InCycle

\* The turn in which it is cleared.
LEMMA ClearTurn ==
  ASSUME LiveInv, InCycle, at <= Len(registered), InHand \in alive,
         stale' = ClearStale(stale, InHand), fresh' = fresh \cup {InHand},
         at' = at + 1, pc' = "read",
         UNCHANGED <<answering, registered, savedStale, alive, silent>>,
         age' \in Int, age' >= -1
  PROVE  LiveInv'
<1>0. LTypeOK /\ FlagInv /\ OrderInv
  BY DEF LiveInv
<1>1. /\ stale' \in Seq(Source) /\ NoRepeats(stale')
      /\ Names(stale') = Names(stale) \ {InHand}
      /\ KeepsOrder(stale', savedStale)
  <2>1. KeepsOrder(stale, savedStale)
    BY <1>0 DEF OrderInv
  <2>2. /\ stale \in Seq(Source) /\ NoRepeats(stale) /\ InHand \in Source
    BY <1>0, HandFacts DEF LTypeOK
  <2>3. /\ ClearStale(stale, InHand) \in Seq(Source) /\ NoRepeats(ClearStale(stale, InHand))
        /\ Names(ClearStale(stale, InHand)) = Names(stale) \ {InHand}
        /\ KeepsOrder(ClearStale(stale, InHand), savedStale)
    BY <2>1, <2>2, ClearFacts
  <2>4. QED
    BY <2>3
<1>2. at' \in 1..(Len(registered) + 1) /\ fresh' \subseteq Source
  BY <1>0, LiveTypes, HandFacts DEF LTypeOK
<1>3. LTypeOK'
  BY <1>0, <1>1, <1>2 DEF LTypeOK
<1>4. Visited' = Visited \cup {InHand}
  BY HandFacts DEF Visited
<1>5. \A i \in 1..(at' - 1) : registered[i] \in Names(stale') => registered[i] \in silent
  <2>1. SUFFICES ASSUME NEW i \in 1..at, registered[i] \in Names(stale')
                 PROVE  registered[i] \in silent
    BY <1>0, LiveTypes
  <2>2. CASE i = at
    BY <2>1, <2>2, <1>1 DEF InHand
  <2>3. CASE i \in 1..(at - 1)
    BY <2>1, <2>3, <1>0, <1>1 DEF FlagInv
  <2>4. QED
    BY <2>1, <2>2, <2>3, <1>0, LiveTypes
<1>6. FlagInv'
  BY <1>0, <1>1, <1>4, <1>5, HandFacts DEF FlagInv, InCycle
<1>7. QED
  BY <1>1, <1>3, <1>6 DEF LiveInv, OrderInv, OutsideInv, InCycle

LEMMA LiveStep == LiveInv /\ [Next]_liveVars => LiveInv'
<1> SUFFICES ASSUME LiveInv, [Next]_liveVars PROVE LiveInv'
  OBVIOUS
<1>0. LTypeOK /\ FlagInv /\ OrderInv /\ OutsideInv
  BY DEF LiveInv
<1>1. CASE Recover
  <2>1. LTypeOK'
    BY <1>0, <1>1 DEF Recover, LTypeOK
  <2>2. at' = 1 /\ fresh' = {} /\ Visited' = {}
    BY <1>0, <1>1 DEF Recover, OutsideInv, InCycle, Visited
  <2>3. FlagInv'
    BY <2>2, <1>1 DEF Recover, FlagInv, InCycle, Names
  <2>4. OrderInv'
    BY <1>1 DEF Recover, OrderInv, KeepsOrder, InCycle, Names
  <2>5. QED
    BY <2>1, <2>3, <2>4, <1>1 DEF LiveInv, OutsideInv, InCycle, Recover
<1>2. CASE ReadRaises
  <2>1. InHand \in silent
    BY <1>0, <1>2, HandFacts DEF ReadRaises, MoreToRead, FlagInv, InCycle
  <2>2. QED
    BY <2>1, <1>0, <1>2, FlagTurn DEF ReadRaises, MoreToRead, InCycle, LTypeOK
<1>3. CASE ReadReturns
  <2>1. InHand \in Source /\ Budget[InHand] \in Nat
    BY <1>0, <1>3, HandFacts, LiveTypes DEF ReadReturns, MoreToRead, InCycle
  <2>2. InHand' = InHand
    BY <1>3 DEF ReadReturns, InHand
  <2>3. LTypeOK'
    BY <1>0, <1>3, <2>1, <2>2 DEF ReadReturns, MoreToRead, LTypeOK
  <2>4. QED
    BY <2>1, <2>2, <2>3, <1>0, <1>3
    DEF ReadReturns, MoreToRead, LiveInv, FlagInv, OrderInv, OutsideInv, InCycle,
        Visited
<1>4. CASE Judge
  <2>1. InCycle /\ at <= Len(registered) /\ InHand \in alive
        /\ (age > Budget[InHand] => InHand \in silent)
    BY <1>0, <1>4 DEF Judge, LTypeOK, FlagInv, InCycle
  <2>2. CASE age > Budget[InHand]
    BY <2>1, <2>2, <1>4, FlagTurn DEF Judge
  <2>3. CASE ~(age > Budget[InHand])
    BY <2>1, <2>3, <1>4, ClearTurn DEF Judge
  <2>4. QED
    BY <2>2, <2>3
<1>5. CASE Checkpoint
  <2>1. LTypeOK'
    BY <1>0, <1>5, LiveTypes DEF Checkpoint, Forget, LTypeOK, NoRepeats
  <2>2. QED
    BY <2>1, <1>5 DEF Checkpoint, Forget, LiveInv, FlagInv, OrderInv, OutsideInv,
                      InCycle
<1>6. CASE CutShort \/ Kill
  <2>1. LTypeOK'
    <3>1. /\ registered' \in Seq(Source) /\ NoRepeats(registered')
          /\ Len(registered') \in Nat /\ NoRepeats(<<>>)
      <4>1. registered' = registered \/ registered' = <<>>
        BY <1>6 DEF CutShort, Kill
      <4>2. NoRepeats(<<>>) /\ <<>> \in Seq(Source) /\ Len(<<>>) \in Nat
        BY DEF NoRepeats
      <4>3. registered \in Seq(Source) /\ NoRepeats(registered) /\ Len(registered) \in Nat
        BY <1>0, LiveTypes DEF LTypeOK
      <4>4. QED
        BY <4>1, <4>2, <4>3
    <3>2. /\ at' = 1 /\ age' = 0 /\ stale' = <<>> /\ fresh' = {}
          /\ alive' = {} /\ silent' = {} /\ pc' \in {"idle", "down"}
          /\ UNCHANGED <<answering, savedStale>>
      BY <1>6 DEF CutShort, Kill, Forget
    <3>3. at' \in 1..(Len(registered') + 1)
      BY <3>1, <3>2
    <3>4. QED
      BY <3>1, <3>2, <3>3, <1>0 DEF LTypeOK
  <2>2. QED
    BY <2>1, <1>6 DEF CutShort, Kill, Forget, LiveInv, FlagInv, OrderInv, OutsideInv,
                      InCycle
<1>7. CASE Restart
  <2>1. registered' \in Seq(Source) /\ NoRepeats(registered')
    BY <1>7, LiveAssumption DEF Restart, NoRepeats
  <2>2. at = 1 /\ Len(registered') \in Nat
    BY <2>1, <1>0, <1>7, SeqFacts DEF Restart, OutsideInv, InCycle
  <2>3. LTypeOK'
    BY <1>0, <1>7, <2>1, <2>2 DEF Restart, frame, LTypeOK
  <2>4. QED
    BY <2>3, <1>0, <1>7 DEF Restart, frame, LiveInv, FlagInv, OrderInv, OutsideInv,
                            InCycle
<1>8. CASE Change
  <2>1. answering' \subseteq Source
    BY <1>0, <1>8 DEF Change, LTypeOK
  <2>2. /\ alive' \subseteq Source /\ silent' \subseteq Source
        /\ alive \subseteq alive' /\ silent \subseteq silent'
        /\ InCycle => answering' \subseteq alive' /\ Source \ answering' \subseteq silent'
    BY <2>1, <1>0, <1>8 DEF Change, LTypeOK, InCycle
  <2>3. UNCHANGED <<registered, savedStale, pc, at, age, stale, fresh>>
    BY <1>8 DEF Change
  <2>4. LTypeOK'
    BY <2>1, <2>2, <2>3, <1>0 DEF LTypeOK, InHand
  <2>5. FlagInv'
    BY <2>2, <2>3, <1>0 DEF FlagInv, InCycle, Visited, InHand
  <2>6. QED
    BY <2>3, <2>4, <2>5, <1>0 DEF LiveInv, OrderInv, OutsideInv, InCycle
<1>9. CASE Grow
  <2>1. InHand \in Source /\ Budget[InHand] \in Nat /\ InCycle /\ age \in Int
    BY <1>0, <1>9, HandFacts, LiveTypes DEF Grow, InCycle, LTypeOK
  <2>2. /\ UNCHANGED <<answering, registered, savedStale, pc, at, stale, fresh, alive>>
        /\ age' = age + 1 /\ age' <= Budget[InHand] + 1
        /\ silent \subseteq silent' /\ silent' \subseteq Source
        /\ age' > Budget[InHand] => InHand \in silent'
    BY <2>1, <1>0, <1>9 DEF Grow, LTypeOK
  <2>3. InHand' = InHand
    BY <2>2 DEF InHand
  <2>4. LTypeOK'
    BY <2>1, <2>2, <2>3, <1>0 DEF LTypeOK
  <2>5. FlagInv'
    BY <2>1, <2>2, <2>3, <1>0 DEF FlagInv, InCycle, Visited
  <2>6. QED
    BY <2>1, <2>2, <2>4, <2>5, <1>0 DEF LiveInv, OrderInv, OutsideInv, InCycle
<1>10. CASE SetBack
  <2>1. InHand \in Source /\ Budget[InHand] \in Nat /\ InCycle
    BY <1>0, <1>10, HandFacts, LiveTypes DEF SetBack, InCycle, LTypeOK
  <2>2. /\ UNCHANGED <<answering, registered, savedStale, pc, at, stale, fresh, alive,
                       silent>>
        /\ age' = -1 /\ InHand' = InHand
    BY <1>10 DEF SetBack, InHand
  <2>3. LTypeOK'
    BY <2>1, <2>2, <1>0 DEF LTypeOK
  <2>4. FlagInv'
    BY <2>1, <2>2, <1>0 DEF FlagInv, InCycle, Visited
  <2>5. QED
    BY <2>1, <2>2, <2>3, <2>4, <1>0 DEF LiveInv, OrderInv, OutsideInv, InCycle
<1>11. CASE UNCHANGED liveVars
  BY <1>0, <1>11 DEF liveVars, frame, LiveInv, LTypeOK, FlagInv, OrderInv, OutsideInv,
                     InCycle, Visited, InHand
<1>12. QED
  BY <1>1, <1>2, <1>3, <1>4, <1>5, <1>6, <1>7, <1>8, <1>9, <1>10, <1>11
  DEF Next, Cycle

-----------------------------------------------------------------------------

\* The inductive invariant of the engine and its flags.
THEOREM LiveInvariant == Spec => []LiveInv
BY LiveInit, LiveStep, PTL DEF Spec

\* Every variable stays in its range and no source is listed twice
\* (kernel/state.py, flag_stale and clear_stale).
THEOREM LiveTypeCorrect == Spec => []LTypeOK
<1>1. LiveInv => LTypeOK
  BY DEF LiveInv
<1>2. QED
  BY <1>1, LiveInvariant, PTL

\* What counts as seen was seen in this cycle, and what is flagged was not
\* there or grew old in it (livereference/engine.py, read_all).
THEOREM FlagsAreTrue == Spec => []FlagsTellTheTruth
<1>1. LiveInv => FlagsTellTheTruth
  <2>1. SUFFICES ASSUME LiveInv, InCycle
                 PROVE  /\ fresh \subseteq alive
                        /\ \A i \in DOMAIN registered :
                             i < at /\ registered[i] \in Names(stale)
                               => registered[i] \in silent
    BY DEF FlagsTellTheTruth, InCycle
  <2>2. LTypeOK /\ FlagInv
    BY <2>1 DEF LiveInv
  <2>3. \A i \in DOMAIN registered : i < at => i \in 1..(at - 1)
    BY <2>2, LiveTypes
  <2>4. QED
    BY <2>1, <2>2, <2>3 DEF FlagInv
<1>2. QED
  BY <1>1, LiveInvariant, PTL

\* At the checkpoint every registered source was visited.
LEMMA AllVisited ==
  ASSUME LiveInv, Checkpoint
  PROVE  /\ Names(savedStale') = (Names(savedStale) \cup Names(registered)) \ fresh
         /\ fresh \subseteq Names(registered)
         /\ KeepsOrder(savedStale', savedStale)
<1>1. LTypeOK /\ FlagInv /\ OrderInv /\ InCycle
  BY DEF LiveInv, Checkpoint, InCycle
<1>2. at - 1 = Len(registered) /\ DOMAIN registered = 1..Len(registered)
  BY <1>1, LiveTypes DEF Checkpoint
<1>3. Visited = Names(registered)
  BY <1>2 DEF Visited, Names
<1>4. QED
  BY <1>1, <1>3 DEF FlagInv, OrderInv, Checkpoint

\* A reading in hand is of a registered source.
ViewInv == WithinBudget \subseteq Names(registered)

LEMMA ViewFacts == LTypeOK => ViewInv
<1>1. ASSUME LTypeOK, pc = "judge" PROVE InHand \in Names(registered)
  <2>1. at \in DOMAIN registered
    BY <1>1, LiveTypes DEF LTypeOK
  <2>2. QED
    BY <2>1 DEF Names, InHand
<1>2. QED
  BY <1>1 DEF WithinBudget, ViewInv

\* The engine and the flags of the state row (livereference/engine.py,
\* kernel/state.py) implement Sight: after each checkpoint a registered source
\* is flagged unless that cycle had a reading of it within its budget, and no
\* other flag has gone.
THEOREM LiveRefinement == Spec => SeesAsSightDoes
<1>1. Init => Seen!Init
  BY DEF Init, Seen!Init, Names, WithinBudget
<1>2. LiveInv => ViewInv
  BY ViewFacts DEF LiveInv
<1>3. LiveInv /\ LiveInv' /\ ViewInv' /\ [Next]_liveVars
        => [Seen!Next]_<<Names(registered), WithinBudget, fresh, Names(savedStale)>>
  <2> SUFFICES ASSUME LiveInv, LiveInv', ViewInv', [Next]_liveVars
               PROVE  [Seen!Next]_<<Names(registered), WithinBudget, fresh, Names(savedStale)>>
    OBVIOUS
  <2>0. /\ WithinBudget' \subseteq Names(registered)'
        /\ pc' # "judge" => WithinBudget' = {}
    BY DEF ViewInv, WithinBudget
  <2>1. CASE Checkpoint
    <3>1. Names(registered)' = Names(registered)
      BY <2>1 DEF Checkpoint, Names
    <3>2. Names(savedStale)' = (Names(savedStale) \cup Names(registered)) \ fresh
      BY <2>1, AllVisited DEF Names
    <3>3. WithinBudget' = {} /\ fresh' = {}
      BY <2>0, <2>1 DEF Checkpoint, Forget
    <3>4. QED
      BY <3>1, <3>2, <3>3 DEF Seen!Look, Seen!Next
  <2>2. CASE CutShort
    <3>1. UNCHANGED <<Names(registered), Names(savedStale)>>
      BY <2>2 DEF CutShort, Names
    <3>2. WithinBudget' = {} /\ fresh' = {}
      BY <2>0, <2>2 DEF CutShort, Forget
    <3>3. QED
      BY <3>1, <3>2 DEF Seen!GiveUp, Seen!Next
  <2>3. CASE Kill \/ Restart
    <3>1. Names(savedStale)' = Names(savedStale)
      BY <2>3 DEF Kill, Restart, Names
    <3>2. registered' \in Seq(Source)
      BY DEF LiveInv, LTypeOK
    <3>3. Names(registered)' \in SUBSET Source
      BY <3>2, SeqFacts DEF Names
    <3>4. WithinBudget' = {} /\ fresh' = {}
      BY <2>0, <2>3 DEF Kill, Forget, Restart, frame, LiveInv, OutsideInv, InCycle
    <3>5. QED
      BY <3>1, <3>3, <3>4 DEF Seen!Assemble, Seen!Next
  <2>4. CASE Judge /\ age <= Budget[InHand]
    <3>1. UNCHANGED <<Names(registered), Names(savedStale)>>
      BY <2>4 DEF Judge, Names
    <3>2. LTypeOK /\ pc = "judge" /\ at <= Len(registered)
      BY <2>4 DEF Judge, LiveInv, LTypeOK
    <3>3. age \in Int /\ Budget[InHand] \in Nat
      BY <3>2, HandFacts, LiveTypes DEF LTypeOK, InCycle
    <3>4. InHand \in WithinBudget /\ fresh' = fresh \cup {InHand}
      BY <2>4, <3>2, <3>3 DEF Judge, WithinBudget
    <3>5. QED
      BY <2>0, <3>1, <3>4 DEF Seen!See, Seen!Views, Seen!Next
  <2>5. CASE Judge /\ ~(age <= Budget[InHand])
    <3>1. UNCHANGED <<Names(registered), Names(savedStale)>>
      BY <2>5 DEF Judge, Names
    <3>2. LTypeOK /\ pc = "judge" /\ at <= Len(registered)
      BY <2>5 DEF Judge, LiveInv, LTypeOK
    <3>3. age \in Int /\ Budget[InHand] \in Nat
      BY <3>2, HandFacts, LiveTypes DEF LTypeOK, InCycle
    <3>4. fresh' = fresh
      BY <2>5, <3>3 DEF Judge
    <3>5. QED
      BY <2>0, <3>1, <3>4 DEF Seen!Vary, Seen!Views, Seen!Next
  <2>6. CASE Recover \/ ReadRaises \/ ReadReturns \/ Change \/ Grow \/ SetBack
    <3>1. UNCHANGED <<registered, savedStale, fresh>>
      BY <2>6 DEF Recover, ReadRaises, ReadReturns, Change, Grow, SetBack
    <3>2. UNCHANGED <<Names(registered), Names(savedStale)>>
      BY <3>1 DEF Names
    <3>3. QED
      BY <2>0, <3>1, <3>2 DEF Seen!Vary, Seen!Views, Seen!Next
  <2>7. CASE UNCHANGED liveVars
    BY <2>7 DEF liveVars, frame, Names, WithinBudget, InHand
  <2>8. QED
    BY <2>1, <2>2, <2>3, <2>4, <2>5, <2>6, <2>7 DEF Next, Cycle
<1>4. QED
  BY <1>1, <1>2, <1>3, LiveInvariant, PTL DEF Spec, SeesAsSightDoes, Seen!Spec

\* The flags saved keep the order of those saved before (kernel/state.py,
\* flag_stale), so the source lost for longest is the one reported.
THEOREM OldestFlagFirst == Spec => LongestLostStaysFirst
<1> DEFINE Kept == \A i, j \in DOMAIN savedStale' :
       (i < j /\ savedStale'[j] \in Names(savedStale)) =>
         \E k, l \in DOMAIN savedStale :
           k < l /\ savedStale[k] = savedStale'[i] /\ savedStale[l] = savedStale'[j]
<1>1. LiveInv /\ [Next]_liveVars => [Kept]_liveVars
  <2> SUFFICES ASSUME LiveInv, [Next]_liveVars PROVE Kept
    OBVIOUS
  <2>1. CASE Checkpoint
    BY <2>1, AllVisited DEF KeepsOrder
  <2>2. CASE UNCHANGED savedStale
    BY <2>2
  <2>3. QED
    BY <2>1, <2>2 DEF Next, Cycle, Recover, ReadRaises, ReadReturns, Judge, CutShort,
                      Kill, Restart, Change, Grow, SetBack, liveVars
<1>2. QED
  BY <1>1, LiveInvariant, PTL DEF Spec, LongestLostStaysFirst
=============================================================================

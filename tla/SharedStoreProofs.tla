-------------------------- MODULE SharedStoreProofs -------------------------
(***************************************************************************)
(* The invariants of SharedStore, for any number of processes and cycles   *)
(* and any course of the clock.                                            *)
(***************************************************************************)
EXTENDS SharedStore, SequenceTheorems, TLAPS

Running == {"act", "stamp", "append", "record", "checkpoint"}

\* Row r was the last receipt by time when there were s of them.
WasLast(rows, r, s) ==
  /\ s > 0 => r > 0
  /\ \A k \in 1..s : rows[k].at <= rows[r].at

\* What a process holds between its look-up and its append: the row it took
\* for the last one, of the rows there were; and so does every receipt.
ChainInv ==
  /\ SharedTypeOK
  /\ \A p \in Process : /\ prev[p] <= seen[p] /\ seen[p] <= Len(receipts)
                        /\ pc[p] \in {"stamp", "append"} => WasLast(receipts, prev[p], seen[p])
  /\ \A i \in DOMAIN receipts : WasLast(receipts, receipts[i].prev, receipts[i].seen)

\* While the clock is not set back, nothing is stamped later than now, nor
\* earlier than what it follows.
TimeInv ==
  ~setBack =>
    /\ \A i \in DOMAIN receipts : receipts[i].at <= now
    /\ \A p \in Process : pc[p] = "append" =>
         /\ stamp[p] <= now
         /\ prev[p] # 0 => receipts[prev[p]].at <= stamp[p]
    /\ TimeFollowsTheChain

Charged(n) == \E j \in DOMAIN ledger : ledger[j] = n

\* The events a running cycle builds on, and the one it leaves.
NumberInv ==
  /\ NumbersHaveNoGaps
  /\ \A p \in Process : pc[p] \in Running => \A n \in 1..(cycle[p] - 1) : Charged(n)
  /\ \A p \in Process : pc[p] = "checkpoint" => Charged(cycle[p])

-----------------------------------------------------------------------------

LEMMA OneMore ==
  ASSUME NEW S, NEW s \in Seq(S), NEW e \in S
  PROVE  /\ Append(s, e) \in Seq(S)
         /\ Len(s) \in Nat
         /\ DOMAIN s = 1..Len(s)
         /\ DOMAIN Append(s, e) = 1..(Len(s) + 1)
         /\ Len(Append(s, e)) = Len(s) + 1
         /\ \A i \in 1..Len(s) : Append(s, e)[i] = s[i]
         /\ Append(s, e)[Len(s) + 1] = e
BY AppendProperties, LenProperties

LEMMA ChainInit == Init => ChainInv /\ TimeInv /\ NumberInv
<1> SUFFICES ASSUME Init PROVE ChainInv /\ TimeInv /\ NumberInv
  OBVIOUS
<1>1. DOMAIN receipts = {} /\ DOMAIN ledger = {} /\ Len(receipts) = 0
  BY DEF Init
<1>2. SharedTypeOK
  <2>1. receipts \in Seq(Receipt) /\ ledger \in Seq(Nat)
    BY DEF Init
  <2>2. /\ now \in 0..MaxTime /\ started \in 0..MaxCycles /\ saved \in Nat
        /\ stamp \in [Process -> 0..MaxTime]
    BY SharedAssumption DEF Init
  <2>3. /\ pc \in [Process -> Steps] /\ cycle \in [Process -> Nat]
        /\ prev \in [Process -> Nat] /\ seen \in [Process -> Nat]
        /\ setBack \in BOOLEAN
    BY DEF Init, Steps
  <2>4. QED
    BY <1>1, <2>1, <2>2, <2>3 DEF SharedTypeOK
<1>3. ChainInv
  BY <1>1, <1>2 DEF Init, ChainInv
<1>4. TimeInv
  BY <1>1 DEF Init, TimeInv, TimeFollowsTheChain
<1>5. NumberInv
  BY <1>1 DEF Init, NumberInv, NumbersHaveNoGaps, Running
<1>6. QED
  BY <1>3, <1>4, <1>5

LEMMA RowFields ==
  ASSUME SharedTypeOK
  PROVE  /\ receipts \in Seq(Receipt) /\ Len(receipts) \in Nat
         /\ DOMAIN receipts = 1..Len(receipts)
         /\ \A i \in 1..Len(receipts) :
              /\ receipts[i].prev \in Nat /\ receipts[i].seen \in Nat
              /\ receipts[i].at \in Nat
              /\ receipts[i].prev <= receipts[i].seen /\ receipts[i].seen < i
<1>1. receipts \in Seq(Receipt)
  BY DEF SharedTypeOK
<1>2. Len(receipts) \in Nat /\ DOMAIN receipts = 1..Len(receipts)
  BY <1>1, LenProperties
<1>3. \A i \in 1..Len(receipts) : receipts[i] \in Receipt
  BY <1>1, ElementOfSeq
<1>4. \A i \in 1..Len(receipts) :
        /\ receipts[i].prev \in Nat /\ receipts[i].seen \in Nat
        /\ receipts[i].at \in Nat
  BY <1>3, SharedAssumption DEF Receipt
<1>5. QED
  BY <1>1, <1>2, <1>4 DEF SharedTypeOK

LEMMA ChainStep == ChainInv /\ [Next]_sharedVars => ChainInv'
<1> SUFFICES ASSUME ChainInv, [Next]_sharedVars PROVE ChainInv'
  OBVIOUS
<1> USE DEF clock, tables, frame
<1>0. /\ SharedTypeOK
      /\ receipts \in Seq(Receipt) /\ Len(receipts) \in Nat
      /\ DOMAIN receipts = 1..Len(receipts)
      /\ \A i \in 1..Len(receipts) :
           /\ receipts[i].prev \in Nat /\ receipts[i].seen \in Nat
           /\ receipts[i].at \in Nat
           /\ receipts[i].prev <= receipts[i].seen /\ receipts[i].seen < i
  BY RowFields DEF ChainInv
<1>1. ASSUME NEW p \in Process, Recover(p) PROVE ChainInv'
  <2>1. SharedTypeOK'
    BY <1>0, <1>1, SharedAssumption DEF Recover, Goes, SharedTypeOK, Steps
  <2>2. QED
    BY <2>1, <1>0, <1>1 DEF Recover, Goes, ChainInv, WasLast, SharedTypeOK
<1>2. ASSUME NEW p \in Process, HeldBack(p) PROVE ChainInv'
  <2>1. SharedTypeOK'
    BY <1>0, <1>2 DEF HeldBack, Goes, SharedTypeOK, Steps
  <2>2. QED
    BY <2>1, <1>0, <1>2 DEF HeldBack, Goes, ChainInv, WasLast, SharedTypeOK
<1>3. ASSUME NEW p \in Process, LookUp(p) PROVE ChainInv'
  <2>1. PICK r \in LastReceipts(receipts) : prev' = [prev EXCEPT ![p] = r]
    BY <1>3 DEF LookUp
  <2>2. r \in Nat /\ r <= Len(receipts) /\ WasLast(receipts, r, Len(receipts))
    <3>1. CASE receipts = <<>>
      BY <3>1, <2>1 DEF LastReceipts, WasLast
    <3>2. CASE receipts # <<>>
      BY <3>2, <2>1, <1>0 DEF LastReceipts, WasLast
    <3>3. QED
      BY <3>1, <3>2
  <2>3. SharedTypeOK'
    BY <1>0, <1>3, <2>1, <2>2 DEF LookUp, Goes, SharedTypeOK, Steps
  <2>4. QED
    BY <2>1, <2>2, <2>3, <1>0, <1>3 DEF LookUp, Goes, ChainInv, WasLast, SharedTypeOK
<1>4. ASSUME NEW p \in Process, Stamp(p) PROVE ChainInv'
  <2>1. SharedTypeOK'
    BY <1>0, <1>4 DEF Stamp, Goes, SharedTypeOK, Steps
  <2>2. QED
    BY <2>1, <1>0, <1>4 DEF Stamp, Goes, ChainInv, WasLast, SharedTypeOK
<1>5. ASSUME NEW p \in Process, AppendReceipt(p) PROVE ChainInv'
  <2> DEFINE e == [prev |-> prev[p], at |-> stamp[p], seen |-> seen[p]]
  <2>1. e \in Receipt /\ receipts' = Append(receipts, e)
    BY <1>0, <1>5 DEF AppendReceipt, SharedTypeOK, Receipt
  <2>2. /\ prev[p] \in Nat /\ seen[p] \in Nat /\ prev[p] <= seen[p]
        /\ seen[p] <= Len(receipts) /\ WasLast(receipts, prev[p], seen[p])
    BY <1>0, <1>5 DEF AppendReceipt, Goes, SharedTypeOK, ChainInv
  <2>3. /\ receipts' \in Seq(Receipt) /\ Len(receipts') = Len(receipts) + 1
        /\ DOMAIN receipts' = 1..(Len(receipts) + 1)
        /\ \A i \in 1..Len(receipts) : receipts'[i] = receipts[i]
        /\ receipts'[Len(receipts) + 1] = e
    <3> HIDE DEF e
    <3> QED BY <1>0, <2>1, OneMore
  <2>4. SharedTypeOK'
    <3>1. \A i \in DOMAIN receipts' :
            receipts'[i].prev <= receipts'[i].seen /\ receipts'[i].seen < i
      BY <1>0, <2>2, <2>3
    <3>2. QED
      BY <1>0, <1>5, <2>3, <3>1 DEF AppendReceipt, Goes, SharedTypeOK, Steps
  <2>5. \A i \in DOMAIN receipts' : WasLast(receipts', receipts'[i].prev, receipts'[i].seen)
    <3>1. SUFFICES ASSUME NEW i \in 1..(Len(receipts) + 1)
                   PROVE  WasLast(receipts', receipts'[i].prev, receipts'[i].seen)
      BY <2>3
    <3>2. CASE i = Len(receipts) + 1
      <4>1. WasLast(receipts', prev[p], seen[p])
        <5>1. \A k \in 1..seen[p] : receipts'[k].at <= receipts'[prev[p]].at
          BY <2>2, <2>3, <1>0 DEF WasLast
        <5>2. QED
          BY <5>1, <2>2 DEF WasLast
      <4>2. QED
        BY <4>1, <3>2, <2>3
    <3>3. CASE i \in 1..Len(receipts)
      <4> DEFINE r == receipts[i].prev  s == receipts[i].seen
      <4>1. r \in Nat /\ s \in Nat /\ r <= s /\ s <= Len(receipts) /\ WasLast(receipts, r, s)
        <5>1. WasLast(receipts, r, s)
          BY <1>0, <3>3 DEF ChainInv
        <5>2. QED
          BY <5>1, <1>0, <3>3
      <4>2. \A k \in 1..s : receipts'[k].at <= receipts'[r].at
        BY <4>1, <2>3, <1>0 DEF WasLast
      <4>3. receipts'[i] = receipts[i]
        BY <2>3, <3>3
      <4>4. QED
        BY <4>1, <4>2, <4>3 DEF WasLast
    <3>4. QED
      BY <3>2, <3>3, <1>0
  <2>6. ASSUME NEW q \in Process
        PROVE  /\ prev'[q] <= seen'[q] /\ seen'[q] <= Len(receipts')
               /\ pc'[q] \in {"stamp", "append"} => WasLast(receipts', prev'[q], seen'[q])
    <3>1. /\ prev[q] \in Nat /\ seen[q] \in Nat /\ prev[q] <= seen[q]
          /\ seen[q] <= Len(receipts)
      BY <1>0 DEF SharedTypeOK, ChainInv
    <3>2. prev' = prev /\ seen' = seen
      BY <1>5 DEF AppendReceipt
    <3>3. ASSUME pc'[q] \in {"stamp", "append"} PROVE WasLast(receipts', prev'[q], seen'[q])
      <4>1. WasLast(receipts, prev[q], seen[q])
        BY <1>0, <1>5, <3>3 DEF AppendReceipt, Goes, SharedTypeOK, ChainInv
      <4>2. \A k \in 1..seen[q] : receipts'[k].at <= receipts'[prev[q]].at
        BY <4>1, <3>1, <2>3, <1>0 DEF WasLast
      <4>3. QED
        BY <4>1, <4>2, <3>2 DEF WasLast
    <3>4. QED
      BY <3>1, <3>2, <3>3, <2>3, <1>0
  <2>7. QED
    BY <2>4, <2>5, <2>6 DEF ChainInv
<1>6. ASSUME NEW p \in Process, AppendEvent(p) PROVE ChainInv'
  <2>1. ledger' \in Seq(Nat)
    BY <1>0, <1>6, OneMore DEF AppendEvent, SharedTypeOK
  <2>2. SharedTypeOK'
    BY <1>0, <1>6, <2>1 DEF AppendEvent, Goes, SharedTypeOK, Steps
  <2>3. QED
    BY <2>2, <1>0, <1>6 DEF AppendEvent, Goes, ChainInv, WasLast, SharedTypeOK
<1>7. ASSUME NEW p \in Process, Checkpoint(p) PROVE ChainInv'
  <2>1. SharedTypeOK'
    BY <1>0, <1>7, SharedAssumption DEF Checkpoint, Leaves, SharedTypeOK, Steps
  <2>2. QED
    BY <2>1, <1>0, <1>7 DEF Checkpoint, Leaves, ChainInv, WasLast, SharedTypeOK
<1>8. ASSUME NEW p \in Process, CutShort(p) PROVE ChainInv'
  <2>1. SharedTypeOK'
    BY <1>0, <1>8, SharedAssumption DEF CutShort, Leaves, SharedTypeOK, Steps
  <2>2. QED
    BY <2>1, <1>0, <1>8 DEF CutShort, Leaves, ChainInv, WasLast, SharedTypeOK
<1>9. CASE Tick \/ SetBack \/ UNCHANGED sharedVars
  <2>1. /\ now' \in 0..MaxTime /\ setBack' \in BOOLEAN
        /\ UNCHANGED <<started, tables, pc, frame>>
    <3>1. now \in 0..MaxTime /\ setBack \in BOOLEAN
      BY <1>0 DEF SharedTypeOK
    <3>2. CASE Tick
      BY <3>1, <3>2, SharedAssumption DEF Tick
    <3>3. CASE SetBack
      BY <3>1, <3>3 DEF SetBack
    <3>4. CASE UNCHANGED sharedVars
      BY <3>1, <3>4 DEF sharedVars
    <3>5. QED
      BY <1>9, <3>2, <3>3, <3>4
  <2>2. SharedTypeOK'
    BY <1>0, <2>1 DEF SharedTypeOK
  <2>3. QED
    BY <2>1, <2>2 DEF ChainInv
<1>10. QED
  BY <1>1, <1>2, <1>3, <1>4, <1>5, <1>6, <1>7, <1>8, <1>9 DEF Next, Step

LEMMA TimeStep == ChainInv /\ TimeInv /\ [Next]_sharedVars => TimeInv'
<1> SUFFICES ASSUME ChainInv, TimeInv, [Next]_sharedVars, ~setBack' PROVE TimeInv'
  BY DEF TimeInv
<1> USE DEF clock, tables, frame
<1>0. /\ SharedTypeOK
      /\ receipts \in Seq(Receipt) /\ Len(receipts) \in Nat
      /\ DOMAIN receipts = 1..Len(receipts)
      /\ \A i \in 1..Len(receipts) :
           /\ receipts[i].prev \in Nat /\ receipts[i].at \in Nat
           /\ receipts[i].prev < i
      /\ now \in Nat
  <2>1. SharedTypeOK
    BY DEF ChainInv
  <2>2. now \in Nat
    BY <2>1, SharedAssumption DEF SharedTypeOK
  <2>3. \A i \in 1..Len(receipts) : receipts[i].prev < i
    BY <2>1, RowFields
  <2>4. QED
    BY <2>1, <2>2, <2>3, RowFields
<1>1. ASSUME NEW p \in Process,
             Recover(p) \/ HeldBack(p) \/ AppendEvent(p) PROVE TimeInv'
  BY <1>0, <1>1 DEF Recover, HeldBack, AppendEvent, Goes, SharedTypeOK, TimeInv,
                    TimeFollowsTheChain
<1>2. ASSUME NEW p \in Process, LookUp(p) PROVE TimeInv'
  BY <1>0, <1>2 DEF LookUp, Goes, SharedTypeOK, TimeInv, TimeFollowsTheChain
<1>3. ASSUME NEW p \in Process, Stamp(p) PROVE TimeInv'
  <2>1. prev[p] \in Nat /\ prev[p] <= Len(receipts)
    BY <1>0 DEF ChainInv, SharedTypeOK
  <2>2. stamp'[p] = now /\ (prev[p] # 0 => receipts[prev[p]].at <= now)
    BY <1>0, <1>3, <2>1 DEF Stamp, Goes, SharedTypeOK, TimeInv
  <2>3. QED
    BY <1>0, <1>3, <2>2 DEF Stamp, Goes, SharedTypeOK, TimeInv, TimeFollowsTheChain
<1>4. ASSUME NEW p \in Process, AppendReceipt(p) PROVE TimeInv'
  <2> DEFINE e == [prev |-> prev[p], at |-> stamp[p], seen |-> seen[p]]
  <2>1. e \in Receipt /\ receipts' = Append(receipts, e)
    BY <1>0, <1>4 DEF AppendReceipt, SharedTypeOK, Receipt
  <2>2. /\ DOMAIN receipts' = 1..(Len(receipts) + 1)
        /\ \A i \in 1..Len(receipts) : receipts'[i] = receipts[i]
        /\ receipts'[Len(receipts) + 1] = e
    <3> HIDE DEF e
    <3> QED BY <1>0, <2>1, OneMore
  <2>3. /\ e.prev = prev[p] /\ e.at = stamp[p] /\ stamp[p] <= now
        /\ prev[p] \in Nat /\ prev[p] <= Len(receipts)
        /\ prev[p] # 0 => receipts[prev[p]].at <= stamp[p]
    BY <1>0, <1>4 DEF AppendReceipt, Goes, SharedTypeOK, TimeInv, ChainInv
  <2>4. \A i \in DOMAIN receipts' : receipts'[i].at <= now
    BY <1>0, <1>4, <2>2, <2>3 DEF AppendReceipt, TimeInv
  <2>5. \A q \in Process : pc'[q] = "append" =>
          stamp[q] <= now /\ (prev[q] # 0 => receipts'[prev[q]].at <= stamp[q])
    <3>1. \A q \in Process : prev[q] \in Nat /\ prev[q] <= Len(receipts)
      BY <1>0 DEF ChainInv, SharedTypeOK
    <3>2. \A q \in Process : pc'[q] = "append" => pc[q] = "append"
      BY <1>0, <1>4 DEF AppendReceipt, Goes, SharedTypeOK
    <3>3. QED
      BY <1>0, <1>4, <2>2, <3>1, <3>2 DEF AppendReceipt, TimeInv
  <2>6. \A i \in DOMAIN receipts' :
          receipts'[i].prev # 0 => receipts'[receipts'[i].prev].at <= receipts'[i].at
    <3>1. SUFFICES ASSUME NEW i \in 1..(Len(receipts) + 1), receipts'[i].prev # 0
                   PROVE  receipts'[receipts'[i].prev].at <= receipts'[i].at
      BY <2>2
    <3>2. CASE i = Len(receipts) + 1
      BY <3>1, <3>2, <2>2, <2>3, <1>0
    <3>3. CASE i \in 1..Len(receipts)
      <4>1. receipts[i].prev \in 1..Len(receipts)
        BY <3>1, <3>3, <2>2, <1>0
      <4>2. receipts[receipts[i].prev].at <= receipts[i].at
        <5>1. TimeFollowsTheChain /\ ~setBack
          BY <1>4 DEF AppendReceipt, TimeInv
        <5>2. QED
          BY <5>1, <4>1, <3>3, <1>0 DEF TimeFollowsTheChain
      <4>3. QED
        BY <4>1, <4>2, <3>3, <2>2
    <3>4. QED
      BY <3>2, <3>3, <1>0
  <2>7. QED
    BY <1>4, <2>4, <2>5, <2>6 DEF AppendReceipt, TimeInv, TimeFollowsTheChain
<1>5. ASSUME NEW p \in Process, Checkpoint(p) \/ CutShort(p) PROVE TimeInv'
  <2>1. /\ UNCHANGED <<now, setBack, receipts>>
        /\ \A q \in Process : pc'[q] = "append" =>
             /\ pc[q] = "append"
             /\ stamp'[q] = stamp[q] /\ prev'[q] = prev[q]
    BY <1>0, <1>5 DEF Checkpoint, CutShort, Leaves, SharedTypeOK
  <2>2. QED
    BY <2>1 DEF TimeInv, TimeFollowsTheChain
<1>6. CASE Tick
  <2>1. /\ now' = now + 1 /\ UNCHANGED <<setBack, receipts, pc, prev, stamp>>
        /\ \A q \in Process : stamp[q] \in Nat
    BY <1>0, <1>6 DEF Tick, SharedTypeOK
  <2>2. QED
    BY <1>0, <2>1 DEF TimeInv, TimeFollowsTheChain
<1>7. CASE SetBack \/ UNCHANGED sharedVars
  BY <1>7 DEF SetBack, sharedVars, TimeInv, TimeFollowsTheChain
<1>8. QED
  BY <1>1, <1>2, <1>3, <1>4, <1>5, <1>6, <1>7 DEF Next, Step

LEMMA NumberStep == ChainInv /\ NumberInv /\ [Next]_sharedVars => NumberInv'
<1> SUFFICES ASSUME ChainInv, NumberInv, [Next]_sharedVars PROVE NumberInv'
  OBVIOUS
<1> USE DEF clock, tables, frame
<1>0. /\ SharedTypeOK /\ saved \in Nat
      /\ ledger \in Seq(Nat) /\ Len(ledger) \in Nat /\ DOMAIN ledger = 1..Len(ledger)
      /\ \A i \in DOMAIN ledger : ledger[i] \in Nat
  BY LenProperties, ElementOfSeq DEF ChainInv, SharedTypeOK
<1>1. ASSUME NEW p \in Process, Recover(p) PROVE NumberInv'
  <2>1. \A n \in 1..saved : Charged(n)
    <3>1. SUFFICES ASSUME NEW n \in 1..saved, n # saved PROVE Charged(n)
      BY <1>0 DEF NumberInv, NumbersHaveNoGaps, Charged
    <3>2. NumbersHaveNoGaps
      BY DEF NumberInv
    <3>3. PICK i \in DOMAIN ledger : ledger[i] = saved
      BY <1>0, <3>1, <3>2 DEF NumbersHaveNoGaps
    <3>4. n \in 1..(ledger[i] - 1)
      BY <1>0, <3>1, <3>3
    <3>5. PICK j \in 1..(i - 1) : ledger[j] = n
      BY <3>2, <3>4 DEF NumbersHaveNoGaps
    <3>6. j \in DOMAIN ledger
      BY <1>0, <3>3
    <3>7. QED
      BY <3>5, <3>6 DEF Charged
  <2>2. /\ ledger' = ledger /\ saved' = saved
        /\ \A q \in Process \ {p} : pc'[q] = pc[q] /\ cycle'[q] = cycle[q]
        /\ pc'[p] = "act" /\ cycle'[p] = saved + 1
    BY <1>0, <1>1 DEF Recover, Goes, SharedTypeOK
  <2>3. ASSUME NEW q \in Process, pc'[q] \in Running, NEW n \in 1..(cycle'[q] - 1)
        PROVE  Charged(n)
    <3>1. CASE q = p
      BY <3>1, <2>1, <2>2, <2>3, <1>0
    <3>2. CASE q # p
      BY <3>2, <2>2, <2>3 DEF NumberInv
    <3>3. QED
      BY <3>1, <3>2
  <2>4. ASSUME NEW q \in Process, pc'[q] = "checkpoint" PROVE Charged(cycle'[q])
    BY <2>2, <2>4 DEF NumberInv
  <2>5. QED
    BY <2>2, <2>3, <2>4 DEF NumberInv, NumbersHaveNoGaps, Charged
<1>2. ASSUME NEW p \in Process,
             HeldBack(p) \/ LookUp(p) \/ Stamp(p) \/ AppendReceipt(p) PROVE NumberInv'
  <2>1. /\ ledger' = ledger /\ saved' = saved /\ cycle' = cycle
        /\ \A q \in Process : /\ pc'[q] \in Running => pc[q] \in Running
                              /\ pc'[q] = "checkpoint" => pc[q] = "checkpoint"
    BY <1>0, <1>2 DEF HeldBack, LookUp, Stamp, AppendReceipt, Goes, SharedTypeOK, Running
  <2>2. QED
    BY <2>1 DEF NumberInv, NumbersHaveNoGaps, Charged
<1>3. ASSUME NEW p \in Process, AppendEvent(p) PROVE NumberInv'
  <2>1. cycle[p] \in Nat /\ ledger' = Append(ledger, cycle[p]) /\ saved' = saved
    BY <1>0, <1>3 DEF AppendEvent, SharedTypeOK
  <2>2. /\ DOMAIN ledger' = 1..(Len(ledger) + 1)
        /\ \A i \in 1..Len(ledger) : ledger'[i] = ledger[i]
        /\ ledger'[Len(ledger) + 1] = cycle[p]
    BY <1>0, <2>1, OneMore
  <2>3. \A n \in Nat : Charged(n) => Charged(n)'
    BY <1>0, <2>2 DEF Charged
  <2>4. \A n \in 1..(cycle[p] - 1) : \E j \in 1..Len(ledger) : ledger[j] = n
    BY <1>0, <1>3 DEF AppendEvent, Goes, NumberInv, Running, Charged
  <2>5. NumbersHaveNoGaps'
    <3>1. ASSUME NEW i \in 1..(Len(ledger) + 1), NEW n \in 1..(ledger'[i] - 1)
          PROVE  \E j \in 1..(i - 1) : ledger'[j] = n
      <4>1. CASE i = Len(ledger) + 1
        BY <4>1, <3>1, <2>2, <2>4, <1>0
      <4>2. CASE i \in 1..Len(ledger)
        <5>1. n \in 1..(ledger[i] - 1)
          BY <4>2, <3>1, <2>2
        <5>2. PICK j \in 1..(i - 1) : ledger[j] = n
          BY <5>1, <4>2, <1>0 DEF NumberInv, NumbersHaveNoGaps
        <5>3. j \in 1..Len(ledger) /\ Len(ledger) \in Nat
          BY <4>2, <5>2, <1>0
        <5>4. QED
          BY <5>2, <5>3, <2>2
      <4>3. QED
        BY <4>1, <4>2, <1>0
    <3>2. saved' # 0 => \E i \in DOMAIN ledger' : ledger'[i] = saved'
      BY <1>0, <2>1, <2>2 DEF NumberInv, NumbersHaveNoGaps
    <3>3. QED
      BY <3>1, <3>2, <2>2 DEF NumbersHaveNoGaps
  <2>6. /\ cycle' = cycle /\ Charged(cycle[p])'
        /\ \A q \in Process : /\ pc'[q] \in Running => pc[q] \in Running
                              /\ pc'[q] = "checkpoint" => q = p \/ pc[q] = "checkpoint"
        /\ \A q \in Process : cycle[q] \in Nat
    <3>1. Charged(cycle[p])'
      BY <1>0, <1>3, <2>2 DEF Charged, AppendEvent
    <3>2. QED
      BY <3>1, <1>0, <1>3 DEF AppendEvent, Goes, SharedTypeOK, Running
  <2>7. ASSUME NEW q \in Process, pc'[q] \in Running, NEW n \in 1..(cycle[q] - 1)
        PROVE  Charged(n)'
    BY <2>3, <2>6, <2>7 DEF NumberInv
  <2>8. ASSUME NEW q \in Process, pc'[q] = "checkpoint" PROVE Charged(cycle[q])'
    <3>1. CASE q = p
      BY <3>1, <2>6
    <3>2. CASE pc[q] = "checkpoint"
      <4>1. \E j \in DOMAIN ledger : ledger[j] = cycle[q]
        BY <3>2 DEF NumberInv, Charged
      <4>2. QED
        BY <4>1, <1>0, <2>2, <2>6 DEF Charged
    <3>3. QED
      BY <3>1, <3>2, <2>6, <2>8
  <2>9. QED
    BY <2>5, <2>6, <2>7, <2>8 DEF NumberInv
<1>4. ASSUME NEW p \in Process, Checkpoint(p) PROVE NumberInv'
  <2>1. ledger' = ledger /\ saved' = cycle[p] /\ Charged(cycle[p])
    BY <1>4 DEF Checkpoint, NumberInv
  <2>2. NumbersHaveNoGaps'
    BY <2>1 DEF NumberInv, NumbersHaveNoGaps, Charged
  <2>3. \A q \in Process : /\ pc'[q] \in Running => pc[q] \in Running /\ cycle'[q] = cycle[q]
                           /\ pc'[q] = "checkpoint" => pc[q] = "checkpoint"
    BY <1>0, <1>4 DEF Checkpoint, Leaves, SharedTypeOK, Running
  <2>4. QED
    BY <2>1, <2>2, <2>3 DEF NumberInv, Charged, Running
<1>5. ASSUME NEW p \in Process, CutShort(p) PROVE NumberInv'
  <2>1. \A q \in Process : /\ pc'[q] \in Running => pc[q] \in Running /\ cycle'[q] = cycle[q]
                           /\ pc'[q] = "checkpoint" => pc[q] = "checkpoint"
    BY <1>0, <1>5 DEF CutShort, Leaves, SharedTypeOK, Running
  <2>2. ledger' = ledger /\ saved' = saved
    BY <1>5 DEF CutShort
  <2>3. QED
    BY <2>1, <2>2 DEF NumberInv, NumbersHaveNoGaps, Charged, Running
<1>6. CASE Tick \/ SetBack \/ UNCHANGED sharedVars
  BY <1>6 DEF Tick, SetBack, sharedVars, NumberInv, NumbersHaveNoGaps, Charged
<1>7. QED
  BY <1>1, <1>2, <1>3, <1>4, <1>5, <1>6 DEF Next, Step

-----------------------------------------------------------------------------

\* The inductive invariant of the chain, the times and the numbers.
THEOREM SharedInvariant == Spec => [](ChainInv /\ TimeInv /\ NumberInv)
BY ChainInit, ChainStep, TimeStep, NumberStep, PTL DEF Spec

\* Every variable stays in its range and every chain ends at GENESIS
\* (store/db.py, last_receipt_hash), for any number of processes.
THEOREM SharedTypeCorrect == Spec => []SharedTypeOK
<1>1. ChainInv => SharedTypeOK
  BY DEF ChainInv
<1>2. QED
  BY <1>1, SharedInvariant, PTL

\* Two receipts follow the same one (receipts.py) only for one of the two
\* reasons ForksHaveACause names.
THEOREM ForksAreExplained == Spec => []ForksHaveACause
<1>1. ChainInv => ForksHaveACause
  <2>1. SUFFICES ASSUME ChainInv, NEW i \in DOMAIN receipts, NEW j \in DOMAIN receipts,
                        i < j, receipts[i].prev = receipts[j].prev,
                        ~(receipts[j].seen < i)
                 PROVE  /\ receipts[i].prev # 0
                        /\ receipts[i].at <= receipts[receipts[i].prev].at
    BY DEF ForksHaveACause
  <2>2. receipts[j] \in Receipt /\ i \in Nat /\ i > 0
    BY <2>1, LenProperties, ElementOfSeq DEF ChainInv, SharedTypeOK
  <2>3. i \in 1..receipts[j].seen /\ receipts[j].seen > 0
    BY <2>1, <2>2 DEF Receipt
  <2>4. QED
    BY <2>1, <2>2, <2>3 DEF ChainInv, WasLast, Receipt
<1>2. QED
  BY <1>1, SharedInvariant, PTL

\* Under a clock that is not set back, created_at never decreases along a
\* chain (store/db.py, last_receipt_hash), however many processes append.
THEOREM TimeFollows == Spec => []TimeFollowsTheChain
<1>1. TimeInv => TimeFollowsTheChain
  BY DEF TimeInv, TimeFollowsTheChain
<1>2. QED
  BY <1>1, SharedInvariant, PTL

\* No cycle number is skipped (kernel/continuity.py, recover_or_init), though
\* a slow process may set the state row back.
THEOREM NoNumberIsSkipped == Spec => []NumbersHaveNoGaps
<1>1. NumberInv => NumbersHaveNoGaps
  BY DEF NumberInv
<1>2. QED
  BY <1>1, SharedInvariant, PTL

-----------------------------------------------------------------------------
(* One process alone. *)

\* "Each receipt chains to the previous one" (receipts.py), of receipts made at
\* times that are all different and in order.
ChainIsALine ==
  (\A i, j \in DOMAIN receipts : i < j => receipts[i].at < receipts[j].at) =>
    \A i \in DOMAIN receipts : receipts[i].prev = i - 1

\* No receipt is stored between a look-up and the append that follows it.
AloneInv ==
  /\ \A i \in DOMAIN receipts : receipts[i].seen = i - 1
  /\ \A p \in Process : pc[p] \in {"stamp", "append"} => seen[p] = Len(receipts)

LEMMA AloneStep ==
  ASSUME \A p, q \in Process : p = q, ChainInv, AloneInv, [Next]_sharedVars
  PROVE  AloneInv'
<1> USE DEF tables, frame
<1>0. SharedTypeOK /\ receipts \in Seq(Receipt)
  BY DEF ChainInv, SharedTypeOK
<1>1. ASSUME NEW p \in Process, AppendReceipt(p) PROVE AloneInv'
  <2> DEFINE e == [prev |-> prev[p], at |-> stamp[p], seen |-> seen[p]]
  <2>1. /\ e \in Receipt /\ receipts' = Append(receipts, e)
        /\ e.seen = Len(receipts)
        /\ \A q \in Process : pc'[q] = "record"
    BY <1>0, <1>1 DEF AppendReceipt, Goes, SharedTypeOK, Receipt, AloneInv
  <2>2. /\ Len(receipts) \in Nat
        /\ DOMAIN receipts = 1..Len(receipts)
        /\ DOMAIN receipts' = 1..(Len(receipts) + 1)
        /\ \A i \in 1..Len(receipts) : receipts'[i] = receipts[i]
        /\ receipts'[Len(receipts) + 1] = e
    <3> HIDE DEF e
    <3> QED BY <1>0, <2>1, OneMore
  <2> HIDE DEF e
  <2>3. ASSUME NEW i \in 1..(Len(receipts) + 1) PROVE receipts'[i].seen = i - 1
    BY <2>1, <2>2 DEF AloneInv
  <2>4. QED
    BY <2>1, <2>2, <2>3 DEF AloneInv
<1>2. ASSUME NEW p \in Process, LookUp(p) PROVE AloneInv'
  BY <1>0, <1>2 DEF LookUp, Goes, SharedTypeOK, AloneInv
<1>3. ASSUME NEW p \in Process,
             Recover(p) \/ HeldBack(p) \/ Stamp(p) \/ AppendEvent(p)
      PROVE  AloneInv'
  BY <1>0, <1>3 DEF Recover, HeldBack, Stamp, AppendEvent, Goes, SharedTypeOK, AloneInv
<1>4. ASSUME NEW p \in Process, Checkpoint(p) \/ CutShort(p) PROVE AloneInv'
  BY <1>0, <1>4 DEF Checkpoint, CutShort, Leaves, SharedTypeOK, AloneInv
<1>5. CASE Tick \/ SetBack \/ UNCHANGED sharedVars
  BY <1>5 DEF Tick, SetBack, sharedVars, AloneInv
<1>6. QED
  BY <1>1, <1>2, <1>3, <1>4, <1>5 DEF Next, Step

LEMMA AloneInALine ==
  ASSUME ChainInv, AloneInv
  PROVE  ChainIsALine
<1> SUFFICES ASSUME \A i, j \in DOMAIN receipts : i < j => receipts[i].at < receipts[j].at,
                    NEW i \in 1..Len(receipts)
             PROVE  receipts[i].prev = i - 1
  BY RowFields DEF ChainInv, ChainIsALine
<1> DEFINE r == receipts[i].prev
<1>1. /\ Len(receipts) \in Nat /\ DOMAIN receipts = 1..Len(receipts)
      /\ r \in Nat /\ r <= i - 1
      /\ \A k \in 1..Len(receipts) : receipts[k].at \in Nat
  BY RowFields DEF ChainInv, AloneInv
<1>2. (i - 1 > 0 => r > 0) /\ \A k \in 1..(i - 1) : receipts[k].at <= receipts[r].at
  BY <1>1 DEF ChainInv, AloneInv, WasLast
<1> HIDE DEF r
<1>3. ASSUME r < i - 1 PROVE FALSE
  <2>1. r \in DOMAIN receipts /\ i - 1 \in DOMAIN receipts /\ i - 1 \in 1..(i - 1)
    BY <1>1, <1>2, <1>3
  <2>2. receipts[r].at < receipts[i - 1].at /\ receipts[i - 1].at <= receipts[r].at
    BY <1>2, <1>3, <2>1
  <2>3. QED
    BY <1>1, <2>1, <2>2
<1>4. QED
  BY <1>1, <1>3 DEF r

\* The receipts of one process form a line without a fork, whatever cuts its
\* cycles short, as long as no two are made at one time and the clock is not
\* set back in between (store/db.py, last_receipt_hash).
THEOREM AloneNeverForks ==
  ASSUME \A p, q \in Process : p = q
  PROVE  Spec => []ChainIsALine
<1>1. Init => AloneInv
  BY DEF Init, AloneInv
<1>2. ChainInv /\ AloneInv /\ [Next]_sharedVars => AloneInv'
  BY AloneStep
<1>3. ChainInv /\ AloneInv => ChainIsALine
  BY AloneInALine
<1>4. QED
  BY <1>1, <1>2, <1>3, SharedInvariant, PTL DEF Spec
=============================================================================

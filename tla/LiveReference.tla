---------------------------- MODULE LiveReference ---------------------------
(***************************************************************************)
(* The live references (livereference/engine.py, sources.py) and the list  *)
(* of stale sources in the state row (kernel/state.py), source by source,  *)
(* under sources that fall silent and come back at any time, a clock that  *)
(* runs, leaps and is set back, cycles that are cut short, and processes   *)
(* that register other sources than the one before.                        *)
(*                                                                         *)
(* The engine is a failure detector.  Loop.tla takes its outcome for one   *)
(* step; here is how it comes about.  A time is only ever compared with    *)
(* the budget of the source in hand, so the clock is the age of the        *)
(* reading in hand: below zero after it was set back, and one past the     *)
(* budget stands for everything older.                                     *)
(***************************************************************************)
EXTENDS Integers, SequencesExt

CONSTANTS
  Source,          \* the sources some process registers
  Assemblies,      \* the orders of sources that build() may register
  Budget           \* max_staleness_seconds of each source

ASSUME LiveAssumption ==
  /\ Assemblies \subseteq Seq(Source)
  /\ \A order \in Assemblies : \A i, j \in DOMAIN order : order[i] = order[j] => i = j
  /\ Budget \in [Source -> Nat]

VARIABLES
  answering,       \* the sources whose read_fn returns
  registered,      \* the engine's sources in the order of registration
  savedStale,      \* stale_sources of the state row
  pc,              \* "down", "idle", "read" or "judge"
  at,              \* the position in the loop of read_all
  age,             \* time.time() - reading.taken_at
  stale,           \* stale_sources of this cycle's state
  fresh,           \* the sources read_all has a fresh reading of
  alive,           \* history: the sources that answered at some time of the cycle
  silent           \* history: the sources that did not, or whose reading grew old

frame == <<at, age, stale, fresh, alive, silent>>
liveVars == <<answering, registered, savedStale, pc, frame>>

Names(list) == {list[i] : i \in DOMAIN list}

Forget ==
  /\ at' = 1 /\ age' = 0 /\ stale' = <<>> /\ fresh' = {}
  /\ alive' = {} /\ silent' = {}

Init ==
  /\ answering \in SUBSET Source
  /\ registered = <<>> /\ savedStale = <<>> /\ pc = "down"
  /\ at = 1 /\ age = 0 /\ stale = <<>> /\ fresh = {}
  /\ alive = {} /\ silent = {}

-----------------------------------------------------------------------------
(* One cycle. *)

\* A slip: what was flagged again goes to the front.
FlagStaleInFront(list, s) == IF s \in Names(list) THEN list ELSE <<s>> \o list

\* A slip: a source is flagged once more each time it fails.
FlagStaleAgain(list, s) == Append(list, s)

FlagStale(list, s) == IF s \in Names(list) THEN list ELSE Append(list, s)

ClearStale(list, s) == RemoveFirst(list, s)

\* recover_or_init: the cycle starts from the list of the state row.
Recover ==
  /\ pc = "idle"
  /\ pc' = "read"
  /\ stale' = savedStale
  /\ alive' = answering /\ silent' = Source \ answering
  /\ UNCHANGED <<answering, registered, savedStale, at, age, fresh>>

InHand == registered[at]

MoreToRead == pc = "read" /\ at <= Len(registered)

\* A slip: a source that raises is answered for from a cache.
ReadRaisesOnCache ==
  /\ MoreToRead
  /\ InHand \notin answering
  /\ fresh' = fresh \cup {InHand} /\ stale' = ClearStale(stale, InHand)
  /\ at' = at + 1
  /\ UNCHANGED <<answering, registered, savedStale, pc, age, alive, silent>>

\* A slip: a source that raises is passed over.
ReadRaisesUnflagged ==
  /\ MoreToRead
  /\ InHand \notin answering
  /\ at' = at + 1
  /\ UNCHANGED <<answering, registered, savedStale, pc, age, stale, fresh, alive, silent>>

\* read_fn raises, which read_all catches.
ReadRaises ==
  /\ MoreToRead
  /\ InHand \notin answering
  /\ stale' = FlagStale(stale, InHand)
  /\ at' = at + 1
  /\ UNCHANGED <<answering, registered, savedStale, pc, age, fresh, alive, silent>>

\* read_fn returns, however long it took: taken_at is stamped after it.
ReadReturns ==
  /\ MoreToRead
  /\ InHand \in answering
  /\ age' = 0
  /\ pc' = "judge"
  /\ UNCHANGED <<answering, registered, savedStale, at, stale, fresh, alive, silent>>

\* A slip: the budget itself is too old.
JudgeOneTooStrict ==
  /\ pc = "judge"
  /\ IF age >= Budget[InHand]
     THEN /\ stale' = FlagStale(stale, InHand)
          /\ fresh' = fresh
     ELSE /\ stale' = ClearStale(stale, InHand)
          /\ fresh' = fresh \cup {InHand}
  /\ at' = at + 1 /\ age' = 0
  /\ pc' = "read"
  /\ UNCHANGED <<answering, registered, savedStale, alive, silent>>

\* The comparison of the age with the budget.
Judge ==
  /\ pc = "judge"
  /\ IF age > Budget[InHand]
     THEN /\ stale' = FlagStale(stale, InHand)
          /\ fresh' = fresh
     ELSE /\ stale' = ClearStale(stale, InHand)
          /\ fresh' = fresh \cup {InHand}
  /\ at' = at + 1 /\ age' = 0
  /\ pc' = "read"
  /\ UNCHANGED <<answering, registered, savedStale, alive, silent>>

\* A slip: what is saved was put together before the sources were read.
CheckpointOfBefore ==
  /\ pc = "read" /\ at > Len(registered)
  /\ UNCHANGED savedStale
  /\ pc' = "idle"
  /\ Forget
  /\ UNCHANGED <<answering, registered>>

\* The rest of the cycle, up to save_state.
Checkpoint ==
  /\ pc = "read" /\ at > Len(registered)
  /\ savedStale' = stale
  /\ pc' = "idle"
  /\ Forget
  /\ UNCHANGED <<answering, registered>>

-----------------------------------------------------------------------------
(* What happens to the cycle. *)

\* An exception later in the cycle, which the scheduler logs: the flags of
\* this cycle are lost with its state.
CutShort ==
  /\ pc = "read" /\ at > Len(registered)
  /\ pc' = "idle"
  /\ Forget
  /\ UNCHANGED <<answering, registered, savedStale>>

\* The process ends, killed or by an exception out of the plain loop.
Kill ==
  /\ pc # "down"
  /\ pc' = "down"
  /\ registered' = <<>>
  /\ Forget
  /\ UNCHANGED <<answering, savedStale>>

\* build(), of this or of another version of the program.
Restart ==
  /\ pc = "down"
  /\ pc' = "idle"
  /\ registered' \in Assemblies
  /\ UNCHANGED <<answering, savedStale, frame>>

\* A source falls silent, or is back.
Change ==
  /\ \E s \in Source :
       answering' = IF s \in answering THEN answering \ {s} ELSE answering \cup {s}
  /\ IF pc \in {"read", "judge"}
     THEN alive' = alive \cup answering' /\ silent' = silent \cup (Source \ answering')
     ELSE UNCHANGED <<alive, silent>>
  /\ UNCHANGED <<registered, savedStale, pc, at, age, stale, fresh>>

\* Time passes between the reading and its judgement, or the clock leaps.
Grow ==
  /\ pc = "judge" /\ age <= Budget[InHand]
  /\ age' = age + 1
  /\ silent' = IF age' > Budget[InHand] THEN silent \cup {InHand} ELSE silent
  /\ UNCHANGED <<answering, registered, savedStale, pc, at, stale, fresh, alive>>

SetBack ==
  /\ pc = "judge" /\ age >= 0
  /\ age' = -1
  /\ UNCHANGED <<answering, registered, savedStale, pc, at, stale, fresh, alive, silent>>

Cycle == Recover \/ ReadRaises \/ ReadReturns \/ Judge \/ Checkpoint

Next == Cycle \/ CutShort \/ Kill \/ Restart \/ Change \/ Grow \/ SetBack

Spec == Init /\ [][Next]_liveVars

\* As in Loop: the scheduler starts cycles, and every read_fn returns or raises.
FairSpec == Spec /\ WF_liveVars(Cycle)

-----------------------------------------------------------------------------
(* Properties. *)

NoRepeats(list) == \A i, j \in DOMAIN list : list[i] = list[j] => i = j

\* Every variable stays in its range, and no source is listed twice, whatever
\* lists earlier processes left.
LTypeOK ==
  /\ answering \subseteq Source
  /\ registered \in Seq(Source) /\ NoRepeats(registered)
  /\ savedStale \in Seq(Source) /\ NoRepeats(savedStale)
  /\ stale \in Seq(Source) /\ NoRepeats(stale)
  /\ pc \in {"down", "idle", "read", "judge"}
  /\ at \in 1..(Len(registered) + 1)
  /\ pc = "judge" => at <= Len(registered) /\ age <= Budget[InHand] + 1
  /\ age \in Int /\ age >= -1
  /\ fresh \subseteq Source /\ alive \subseteq Source /\ silent \subseteq Source

\* "Honesty: we record the absence rather than pretending we read it"
\* (engine.py): a source counts as seen only if it answered at some time of
\* this very cycle, and a registered one is flagged only if at some time of
\* it it was silent, or its reading in hand grew older than its budget.
FlagsTellTheTruth ==
  pc \in {"read", "judge"} =>
    /\ fresh \subseteq alive
    /\ \A i \in DOMAIN registered :
         i < at /\ registered[i] \in Names(stale) => registered[i] \in silent

\* The first stale source is the one the loop reports (spark/generator.py).
\* The list keeps the order in which the sources were lost: from one
\* checkpoint to the next those still lost stay in order, in front of those
\* newly lost, whichever order the processes registered them in.
LongestLostStaysFirst ==
  [][\A i, j \in DOMAIN savedStale' :
       (i < j /\ savedStale'[j] \in Names(savedStale)) =>
         \E k, l \in DOMAIN savedStale :
           k < l /\ savedStale[k] = savedStale'[i] /\ savedStale[l] = savedStale'[j]]_liveVars

\* The source of which this cycle has a reading no older than its budget.
WithinBudget == IF pc = "judge" /\ age <= Budget[InHand] THEN {InHand} ELSE {}

\* The engine and the state row implement Sight: "if a source is in here", in
\* stale_sources, the system refuses to act on it "until it reads fresh"
\* (state.py).  A checkpoint flags every registered source but those of which
\* this very cycle had a reading within their budgets, and takes no other flag
\* away; nothing but a checkpoint changes the flags, whatever cycles are cut
\* short, processes killed and sources registered.  That the loop refuses to
\* act is ActsOnFreshReferencesOnly of Loop.
Seen == INSTANCE Sight WITH
  registered <- Names(registered),
  inView <- WithinBudget,
  seen <- fresh,
  lost <- Names(savedStale)

SeesAsSightDoes == Seen!Spec

StaysUp == <>[](pc # "down")

\* A cut that leaves what the checkpoint leaves is taken for the checkpoint.
StopsCutting == <>[][CutShort => Checkpoint]_liveVars

\* A source that is silent for good is flagged for good.
LossIsNoticed ==
  (StaysUp /\ StopsCutting) =>
    \A s \in Source :
      <>[](s \in Names(registered) \ answering) => <>[](s \in Names(savedStale))

\* A source that answers for good, under a clock that stops leaping, loses
\* its flag for good.
RecoveryIsNoticed ==
  (StaysUp /\ StopsCutting) =>
    \A s \in Source :
      <>[](/\ s \in Names(registered) \cap answering
           /\ pc = "judge" => age <= Budget[InHand])
        => <>[](s \notin Names(savedStale))
=============================================================================

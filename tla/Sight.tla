-------------------------------- MODULE Sight -------------------------------
(***************************************************************************)
(* What the live references promise the loop, without processes, lists,    *)
(* readings or time (livereference/engine.py, kernel/state.py).  A look    *)
(* ends with a registered source lost unless it was seen during the look,  *)
(* and a source that was lost is found in no other way: none is seen but   *)
(* in view, and what was seen in a look that was given up does not count.  *)
(***************************************************************************)
CONSTANT Source

VARIABLES
  registered,     \* the sources the process reads; none while it is down
  inView,         \* the sources a fresh reading of which is in hand
  seen,           \* the sources seen in this look
  lost            \* the sources the loop knows it cannot see

Init == registered = {} /\ inView = {} /\ seen = {} /\ lost = {}

Views == inView' \in SUBSET registered

Vary ==
  /\ Views
  /\ UNCHANGED <<registered, seen, lost>>

See ==
  /\ \E s \in inView : seen' = seen \cup {s}
  /\ Views
  /\ UNCHANGED <<registered, lost>>

Look ==
  /\ lost' = (lost \cup registered) \ seen
  /\ inView' = {} /\ seen' = {}
  /\ UNCHANGED registered

GiveUp ==
  /\ inView' = {} /\ seen' = {}
  /\ UNCHANGED <<registered, lost>>

Assemble ==
  /\ registered' \in SUBSET Source
  /\ inView' = {} /\ seen' = {}
  /\ UNCHANGED lost

Next == Vary \/ See \/ Look \/ GiveUp \/ Assemble

Spec == Init /\ [][Next]_<<registered, inView, seen, lost>>
=============================================================================

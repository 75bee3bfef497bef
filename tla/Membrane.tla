------------------------------ MODULE Membrane ------------------------------
(***************************************************************************)
(* What may be done at all: the orientation guard (ledger/orientation.py), *)
(* the capability registry (actions/registry.py) and the permission        *)
(* membrane (membrane/modes.py), as operators on one proposed action.      *)
(*                                                                         *)
(* An action carries its kind, its mode, where it would write ("none" when *)
(* it has no target path, else the permitted directory the path lies in,   *)
(* or "elsewhere"), the orientation of its intent, and what it is about.   *)
(***************************************************************************)

CONSTANTS
  HighImpactKinds,          \* high_impact_kinds of the human-owned membrane.yaml
  AllowOutboundToOthers     \* allow_outbound_to_others of the same file

ASSUME MembraneAssumption == AllowOutboundToOthers \in BOOLEAN

RegisteredKinds ==
  {"observe", "relate_memory", "draft_note", "report_to_operator",
   "restore_reference", "relate_knowledge", "report_and_ask",
   "overwrite_canonical", "delete_file", "email_other_person"}

SelfNegatingKinds ==
  {"halt", "shutdown", "self_terminate", "stop_forever",
   "idle_indefinitely", "delete_self", "disable_self"}

Modes == {"EXPLORE", "DRAFT", "LOCK"}

Nothing == "nothing"        \* an action that is about no node

\* The actions the loop itself proposes write no file and mean to earn.
Proposal(kind, mode, about) ==
  [kind |-> kind, mode |-> mode, target |-> "none", intent |-> "earn",
   about |-> about]

-----------------------------------------------------------------------------

\* assert_earn_my_keep raises SelfNegationError on these.
SelfNegating(a) == a.kind \in SelfNegatingKinds \/ a.intent = "erase"

\* The loop's answer to that error: the always-safe report instead.
EarnMyKeep(a) ==
  IF SelfNegating(a) THEN Proposal("report_and_ask", "EXPLORE", Nothing) ELSE a

\* check_allowed does not raise.
Allowed(a) ==
  /\ a.kind = "email_other_person" => AllowOutboundToOthers
  /\ a.target # "none" => \/ a.mode = "DRAFT" /\ a.target = "working"
                          \/ a.mode = "LOCK" /\ a.target = "canonical"

\* A slip: the mode alone decides.
RequiresApprovalByMode(a) == a.mode = "LOCK"

RequiresApproval(a) == a.kind \in HighImpactKinds \/ a.mode = "LOCK"

\* The verdict on an action, in the order _gate_and_act asks.
Gate(a) ==
  IF a.kind \notin RegisteredKinds THEN "rejected"
  ELSE IF ~Allowed(a) THEN "denied"
  ELSE IF RequiresApproval(a) THEN "awaiting_approval"
  ELSE "execute"
=============================================================================

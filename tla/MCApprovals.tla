----------------------------- MODULE MCApprovals ----------------------------
(* Instances of Approvals for TLC. *)
EXTENDS Approvals

CONSTANTS a, b     \* live sources

TwoInOrder == <<a, b>>

NoMail == <<>>

RelatingGated == {"relate_memory"}

Nowhere == {}
=============================================================================

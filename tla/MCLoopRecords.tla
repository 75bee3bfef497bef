---------------------------- MODULE MCLoopRecords ---------------------------
(* Instances of LoopRecords for TLC. *)
EXTENDS LoopRecords

CONSTANTS a, b     \* live sources

OneInOrder == <<a>>
TwoInOrder == <<a, b>>

NoMail == <<>>
VerdictThenBroken == <<"verdict", "malformed">>
VerdictsAndOthers == <<"verdict", "foreign", "verdict", "unreadable">>

Default == {"delete_file", "overwrite_canonical", "install_package",
            "email_other_person", "network_call"}
RelatingGated == Default \cup {"relate_memory"}

Anywhere == Steps \ {"integrate", "select", "relate"}
Nowhere == {}
=============================================================================

------------------------------- MODULE MCLoop -------------------------------
(* Instances of Loop for TLC. *)
EXTENDS Loop

CONSTANTS a, b, c     \* live sources

OneInOrder == <<a>>
TwoInOrder == <<a, b>>
ThreeInOrder == <<a, b, c>>

NoMail == <<>>
VerdictThenUnreadable == <<"verdict", "unreadable">>
UnreadableThenMalformed == <<"unreadable", "malformed">>
BrokenMail == <<"silent", "malformed">>

Default == {"delete_file", "overwrite_canonical", "install_package",
            "email_other_person", "network_call"}
ReportsGated == Default \cup {"report_to_operator"}

Anywhere == Steps \ {"integrate", "select", "relate"}
Nowhere == {}
=============================================================================

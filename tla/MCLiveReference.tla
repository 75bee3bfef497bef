-------------------------- MODULE MCLiveReference --------------------------
(* Instances of LiveReference for TLC. *)
EXTENDS LiveReference

CONSTANTS s1, s2, s3

\* Three versions of build(): one registers what the others do not know.
MCAssemblies == {<<s1, s2>>, <<s2, s1>>, <<s3, s1>>}

MCBudget == [s \in Source |-> IF s = s1 THEN 1 ELSE 0]
=============================================================================

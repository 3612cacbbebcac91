------------------------------- MODULE MCDeploy -------------------------------
(* A rule and a correlation that references it, and one native rule file.  *)
EXTENDS Deploy

CONSTANTS base, corr, dnp3

MCRules == {base, corr}
MCRefs == [r \in MCRules |-> IF r = corr THEN {base} ELSE {}]
MCNative == {dnp3}
=============================================================================

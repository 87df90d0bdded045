------------------------------- MODULE MCLogin -------------------------------
(* Instances of Login for TLC. *)
EXTENDS Login, TLC

CONSTANTS t1, t2, t3, ann, ben, eve

TwoTabs == {t1, t2}
ThreeTabs == {t1, t2, t3}

\* ann is an admin by address, ben a viewer or one with a list of roles, and eve
\* may not log in, whatever her role.
MCUsers == {ann, ben, eve}
MCAllowed == {ann, ben}
MCAdmins == {ann}
ValueClaim == (ann :> "absent") @@ (ben :> "other") @@ (eve :> "value")
ListClaim == (ann :> "absent") @@ (ben :> "list") @@ (eve :> "other")
=============================================================================

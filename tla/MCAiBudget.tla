----------------------------- MODULE MCAiBudget -----------------------------
(* Instances of AiBudget for TLC: two workspaces, one of them with two      *)
(* calls at once.                                                           *)
EXTENDS AiBudget, TLC

CONSTANTS a1, a2, b1, a, b

MCCalls == {a1, a2, b1}
MCWorkspaces == {a, b}
MCWorkspaceOf == (a1 :> a) @@ (a2 :> a) @@ (b1 :> b)
=============================================================================

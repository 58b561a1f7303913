--------------------------- MODULE MCApprovalGate ---------------------------
(* Small instances of ApprovalGate for TLC.                                 *)
EXTENDS ApprovalGateProperties, TLC

CONSTANTS mild, harsh, banned  \* parameters of level 2, 3 and 4

AllMild == [a \in Actions |-> mild]
Levels == [v \in Params |-> CASE v = mild -> 2 [] v = harsh -> 3 [] OTHER -> 4]

ConfirmAll == [v \in Params |-> "confirm"]
AllowMild == [v \in Params |-> IF v = mild THEN "allow" ELSE "confirm"]
DenyHarsh == [v \in Params |-> IF v = harsh THEN "deny" ELSE "confirm"]

OnlyConfirm == {ConfirmAll}
AllPolicies == {AllowMild, DenyHarsh}
=============================================================================

-------------------------- MODULE MCApprovalStore --------------------------
(* Two graph threads, at the API and at the terminal, that both ask about   *)
(* root.1 and the same tool.                                                *)
EXTENDS ApprovalStore

CONSTANTS a1, a2, h1, h2

MCAgents == {a1, a2}
MCOneEach   == [a \in MCAgents |-> IF a = a1 THEN "api" ELSE "cli"]
MCTwoAndOne == [a \in MCAgents |-> IF a = a1 THEN 2 ELSE 1]
MCSameTask  == [a \in MCAgents |-> "root.1/apply_patch_plan"]
=============================================================================

---------------------------- MODULE MCAgentLoop ----------------------------
(***************************************************************************)
(* A small agent: one patch plan the model wants to apply, one file worth  *)
(* reading, one static check as the baseline of an expansion and as the    *)
(* check of a write.                                                       *)
(***************************************************************************)
EXTENDS AgentLoopProperties

Tool(a, r, k) == [access |-> a, risk |-> r, category |-> k, runs |-> FALSE]

MCToolSpecs ==
    [read_file        |-> Tool("read", "low", "observe"),
     static_check     |-> Tool("read", "low", "verify"),
     apply_patch_plan |-> Tool("write", "high", "edit"),
     rollback         |-> Tool("write", "high", "edit")]

MCArgs == {"none", "plan", "other_plan", "file"}
MCArgFacts == [a \in MCArgs |-> [size |-> "small", path |-> IF a = "file" THEN "plain" ELSE "none",
                                 patch_large |-> FALSE, profile |-> "none"]]
On2(t, a) == [tool |-> t, args |-> a]
MCInvalidCalls == {On2("apply_patch_plan", "none")}
MCAllowedTools == DOMAIN MCToolSpecs
\* state_factory.py: read tools allow, write tools ask.
MCPermissionPolicy ==
    [t \in DOMAIN MCToolSpecs |-> IF MCToolSpecs[t].access = "write" THEN "ask" ELSE "allow"]

Ends(statuses, reports) == [status : statuses, over_budget : {FALSE}, report : reports]
MCToolOutcomes ==
    [read_file        |-> Ends({"success", "partial", "empty", "failed"}, {"none"}),
     static_check     |-> Ends({"success"}, {"pass", "fail"})
                            \cup [status : {"success"}, over_budget : {TRUE}, report : {"pass"}],
     apply_patch_plan |-> Ends({"success", "failed", "blocked"}, {"none"}),
     rollback         |-> Ends({"success", "failed"}, {"none"})]

\* One good and one bad ending of every tool, for the runs that need a small graph.
MCFewOutcomes ==
    [read_file        |-> Ends({"success", "failed"}, {"none"}),
     static_check     |-> Ends({"success"}, {"pass", "fail"}),
     apply_patch_plan |-> Ends({"success", "blocked"}, {"none"}),
     rollback         |-> Ends({"success"}, {"none"})]

MCLLMCalls == {On2("apply_patch_plan", "plan"), On2("apply_patch_plan", "none")}
MCLLMWrites == {On2("apply_patch_plan", "plan")}
MCLLMIds == {<<[kind |-> "root", n |-> 0], [kind |-> "child", n |-> 1]>>}
MCFallbackBaseline == <<On("static_check")>>
MCPreferredFiles == <<"file">>
MCVerifyTools == <<"static_check">>
MCModifiedArgs == {"other_plan"}
=============================================================================

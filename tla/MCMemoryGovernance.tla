------------------------- MODULE MCMemoryGovernance -------------------------
(***************************************************************************)
(* A project and its namesake in another tenant.                           *)
(***************************************************************************)
EXTENDS MemoryGovernance

Person(t, u) == [tenant |-> t, workspace |-> "w", project |-> "p", user |-> u]
MCIdentities == {Person("t1", "u1"), Person("t2", "u1")}

Report(tool, result, decision, findings, rich, data) ==
    [tool |-> tool, result |-> result, decision |-> decision, findings |-> findings,
     rich |-> rich, data |-> data, reason |-> TRUE, evidence |-> FALSE, done |-> FALSE,
     failure |-> IF result = "failed" THEN "test_failure" ELSE "unknown",
     paths |-> IF tool \in PatchTools \cup ReadTools THEN {"f"} ELSE {}]

MCExperiences ==
    {Report("apply_patch", "success", "complete", "none", "rich", TRUE),
     Report("apply_patch", "failed", "fail", "pii", "poor", FALSE),
     Report("read_file", "success", "complete", "none", "rich", TRUE),
     Report("read_file", "partial", "complete", "none", "poor", TRUE),
     Report("secret_scan", "success", "complete", "secret", "rich", TRUE),
     Report("none", "none", "complete", "none", "poor", FALSE)}
MCJobIdentity == Person("t1", "u1")
MCJudgeAnswers == {"off", "reject"}
MCRunTasks == <<2, 1>>
MCFewTasks == <<1, 1>>
=============================================================================

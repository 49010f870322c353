------------------------ MODULE AgentLoopProperties ------------------------
(***************************************************************************)
(* What the task loop of AgentLoop must keep true.                         *)
(***************************************************************************)
EXTENDS AgentLoop

Nodes == {"scheduler", "planner_decomposer", "tool_selector", "plan_validator", "tool_policy",
          "approval_interrupt", "sandbox_runner", "executor", "async_job_waiter",
          "execution_monitor", "recovery_planner", "evaluator_verifier", "task_committer",
          "memory_writer", "code_agent_summarize"}
TaskStatus == {"pending", "expanded", "planned", "waiting_approval", "approved", "executed",
               "done", "failed", "blocked", "pending_verification", "partial", "needs_more"}
Attempts ==
    [tool_result_status : ResultStatus \cup {"none"},
     execution_status : {"not_started", "blocked", "failed", "completed", "completed_over_budget"},
     report : {"none", "pass", "fail"},
     monitor : {"ok", "blocked", "failed", "empty", "partial", "over_budget"},
     recovery : RecoveryActions \cup {"none"}]
Approvals == [task : TaskIds, call : Calls]

Titles == Seq(ToolNames \cup Args \cup {"user_input", "llm", "verify"})
Tasks ==
    [id : TaskIds, title : Titles, status : TaskStatus, parent : TaskIds,
     children : Seq(TaskIds), depth : Nat, call : Calls, retry_count : Nat,
     tool_result_status : ResultStatus \cup {"none"}, verification_scheduled : BOOLEAN]

\* Type invariant of the loop: every task is stored under its own id, and the
\* current task is one of the tree whenever a node works on it.
TypeOK ==
    /\ pc \in Nodes
    /\ task_tree \in [DOMAIN task_tree -> Tasks]
    /\ \A id \in DOMAIN task_tree : task_tree[id].id = id
    /\ agenda \in Seq(TaskIds)
    /\ pc \in {"scheduler", "memory_writer", "code_agent_summarize"}
           \/ current_task_id \in DOMAIN task_tree
    /\ step_count \in Nat
    /\ call \in Calls
    /\ attempt \in Attempts
    /\ policy_decision \in {"allow", "ask", "deny"}
    /\ plan_validation_status \in {"none", "valid", "invalid"}
    /\ evaluation_decision \in Decisions \cup {"none"}
    /\ human_approvals \subseteq TaskIds
    /\ patch_history \in Seq([task : TaskIds, path : Args, restorable : BOOLEAN])
    /\ completed_tasks \subseteq Calls
    /\ unused_approvals \subseteq Approvals
    /\ runs \in 1..MaxRuns

\* A write tool that reaches the tool layer spends one human answer, given in
\* this run to exactly this task, tool and arguments: an approval is never used
\* for other arguments, for a retry, or for another task that took over the id
\* (README: no write without human_approvals[task_id]).
WriteSpendsApproval ==
    pc = "executor" /\ IsWrite(call.tool) /\ ~PreflightRefuses => Approval \in unused_approvals

Leaves == {id \in DOMAIN task_tree : task_tree[id].children = <<>>}

\* A pending leaf is always on the agenda or in the hands of the planner: no
\* expansion, retry, rollback or replaced id drops a task on the floor.
NoTaskIsLost ==
    pc # "code_agent_summarize" =>
        \A id \in Leaves : task_tree[id].status = "pending" =>
            id \in ToSet(agenda) \cup {current_task_id}

\* When the loop ends before its step budget, every leaf was brought to a
\* verdict: none is left planned, waiting for approval, approved or executed.
SettledAtEnd ==
    pc = "code_agent_summarize" /\ step_count <= MaxSteps =>
        \A id \in Leaves : task_tree[id].status \in {"done", "failed"}

\* A task is judged complete only after its tool ran in this very step and
\* ended well: a refused, failed, empty, partial or slow execution never counts,
\* nor does the outcome of an earlier step or attempt.  Rejected plans and
\* unsupported sandboxes are the two exceptions (see README.md).
CompleteMeansExecuted ==
    /\ pc = "task_committer" /\ evaluation_decision = "complete"
    /\ plan_validation_status = "valid" /\ SandboxSupported
    => attempt.execution_status = "completed" /\ attempt.tool_result_status = "success"

\* A write whose checks were scheduled is done only when all of them are.
ChecksBeforeDone ==
    \A id \in DOMAIN task_tree :
        LET t == task_tree[id]
        IN t.verification_scheduled /\ t.status = "done" =>
               \A i \in DOMAIN t.children : task_tree[t.children[i]].status = "done"

\* A successful write is committed done without any check only when the tree
\* has no room left.
UncheckedOnlyWhenFull ==
    \A id \in Leaves :
        LET t == task_tree[id]
        IN /\ t.call.tool \in SourceWriteTools
           /\ t.tool_result_status = "success"
           /\ t.status = "done"
           => Cardinality(DOMAIN task_tree) >= MaxTotalTasks

\* Every run of the loop ends, and so does the thread, within the step budget.
LoopEnds == <>[](pc = "code_agent_summarize")
=============================================================================

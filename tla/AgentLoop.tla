----------------------------- MODULE AgentLoop -----------------------------
(***************************************************************************)
(* The task loop of the code agent: the nodes graph.py chains between      *)
(* scheduler and code_agent_summarize, each one action.  A node reads the  *)
(* LangGraph state, returns an update and the conditional edge after it    *)
(* picks the next node; pc is that node, next_action and done folded in.   *)
(*                                                                         *)
(* The model (planner, evaluator, recovery), the human and the tools are   *)
(* the environment: they answer anything the code accepts from them.       *)
(***************************************************************************)
EXTENDS PolicyRules, SequencesExt, Subsequences

CONSTANTS
    Args,                \* what a call is about: a file, a patch plan, "none"
    ArgFacts,            \* Args -> [size, path, patch_large, profile], see PolicyRules
    InvalidCalls,        \* calls validate_tool_request refuses
    AllowedTools,        \* state["allowed_tools"]
    PermissionPolicy,    \* state["permission_policy"]: tool -> Configured
    RiskLevel,           \* state["risk_level"], the Router's verdict
    ToolOutcomes,        \* tool -> what running it may report, a set of Outcomes
    LLMCalls,            \* calls the planning model may propose
    LLMIds,              \* task ids the planning model may write itself
    FallbackBaseline,    \* fallback_subtasks: calls of a first expansion
    PreferredFiles,      \* fallback_subtasks: files worth reading, in order
    VerifyTools,         \* _verification_tasks_for_write: tools, in order
    ModifiedArgs,        \* arguments an approver may substitute
    SandboxSupported,    \* BEGINNER_AGENT_SANDBOX_MODE is "local_controlled"
    MaxSteps, MaxDepth, MaxTotalTasks, MaxTaskRetries,
    MaxSubtasks,         \* subtasks of one expansion; 4 in the code
    MaxRuns              \* bound: runs started on the same thread

ResultStatus == {"success", "failed", "blocked", "empty", "partial"}
Outcomes     == [status : ResultStatus, over_budget : BOOLEAN, report : {"none", "pass", "fail"}]
\* The registered tools, and those the nodes name themselves.
ToolNames    == DOMAIN ToolSpecs \cup {"none", "read_file", "rollback"}
Calls        == [tool : ToolNames, args : Args]

ASSUME LoopConstantsAssumption ==
    /\ "none" \in Args
    /\ ArgFacts \in [Args -> [size : SizeClass, path : PathKind,
                              patch_large : BOOLEAN, profile : Profile]]
    /\ RiskLevel \in {"low", "medium", "high"}
    /\ LLMCalls \subseteq Calls
    /\ \A c \in LLMCalls : c.tool \notin {"none", "rollback", "revert_file_patch"}
    /\ FallbackBaseline \in Seq({c \in Calls : c.tool # "none"})
    /\ PreferredFiles \in Seq(Args)
    /\ VerifyTools \in Seq(ToolNames \ {"none"}) /\ VerifyTools # <<>>
    /\ ModifiedArgs \subseteq Args
    /\ SandboxSupported \in BOOLEAN
    /\ MaxSteps \in Nat /\ MaxDepth \in Nat /\ MaxTotalTasks \in Nat
    /\ MaxTaskRetries \in Nat /\ MaxSubtasks \in Nat /\ MaxRuns \in Nat \ {0}
    /\ PermissionPolicy \in [DOMAIN PermissionPolicy -> Configured]
    /\ DOMAIN ToolOutcomes = DOMAIN ToolSpecs
    /\ \A t \in DOMAIN ToolOutcomes : ToolOutcomes[t] \subseteq Outcomes

\* state_factory.py configures "ask" for every write tool.
ASSUME WritesAskAssumption ==
    \A t \in DOMAIN ToolSpecs \cap DOMAIN PermissionPolicy :
        ToolSpecs[t].access = "write" => PermissionPolicy[t] # "allow"

(***************************************************************************)
(* Task ids are dotted paths: "root", "root.2", "root.2.verify.tests".     *)
(***************************************************************************)
Segment == [kind : {"root", "child", "verify", "rollback"}, n : Nat]
TaskIds == Seq(Segment)

Root        == <<[kind |-> "root", n |-> 0]>>
NoTask      == <<>>
Child(p, i) == Append(p, [kind |-> "child", n |-> i])
Verify(p, i) == Append(p, [kind |-> "verify", n |-> i])
Rollback(p, n) == Append(p, [kind |-> "rollback", n |-> n])

ASSUME LLMIdsAssumption == LLMIds \subseteq TaskIds \ {NoTask}

NoCall     == [tool |-> "none", args |-> "none"]
On(tool)   == [tool |-> tool, args |-> "none"]
SourceWriteTools == {"apply_patch", "apply_patch_plan", "format_apply"}
TestTools        == {"run_tests", "lint_typecheck", "static_check"}
LongRunningTools ==
    {"get_diagnostics", "lint_typecheck", "run_allowed_command", "run_build",
     "run_cargo_check", "run_cargo_clippy", "run_cargo_fmt_check", "run_cargo_test",
     "run_impacted_tests", "run_mypy", "run_package_script", "run_pytest", "run_ruff",
     "run_targeted_tests", "run_tests", "run_typecheck", "static_check"}

NewTask(id, title, parent, depth, call) ==
    [id |-> id, title |-> title, status |-> "pending", parent |-> parent,
     children |-> <<>>, depth |-> depth, call |-> call, retry_count |-> 0,
     tool_result_status |-> "none", verification_scheduled |-> FALSE]

VARIABLES
    pc,                   \* the graph node about to run
    task_tree,            \* task id -> task
    agenda,               \* task ids, head first
    current_task_id,
    step_count,
    call,                 \* state's tool_name and tool_args
    attempt,              \* state's record of this step's execution, see NoAttempt
    policy_decision,
    plan_validation_status,
    evaluation_decision,
    human_approvals,      \* ids of the tasks a human approved
    patch_history,        \* [task, path, restorable] of every successful write
    completed_tasks,      \* calls of the tasks committed as done or failed
    unused_approvals,     \* history: approved [task, call] not yet executed
    runs                  \* history: runs started on this thread

vars == <<pc, task_tree, agenda, current_task_id, step_count, call, attempt,
          policy_decision, plan_validation_status, evaluation_decision,
          human_approvals, patch_history, completed_tasks, unused_approvals, runs>>

\* What scheduler_node resets for every step; report is the verdict inside the
\* tool's JSON output.
NoAttempt ==
    [tool_result_status |-> "none", execution_status |-> "not_started",
     report |-> "none", monitor |-> "ok", recovery |-> "none"]

task == task_tree[current_task_id]

\* The tree with one task set.
Put(tree, id, t) ==
    [x \in DOMAIN tree \cup {id} |-> IF x = id THEN t ELSE tree[x]]

\* task_tree with the tasks of a sequence stored in order: a later one wins.
Store(tree, tasks) ==
    LET last(id) == CHOOSE i \in DOMAIN tasks :
                        /\ tasks[i].id = id
                        /\ \A j \in DOMAIN tasks : tasks[j].id = id => j <= i
        ids == {tasks[i].id : i \in DOMAIN tasks}
    IN [id \in DOMAIN tree \cup ids |-> IF id \in ids THEN tasks[last(id)] ELSE tree[id]]

Ids(tasks) == [i \in DOMAIN tasks |-> tasks[i].id]
First(s, n) == SubSeq(s, 1, IF Len(s) < n THEN Len(s) ELSE n)

(***************************************************************************)
(* validate_tool_request and Tool Policy's view of the current call.       *)
(***************************************************************************)
Valid(c) == c.tool \in DOMAIN ToolSpecs /\ c \notin InvalidCalls

PolicyContext ==
    [tool |-> call.tool,
     allowed |-> call.tool \in AllowedTools,
     configured |-> IF call.tool \in DOMAIN PermissionPolicy
                    THEN PermissionPolicy[call.tool] ELSE "deny",
     valid |-> Valid(call),
     size |-> ArgFacts[call.args].size,
     path |-> ArgFacts[call.args].path,
     patch_large |-> ArgFacts[call.args].patch_large,
     profile |-> ArgFacts[call.args].profile,
     direct |-> FALSE,             \* new_task never sets allow_direct_patch
     human_approved |-> current_task_id \in human_approvals,
     task_risk |-> RiskLevel,
     has_history |-> patch_history # <<>>]

IsWrite(tool) == tool \in DOMAIN ToolSpecs /\ ToolSpecs[tool].access = "write"
Approval == [task |-> current_task_id, call |-> call]

Goto(node) == pc' = node
StoreTask(t) == task_tree' = Put(task_tree, current_task_id, t)

(***************************************************************************)
(* A run begins: Router and memory nodes have run, the tree is empty.      *)
(***************************************************************************)
Init ==
    /\ pc = "scheduler"
    /\ task_tree = [id \in {} |-> NoTask]
    /\ agenda = <<>>
    /\ current_task_id = NoTask
    /\ step_count = 0
    /\ call = NoCall
    /\ attempt = NoAttempt
    /\ policy_decision = "deny"
    /\ plan_validation_status = "none"
    /\ evaluation_decision = "none"
    /\ human_approvals = {}
    /\ patch_history = <<>>
    /\ completed_tasks = {}
    /\ unused_approvals = {}
    /\ runs = 1

(***************************************************************************)
(* Scheduler.  Every way out resets what belongs to one step; only the     *)
(* selected task leaves the agenda, in all its occurrences.                *)
(***************************************************************************)
RootTask == NewTask(Root, <<"user_input">>, NoTask, 0, NoCall)

\* _ensure_root_task: the tree and the agenda the scheduler works on.
Tree  == IF DOMAIN task_tree = {} THEN Put(task_tree, Root, RootTask) ELSE task_tree
Queue == IF DOMAIN task_tree = {} THEN <<Root>> ELSE agenda

Ready == {i \in DOMAIN Queue : Queue[i] \in DOMAIN Tree /\ Tree[Queue[i]].status = "pending"}

StepBegins ==
    /\ pc = "scheduler"
    /\ step_count' = step_count + 1
    /\ task_tree' = Tree
    /\ call' = NoCall
    /\ attempt' = NoAttempt
    /\ UNCHANGED <<policy_decision, plan_validation_status, evaluation_decision,
                   human_approvals, patch_history, completed_tasks, unused_approvals, runs>>

SchedulerSelects ==
    /\ StepBegins
    /\ step_count + 1 <= MaxSteps
    /\ \E first \in Ready :
          /\ \A i \in Ready : first <= i
          /\ current_task_id' = Queue[first]
          /\ agenda' = Kept(Queue, {i \in DOMAIN Queue : Queue[i] # Queue[first]})
    /\ Goto("planner_decomposer")

\* The step budget is spent, or nothing is pending: the agenda is dropped.
SchedulerFinishes ==
    /\ StepBegins
    /\ step_count + 1 > MaxSteps \/ Ready = {}
    /\ current_task_id' = NoTask
    /\ agenda' = <<>>
    /\ Goto("code_agent_summarize")

(***************************************************************************)
(* Planner.  fallback_subtasks and the model's answer give the children.   *)
(***************************************************************************)
ReadFile(f) == [tool |-> "read_file", args |-> f]
FallbackTitle(c) == <<c.tool, c.args>>

FallbackSubtasks(t) ==
    LET unread == Kept(PreferredFiles, {i \in DOMAIN PreferredFiles :
                                            ReadFile(PreferredFiles[i]) \notin completed_tasks})
        files  == [i \in DOMAIN unread |-> ReadFile(unread[i])]
        calls  == First((IF completed_tasks = {} THEN FallbackBaseline ELSE <<>>) \o files,
                        MaxSubtasks)
    IN [i \in DOMAIN calls |->
            NewTask(Child(t.id, i), FallbackTitle(calls[i]), t.id, t.depth + 1, calls[i])]

\* The model names a task itself or lets the planner number it; its titles are
\* free, so the filter on existing titles may drop any of its subtasks.
LLMSubtasks(t) ==
    UNION {{[i \in 1..n |-> NewTask(IF own[i] = NoTask THEN Child(t.id, i) ELSE own[i],
                                    <<"llm">>, t.id, t.depth + 1, c[i])] :
                c \in [1..n -> LLMCalls], own \in [1..n -> LLMIds \cup {NoTask}]} :
           n \in 1..MaxSubtasks}

NewTitles(tasks) ==
    LET titles == {task_tree[id].title : id \in DOMAIN task_tree}
    IN Kept(tasks, {i \in DOMAIN tasks : tasks[i].title \notin titles})

\* Mutant: one slot is kept free.
HasRoomForTwo == Cardinality(DOMAIN task_tree) + 1 < MaxTotalTasks
HasRoom == Cardinality(DOMAIN task_tree) < MaxTotalTasks

CanExpand ==
    /\ task.depth < MaxDepth
    /\ HasRoom
    /\ task.call.tool = "none"

Expand(t, subtasks) ==
    /\ task_tree' = Store(task_tree,
                          <<[t EXCEPT !.status = "expanded", !.children = Ids(subtasks)]>> \o subtasks)
    /\ agenda' = Ids(subtasks) \o agenda

PlannerUnchanged ==
    UNCHANGED <<current_task_id, step_count, attempt, policy_decision,
                plan_validation_status, evaluation_decision, human_approvals, patch_history,
                completed_tasks, unused_approvals, runs>>

\* Mutant: an expanded task goes back to the planner.
AfterPlannerLoops ==
    Goto(IF task_tree'[current_task_id].children # <<>> THEN "planner_decomposer" ELSE "tool_selector")
AfterPlanner ==
    Goto(IF task_tree'[current_task_id].children # <<>> THEN "plan_validator" ELSE "tool_selector")

PlannerAlreadyExpanded ==
    /\ pc = "planner_decomposer"
    /\ task.children # <<>>
    /\ UNCHANGED <<task_tree, agenda, call>>
    /\ AfterPlanner
    /\ PlannerUnchanged

PlannerExpands ==
    /\ pc = "planner_decomposer"
    /\ task.children = <<>>
    /\ CanExpand
    /\ \E subtasks \in LLMSubtasks(task) \cup {NewTitles(FallbackSubtasks(task))} :
          subtasks # <<>> /\ Expand(task, subtasks)
    /\ call' = NoCall
    /\ AfterPlanner
    /\ PlannerUnchanged

\* The task cannot be expanded, the model says execute, or nothing is left of
\* the subtasks.
PlannerKeepsLeaf ==
    /\ pc = "planner_decomposer"
    /\ task.children = <<>>
    /\ StoreTask([task EXCEPT !.status = "planned"])
    /\ call' = NoCall
    /\ UNCHANGED agenda
    /\ AfterPlanner
    /\ PlannerUnchanged

ToolSelector ==
    /\ pc = "tool_selector"
    /\ StoreTask([task EXCEPT !.status = "planned"])
    /\ call' = task.call
    /\ Goto("plan_validator")
    /\ UNCHANGED agenda
    /\ PlannerUnchanged

(***************************************************************************)
(* Plan Validator.                                                         *)
(***************************************************************************)
PlanIsValid ==
    LET kids == task.children
    IN IF kids = <<>> THEN Valid(task.call)
       ELSE /\ IsInjective(kids)
            /\ \A i \in DOMAIN kids : kids[i] \in DOMAIN task_tree /\ Valid(task_tree[kids[i]].call)

PlanValidator ==
    /\ pc = "plan_validator"
    /\ \/ /\ ~PlanIsValid
          /\ plan_validation_status' = "invalid"
          /\ StoreTask([task EXCEPT !.status = "failed"])
          /\ attempt' = [attempt EXCEPT !.tool_result_status = "failed"]
          /\ Goto("evaluator_verifier")
          /\ UNCHANGED <<current_task_id, call>>
       \/ /\ PlanIsValid /\ task.children # <<>>
          /\ plan_validation_status' = "valid"
          /\ current_task_id' = NoTask
          /\ call' = NoCall
          /\ attempt' = [attempt EXCEPT !.tool_result_status = "none"]
          /\ Goto("scheduler")
          /\ UNCHANGED task_tree
       \/ /\ PlanIsValid /\ task.children = <<>>
          /\ plan_validation_status' = "valid"
          /\ Goto("tool_policy")
          /\ UNCHANGED <<task_tree, current_task_id, call, attempt>>
    /\ UNCHANGED <<agenda, step_count, policy_decision, evaluation_decision, human_approvals,
                   patch_history, completed_tasks, unused_approvals, runs>>

(***************************************************************************)
(* Tool Policy and Approval Interrupt.                                     *)
(***************************************************************************)
GateUnchanged ==
    UNCHANGED <<agenda, current_task_id, step_count, plan_validation_status,
                evaluation_decision, patch_history, completed_tasks, runs>>

\* A refused call is failed (policy) or blocked (approval), with its result
\* status blocked in the task and in the state.
Refuse(status) ==
    /\ StoreTask([task EXCEPT !.status = status, !.tool_result_status = "blocked"])
    /\ attempt' = [attempt EXCEPT !.tool_result_status = "blocked"]
    /\ Goto("evaluator_verifier")
    /\ UNCHANGED <<call, human_approvals, unused_approvals>>

ToolPolicy ==
    /\ pc = "tool_policy"
    /\ policy_decision' = PolicyAction(PolicyContext)
    /\ \/ /\ policy_decision' = "deny"
          /\ Refuse("failed")
       \/ /\ policy_decision' = "ask"
          /\ StoreTask([task EXCEPT !.status = "waiting_approval"])
          /\ Goto("approval_interrupt")
          /\ UNCHANGED <<call, attempt, human_approvals, unused_approvals>>
       \/ /\ policy_decision' = "allow"
          /\ StoreTask([task EXCEPT !.status = "approved"])
          /\ Goto("sandbox_runner")
          /\ UNCHANGED <<call, attempt, human_approvals, unused_approvals>>
    /\ GateUnchanged

\* The human approves, possibly with other arguments; the task and the state
\* both take the arguments that were approved.  Tool Policy never asks about a
\* task approved already, so the shortcut the node has for one is never taken.
ApprovalGranted ==
    /\ pc = "approval_interrupt"
    /\ \E args \in {call.args} \cup ModifiedArgs :
          LET approved == [call EXCEPT !.args = args]
          IN /\ call' = approved
             /\ StoreTask([task EXCEPT !.status = "approved", !.call.args = args])
             /\ unused_approvals' = unused_approvals \cup
                                        {[task |-> current_task_id, call |-> approved]}
    /\ human_approvals' = human_approvals \cup {current_task_id}
    /\ policy_decision' = "allow"
    /\ Goto("sandbox_runner")
    /\ UNCHANGED attempt
    /\ GateUnchanged

\* Refused, expired, or an answer that names another task.
ApprovalDenied ==
    /\ pc = "approval_interrupt"
    /\ current_task_id \notin human_approvals
    /\ policy_decision' = "ask"
    /\ Refuse("blocked")
    /\ GateUnchanged

(***************************************************************************)
(* Sandbox Runner, Executor, Async Job Waiter.                             *)
(***************************************************************************)
ExecutionUnchanged ==
    UNCHANGED <<agenda, current_task_id, step_count, call, policy_decision,
                plan_validation_status, evaluation_decision, human_approvals,
                completed_tasks, runs>>

\* An unsupported mode blocks the state, not the task.
SandboxRunner ==
    /\ pc = "sandbox_runner"
    /\ IF SandboxSupported
       THEN Goto("executor") /\ UNCHANGED attempt
       ELSE /\ attempt' = [attempt EXCEPT !.tool_result_status = "blocked",
                                          !.execution_status = "blocked"]
            /\ Goto("evaluator_verifier")
    /\ UNCHANGED <<task_tree, patch_history, unused_approvals>>
    /\ ExecutionUnchanged

\* _preflight_write_tool; a stale or unvalidated patch plan is one of the
\* "blocked" outcomes of apply_patch_plan.
PreflightRefuses ==
    /\ IsWrite(call.tool)
    /\ \/ policy_decision # "allow"
       \/ call.tool = "apply_patch"
       \/ call.tool = "rollback" /\ patch_history = <<>>

Blocked == [status |-> "blocked", over_budget |-> FALSE, report |-> "none"]

\* Mutant: the tool's status taken as the execution status.
ExecutionStatusRaw(o) == o.status
ExecutionStatus(o) ==
    IF o.status \in {"blocked", "failed"} THEN o.status
    ELSE IF o.over_budget THEN "completed_over_budget" ELSE "completed"

Executor ==
    /\ pc = "executor"
    /\ \E o \in IF PreflightRefuses \/ ~Valid(call) THEN {Blocked} ELSE ToolOutcomes[call.tool] :
          /\ StoreTask([task EXCEPT
                 !.status = IF o.status = "blocked" THEN "failed" ELSE "executed",
                 !.tool_result_status = o.status])
          /\ attempt' = [attempt EXCEPT !.tool_result_status = o.status,
                                        !.execution_status = ExecutionStatus(o),
                                        !.report = o.report]
          /\ IF call.tool \in SourceWriteTools /\ o.status = "success"
             THEN \E restorable \in BOOLEAN :
                     patch_history' = Append(patch_history,
                         [task |-> current_task_id, path |-> call.args, restorable |-> restorable])
             ELSE UNCHANGED patch_history
    /\ unused_approvals' = IF PreflightRefuses THEN unused_approvals
                           ELSE unused_approvals \ {Approval}
    /\ Goto("async_job_waiter")
    /\ ExecutionUnchanged

\* The executor's attempts carry no job id, so there is nothing to wait for.
AsyncJobWaiter ==
    /\ pc = "async_job_waiter"
    /\ Goto("execution_monitor")
    /\ UNCHANGED <<task_tree, attempt, patch_history, unused_approvals>>
    /\ ExecutionUnchanged

(***************************************************************************)
(* Execution Monitor and Recovery Planner.                                 *)
(***************************************************************************)
MonitorStatus ==
    LET r == attempt.tool_result_status
        e == attempt.execution_status
    IN IF r # "success" THEN r
       ELSE IF e = "completed_over_budget" THEN "over_budget" ELSE "ok"

ExecutionMonitor ==
    /\ pc = "execution_monitor"
    /\ attempt' = [attempt EXCEPT !.monitor = MonitorStatus]
    /\ Goto(IF MonitorStatus = "ok" THEN "evaluator_verifier" ELSE "recovery_planner")
    /\ UNCHANGED <<task_tree, patch_history, unused_approvals>>
    /\ ExecutionUnchanged

RetryLeft == task.retry_count < MaxTaskRetries
LongRunning == call.tool \in LongRunningTools
RecoveryActions == {"retry_same", "retry_with_new_args", "use_alternative_tool", "replan",
                    "decompose_more", "ask_human", "stop_with_summary"}

LocalRecovery ==
    LET r == attempt.tool_result_status
    IN CASE attempt.monitor = "blocked" -> "ask_human"
         [] attempt.monitor # "blocked" /\ RetryLeft /\ r \in {"failed", "empty"} ->
                IF LongRunning THEN "retry_with_new_args" ELSE "retry_same"
         [] attempt.monitor = "over_budget" \/ r = "partial" -> "stop_with_summary"
         [] OTHER ->
                IF LongRunning THEN "replan" ELSE "stop_with_summary"

AsksLLM ==
    /\ attempt.monitor \notin {"blocked", "partial"}
    /\ ~RetryLeft \/ attempt.monitor \in {"over_budget", "failed"}

RecoveryPlanner ==
    /\ pc = "recovery_planner"
    /\ \E r \in {LocalRecovery} \cup (IF AsksLLM THEN RecoveryActions ELSE {}) :
          attempt' = [attempt EXCEPT !.recovery = r]
    /\ Goto("evaluator_verifier")
    /\ UNCHANGED <<task_tree, patch_history, unused_approvals>>
    /\ ExecutionUnchanged

(***************************************************************************)
(* Evaluator.  Recovery's advice, then a bad result status, decide without *)
(* the model; otherwise the model (or the fallback) may decide anything.   *)
(***************************************************************************)
Decisions == {"complete", "retry", "expand", "fail"}

\* Mutant: without recovery advice the model always decides.
EvaluatorDecisionsTrusting ==
    CASE attempt.recovery \in {"retry_same", "retry_with_new_args"} -> {"retry"}
      [] attempt.recovery \in {"replan", "decompose_more", "use_alternative_tool"} -> {"expand"}
      [] attempt.recovery \in {"ask_human", "stop_with_summary"} -> {"fail"}
      [] OTHER -> Decisions
EvaluatorDecisions ==
    LET r == task.tool_result_status      \* "none" counts as a status here
    IN CASE attempt.recovery \in {"retry_same", "retry_with_new_args"} -> {"retry"}
         [] attempt.recovery \in {"replan", "decompose_more", "use_alternative_tool"} -> {"expand"}
         [] attempt.recovery \in {"ask_human", "stop_with_summary"} -> {"fail"}
         [] attempt.recovery = "none" /\ r = "blocked" -> {"fail"}
         [] attempt.recovery = "none" /\ r = "empty" -> {"retry"}
         [] attempt.recovery = "none" /\ r = "failed" ->
                IF RetryLeft THEN {"retry"} ELSE {"fail"}
         [] OTHER -> Decisions

Evaluator ==
    /\ pc = "evaluator_verifier"
    /\ evaluation_decision' \in EvaluatorDecisions
    /\ Goto("task_committer")
    /\ UNCHANGED <<task_tree, agenda, current_task_id, step_count, call, attempt,
                   policy_decision, plan_validation_status, human_approvals, patch_history,
                   completed_tasks, unused_approvals, runs>>

(***************************************************************************)
(* Task Committer.  Each branch stores the task and re-evaluates its       *)
(* parent, and only its parent, from the children the parent lists.        *)
(***************************************************************************)
\* Mutant: children still open are not counted.
ParentStatusOptimistic(tree, kids) ==
    IF \E i \in DOMAIN kids : tree[kids[i]].status \in {"failed", "blocked"}
    THEN "needs_more" ELSE "done"
ParentStatus(tree, kids) ==
    LET with(S) == {i \in DOMAIN kids : kids[i] \in DOMAIN tree /\ tree[kids[i]].status \in S}
        all    == {i \in DOMAIN kids : kids[i] \in DOMAIN tree}
        done   == with({"done"})
        failed == with({"failed", "blocked"})
    IN CASE all # done \cup failed -> "partial"
         [] all = done \cup failed /\ failed # {} /\ done # {} -> "needs_more"
         [] all = done \cup failed /\ failed # {} /\ done = {} -> "failed"
         [] OTHER -> "done"

EvaluateParent(tree, id) ==
    IF id \in DOMAIN tree /\ \E i \in DOMAIN tree[id].children : tree[id].children[i] \in DOMAIN tree
    THEN [tree EXCEPT ![id].status = ParentStatus(tree, tree[id].children)]
    ELSE tree

\* Store the tasks, queue the new ones in front, go on to the memory nodes.
Commit(stored, queued) ==
    /\ task_tree' = EvaluateParent(Store(task_tree, stored), task.parent)
    /\ agenda' = queued \o agenda
    /\ current_task_id' = NoTask
    /\ Goto("memory_writer")
    /\ UNCHANGED <<step_count, attempt, policy_decision, plan_validation_status,
                   human_approvals, patch_history, unused_approvals, runs>>

Retries == evaluation_decision = "retry" /\ RetryLeft
Expands == /\ evaluation_decision = "expand"
           /\ task.depth < MaxDepth
           /\ FallbackSubtasks(task) # <<>>
RollsBack == /\ evaluation_decision \in {"retry", "fail"}
             /\ task.call.tool \in TestTools
             /\ patch_history # <<>>
             /\ patch_history[Len(patch_history)].restorable

\* Mutant: the task to retry is not queued again.
CommitRetryForgets ==
    /\ pc = "task_committer"
    /\ Retries
    /\ Commit(<<[task EXCEPT !.status = "pending", !.retry_count = @ + 1]>>, <<>>)
    /\ UNCHANGED <<call, completed_tasks, evaluation_decision>>
CommitRetry ==
    /\ pc = "task_committer"
    /\ Retries
    /\ Commit(<<[task EXCEPT !.status = "pending", !.retry_count = @ + 1]>>, <<task.id>>)
    /\ UNCHANGED <<call, completed_tasks, evaluation_decision>>

\* Mutant: the new subtasks are stored but not queued.
CommitExpandForgets ==
    /\ pc = "task_committer"
    /\ Expands
    /\ LET subtasks == FallbackSubtasks(task)
       IN Commit(<<[task EXCEPT !.status = "expanded", !.children = Ids(subtasks)]>> \o subtasks,
                 <<>>)
    /\ UNCHANGED <<call, completed_tasks, evaluation_decision>>
CommitExpand ==
    /\ pc = "task_committer"
    /\ Expands
    /\ LET subtasks == FallbackSubtasks(task)
       IN Commit(<<[task EXCEPT !.status = "expanded", !.children = Ids(subtasks)]>> \o subtasks,
                 Ids(subtasks))
    /\ UNCHANGED <<call, completed_tasks, evaluation_decision>>

\* _make_rollback_task: the rollback gets the failed check's parent, which does
\* not list it among its children.
RollbackTask ==
    LET patch == patch_history[Len(patch_history)]
        owner == IF task.parent = NoTask THEN task.id ELSE task.parent
    IN NewTask(Rollback(owner, Len(patch_history)), <<"rollback", patch.path>>, task.parent,
               task.depth, [tool |-> "rollback", args |-> patch.path])

CommitRollback ==
    /\ pc = "task_committer"
    /\ ~Retries /\ ~Expands /\ RollsBack
    /\ Commit(<<[task EXCEPT !.status = "failed"], RollbackTask>>, <<RollbackTask.id>>)
    /\ evaluation_decision' = "fail"
    /\ UNCHANGED <<call, completed_tasks>>

\* The checks of a completed write, as many as the tree has room for.
VerificationTasks ==
    IF /\ evaluation_decision = "complete"
       /\ task.call.tool \in SourceWriteTools
       /\ task.tool_result_status = "success"
       /\ patch_history # <<>>
       /\ ~task.verification_scheduled
       /\ HasRoom
    THEN LET tools == First(VerifyTools, MaxTotalTasks - Cardinality(DOMAIN task_tree))
             about(t) == IF t \in {"git_diff_file", "secret_scan"}
                         THEN [tool |-> t, args |-> patch_history[Len(patch_history)].path]
                         ELSE On(t)
         IN [i \in DOMAIN tools |-> NewTask(Verify(task.id, i), <<"verify", tools[i]>>, task.id,
                                            task.depth + 1, about(tools[i]))]
    ELSE <<>>

CommitFinal ==
    /\ pc = "task_committer"
    /\ ~Retries /\ ~Expands /\ ~RollsBack
    /\ LET checks == VerificationTasks
           final  == IF evaluation_decision = "complete" THEN "done" ELSE "failed"
       IN IF checks = <<>>
          THEN /\ Commit(<<[task EXCEPT !.status = final]>>, <<>>)
               /\ completed_tasks' = completed_tasks \cup {task.call}
          ELSE /\ Commit(<<[task EXCEPT !.status = "pending_verification",
                                        !.verification_scheduled = TRUE,
                                        !.children = Ids(checks)]>> \o checks,
                         Ids(checks))
               /\ UNCHANGED completed_tasks
    /\ call' = NoCall
    /\ UNCHANGED evaluation_decision

\* memory_writer .. observability_reporter: they record the step and change
\* nothing the loop reads.
MemoryAndReport ==
    /\ pc = "memory_writer"
    /\ Goto("scheduler")
    /\ UNCHANGED <<task_tree, agenda, current_task_id, step_count, call, attempt,
                   policy_decision, plan_validation_status, evaluation_decision,
                   human_approvals, patch_history, completed_tasks, unused_approvals, runs>>

\* The thread is invoked again, after the end or a crash at any node: the new
\* input replaces the state, except the two lists that only ever append.
Rerun ==
    /\ runs < MaxRuns
    /\ runs' = runs + 1
    /\ Goto("scheduler")
    /\ task_tree' = [id \in {} |-> NoTask]
    /\ agenda' = <<>>
    /\ current_task_id' = NoTask
    /\ step_count' = 0
    /\ call' = NoCall
    /\ attempt' = NoAttempt
    /\ policy_decision' = "deny"
    /\ plan_validation_status' = "none"
    /\ evaluation_decision' = "none"
    /\ human_approvals' = {}
    /\ unused_approvals' = {}
    /\ UNCHANGED <<patch_history, completed_tasks>>

Node ==
    \/ SchedulerSelects \/ SchedulerFinishes
    \/ PlannerAlreadyExpanded \/ PlannerExpands \/ PlannerKeepsLeaf
    \/ ToolSelector \/ PlanValidator
    \/ ToolPolicy \/ ApprovalGranted \/ ApprovalDenied
    \/ SandboxRunner \/ Executor \/ AsyncJobWaiter
    \/ ExecutionMonitor \/ RecoveryPlanner \/ Evaluator
    \/ CommitRetry \/ CommitExpand \/ CommitRollback \/ CommitFinal
    \/ MemoryAndReport

Next == Node \/ Rerun

Spec == Init /\ [][Next]_vars

\* LangGraph runs the next node while there is one, and the approver answers
\* (the API wait ends by itself); nobody has to start the thread again.
FairSpec == Spec /\ WF_vars(Node)
=============================================================================

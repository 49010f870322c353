# A verification development of beginner_agent

`beginner_agent` is a LangGraph code agent: a Router that sorts requests; a task loop that plans,
asks for permission, runs tools on project files, judges and commits tasks; an approval store shared
by agents and human approvers; and a long-term memory with a scheduled maintenance job. This
directory models the parts of it where order, concurrency and failure matter, checks them with TLC
on small instances, and proves the most important guarantees with TLAPS for every instance.

- [Inventory](#inventory): the components, what makes each correct
- [Modules](#modules): what models what, and how it corresponds to the code
- [Runs](#runs): what each run checks, its bounds and fairness
- [Proofs](#proofs): what is proved, from what, and how
- [Disagreements](#disagreements): where the code and its documentation part
- [Not modelled](#not-modelled) and the [plan](#plan)

To repeat a check: `tlc -config AgentLoop.cfg MCAgentLoop`; a proof: `tlapm AgentLoopProofs.tla`.

## Inventory

| Component | State | Operations | What makes it correct |
|---|---|---|---|
| **Router** `routering/`, `scripts/router_eval.py` | `router_report` of a request; feedback and eval case files | five stages with repair, fallback, strong model; classifier; override; conflicts; correct, replay, gate | failures and disagreeing models never undo a local objection; doubt is reviewed; what was corrected stays corrected |
| **Task loop** `graph.py`, `scheduler.py`, `planner.py`, `plan_validator.py`, `sandbox.py`, `executor.py`, `async_jobs.py`, `execution_monitor.py`, `recovery.py`, `evaluator.py` | the LangGraph state: `task_tree`, `agenda`, current task and call, approvals, patch history | one node per step, a conditional edge after it | no task lost or left undecided, writes only with their approval, completion only after execution, checks after writes, termination |
| **Tool policy** `policy.py` | `PolicyDecision` under construction | seventeen rules over one `PolicyContext` | the severest verdict wins, its reason is shown, writes need a human |
| **Tools** `tooling/` | project files, `.agent_state` | about 90 tools behind `registry.py` | what a tool is registered as covers what it does; changes are reported |
| **Patch plans** `tooling/patch_tools.py`, `executor.py`, `tooling/core.py` | plan files, edited files, `patch_history`, active project | plan, validate, review, preflight, snapshot, apply, format, roll back | what was reviewed is what is applied, once; the history is what happened |
| **Approvals** `approval.py`, `approval_store.py`, `approval_server.py`, `cli.py` | SQLite table `approval_requests` | create or update, get (expires), decide, mark expired, wait | a graph resumes approved only by an answer to its own request, and resumes at all |
| **Lifecycle scheduler** `memory/lifecycle_scheduler.py` | lock (file or PostgreSQL), run history | one call from cron or an operator | one job at a time, one record per returned call, every call ends |
| **Memory store** `memory/store.py`, `jsonl_store.py`, `postgres_store.py`, `lifecycle.py`, `compaction.py` | JSONL file or PostgreSQL table of records | list, upsert with supersession, mark, clean; seed, write, compact, maintain | what vanishes has expired or went in a known way, replaced records name what is stored, one active record per listed key |
| **Memory governance** `memory/policy.py`, `quality.py`, `failure.py`, `effectiveness.py`, `feedback.py`, `retrieval.py`, `privacy_governance.py`, `compaction.py`, `lifecycle.py` | usage and feedback events beside the records | retrieve, note uses, close uses, score, promote, merge | a context has only records of its project, and secrets only where a summary put them; uses counted once; only success is pinned |
| Memory API `memory_api/` | none of its own | paginated queries | (read-only) |
| Checkpointing `checkpointing.py`, `checkpoint_*.py` | LangGraph's saver | health, fallback policy, resume | risky runs stop without durable checkpoints |
| Async job store `async_job_store.py` | SQLite table | upsert, wait | (no tool submits a job) |
| Artifacts, lineage, observability, summaries, clients | files, logs | reports | (outside the loop) |

**How they interact.** A request passes the Router and, if it is for the agent, enters the loop.
The graph is one process per thread; nodes share the LangGraph state and hand over through
conditional edges. At `approval_interrupt` the graph stops; `cli.py` writes a request to the
approval store and resumes the graph with the answer, which a human gives at the terminal or,
from another process, through the HTTP server. The executor runs tools on the files of the active
project, which others edit and switch. Memory nodes run between two steps of the loop. Cron runs
the maintenance job in its own process against the same memory store. A developer corrects
decisions of the Router from the command line, and a release replays the corrections.

**What is hard.** A tree and an agenda rewritten by six different branches; approvals that
outlive the call they were given for; files read, hashed and written in separate steps while
others edit them; stores whose methods read and write in separate statements, shared by
processes; decisions made on a list read earlier; deadlines that race answers; lock files;
retries; nodes that die after their write and run again; model answers that fail at any stage;
scores summed in one module and compared in another. `PROJECT.json` lists these hazards at their
lines, each with the properties that would catch it.

## Modules

### PolicyRules, PolicyChain: `policy.py`

`PolicyRules` has one operator per rule of `POLICY_RULES`, giving the verdict (`deny`, `ask`,
`pass`) on a `PolicyContext`. Arguments are reduced to what the rules read: the size class, the
kind of path, the size of the patch text, what a command profile does. `PolicyAction` states the
decision without a loop. `PolicyChain` is the loop of `evaluate_policy`: `RunRule` runs one rule,
with the early return some rules make once the decision is a denial, and `Apply` is
`PolicyDecision.apply`. So the chain and its declarative meaning are written separately and
compared; `AgentLoop` uses the latter.

### ToolRegistry, ToolCalls: from the policy to the tool

`ToolRegistry` is `TOOL_SPECS`: every registered tool with category, access and risk as
`_build_tool_specs` registers it, the argument checks the schemas make, the command profiles, and,
read from the handlers, which tools change project files or the active project
(`FileChangers`, `ProjectChangers`) and which the name table of `_changed_files_from_tool` knows
(`ReportingTools`). `ToolCalls` extends the rule loop to one whole call: `Refuse`, the human's
answer, who may replace the arguments, and the run of the tool, which validates them again because
the files they name may have changed.

### AgentLoop, AgentLoopProperties: the task loop

`Subsequences` has the one operator the loop needs for lists, `Kept`: the elements at a set of
positions, which is what a comprehension with a condition returns.

`pc` is the node about to run; `next_action` and `done`, which only choose the edge, are folded
into it. Each action is a whole node with the edge after it:

| Action | Node |
|---|---|
| `SchedulerSelects`, `SchedulerFinishes` | `scheduler_node`, first pending task or the end |
| `PlannerAlreadyExpanded`, `PlannerExpands`, `PlannerKeepsLeaf` | `planner_decomposer_node` |
| `ToolSelector`, `PlanValidator`, `ToolPolicy` | the nodes of these names |
| `ApprovalGranted`, `ApprovalDenied` | `approval_interrupt_node` after the resume |
| `SandboxRunner`, `Executor`, `AsyncJobWaiter`, `ExecutionMonitor`, `RecoveryPlanner`, `Evaluator` | the nodes of these names |
| `CommitRetry`, `CommitExpand`, `CommitRollback`, `CommitFinal` | the four ways through `task_committer_node` |
| `MemoryAndReport` | `memory_writer` to `observability_reporter` |
| `Rerun` | a new run on the same thread, after the end or after a crash at any node |

What is abstracted. Task ids keep their structure (parent plus `.1`, `.verify.x`, `.rollback.n`),
because ids collide; titles are kept only as far as the planner compares them. Arguments are a
small set. The model's answers are any the code accepts: subtasks with numbered or self-chosen
ids, any evaluation, any recovery action; its failure is the fallback answer. A tool's result is
its status class, whether it was over the time budget, and the verdict inside its output.
`validate_tool_request` is one set `InvalidCalls`, so within a run it does not change its mind.
Whether the last patch can be rolled back (`before_content` not empty) is chosen when it is
applied. `pending_approval` repeats the current call and is folded into it. The executor's
attempt never has a job id, so the waiter only passes on. A checkpoint that is found missing ends
the run before the loop begins; `MemoryGovernance` has that end, since the retriever ran before it.

`unused_approvals` is a history variable: the answers given, less those executed. `runs` bounds
`Rerun`.

### PatchPlans: edits of files

A text is how often each of a few fragments occurs in it, which is what replacing, counting and
comparing are about; the hash of a text is the text. The executor's path through a call is one
step per read or write of a file: `Preflight` (the executor's hash check), `Snapshot`, `CheckPlan`
and `Revalidate` (the two checks inside `apply_patch_plan`), `ReadText`, `WriteText`, `Record`
(the `patch_history`), and for a rollback `Restore`. Between any two of them `Edit` lets others
change the file, `SetActiveProject` switches the project relative paths resolve to, and `Crash`
sends the node back to its start with the file as it is. `Approve` is the human who sees the plan
as validated. `reviewed`, `spent`, `written`, `overtaken`, `late` and `disturbed` are history.

### ApprovalStore and ApprovalContract: approvals between processes

`ApprovalContract` is what a graph is promised: it resumes "approved" only if a human agreed to this
request, and a request with a time limit is answered. Requests about one task and tool may come to
share a record (`Share`); then it is enough that a human agreed to one of those about the same
(`MayApprove`), and that is all the code gives. `ApprovalStore` is the code: one row per id, one
process per graph thread and per request handler, one step per SQL statement, since each statement
commits alone. `GetFindsExpired` and `MarkExpired` are the read and the update hidden in `get`,
which every method calls. `RequestId` is the choice of the stable id or a fresh one; `Upsert`,
`Poll`, `GiveUp`, `DecideLooks`, `DecideUpdates` and `DecideReturns` follow the methods line by
line. Clocks are two facts that become true: `due` for `expires_at`, `late` for the deadline of
`wait_for_decision`; the two are computed from different clocks, so neither implies the other. The
substitution into the contract is the identity on `asked`, `agreed`, `shared` and `answer`; what has
to be shown is that the table and the protocol in between keep it. `shared` (requests whose record
was taken over, and those that took it) and `past` (the requests that had their answer when a thread
looked its id up) are history: `SettledStaysSettled` says with `past` that a *later* request gets a
record of its own, which is what the comment at `approval_store.py:242-244` is about. The audit
table is not read by any method that decides and is left out. Database errors raise out of a method
and end the process; no property speaks of a process that ended, and stopping is allowed by `Spec`.

### LifecycleScheduler: the maintenance job's scheduler

One process per call of `run_memory_lifecycle_scheduled`: history look-up, lock, attempts,
record, release, in the order of the code. For PostgreSQL the lock is one statement and the
server drops it when the session dies. For files it is `exists`, `stat`, `unlink`, `open(O_EXCL)`
and a `finally` that unlinks whatever is there. `CallDies` kills a call at any point; `LockGetsOld`
is the passing of the TTL, which does not depend on whether the owner still runs. A save may fail
(`AttemptFails` within the attempts, `SaveRaises` elsewhere). A commit whose acknowledgement is
lost is not modelled. Its names (`SchedulerSpec`, `historyBackend`) leave room for those of
`MemoryStore`, so that one module can extend both.

### MemoryPlans, MemoryStore: the records under concurrent processes

`MemoryPlans` is what is decided from a list of records: the four passes of the lifecycle job and
the grouping of the compaction, as the sequence of store calls to be made. `MemoryStore` is the
processes making them: `SeedPreferences` (retriever), `MemoryWriter`, `CompactMemories`, `JobStarts`
and `JobLists` list the table and queue their calls; `Begin` and `Finish` are the two halves of a
call, reading and writing the file, or the transaction whose `UPDATE`s see what was committed when
they began. `Crash` may come between any two. `Lists(t, n)` is what `list_records(n)` may return: in
PostgreSQL the newest n, in the file n of the records, because a rewritten line moves to the end and
the order of the lines is left open. The job and the compaction list no more than
`LifecycleSourceLimit` and `CompactionSourceLimit`; a write of the file keeps `MaxRecords`
(`Written`), the record of the upsert among them; and `CrashInWrite` leaves a part of the lines,
since `write_text` truncates the file first. A listing that drops expired lines and writes the rest
back is one step, unless it dies; a reader that meets a file half written, or a character cut in
two, is not modelled. A record is reduced to its id, contradiction key, group, failure pattern,
paths, whether it is plain (not secret, and with a summary), source, status, pinning, policy,
whether it expires, value and what replaced it. `WellFormed` is what every writer keeps to (only the
writer's lessons expire, they have no contradiction key and replace nothing, the id of a preference
tells its key); a table (`IsTable`) is a sequence of well-formed records with one for each id.
`Overlapped` are tables that two transactions with one key have left behind, from which PostgreSQL
runs start; `OverlappedAssumption` asks no more of them than that they are tables, and compaction
has replaced nothing in them yet. `lost` (the file lost records to a race, its limit or a death in a
write), `disturbed` (another process wrote meanwhile, or a process's own call overflowed the file)
and `overlooked` (what was not on the job's list) are history and name the exceptions.

### MemoryScores, MemoryGovernance: what becomes of an experience

`MemoryScores` is the arithmetic of `quality.py`, `policy.py`, `failure.py` and `store.py` in
integers of 1/10000, as the code rounds; the word counts of a text are inputs at their two ends.
`Evaluations` is every combination of policy, value and status it can give, and `MemoryStore` takes
its records from the same set, so `StoreGetsWhatItExpects` joins the two models. `MemoryGovernance`
is runs that follow one another for changing identities: `Retrieve` and `RecordUse` (one event after
the other), `Commit`, the writer's `CloseUse` and `GiveFeedback`, `WriteMemory` with promotion and
repair, `EndRun`, and `Crash` at any of them, after which the node runs again or the thread is given
up. `EndRun` is both ends of a run: after a task, and before the first one, when
`postgres_checkpoint`, which follows the retriever, blocks it (`blocked`). `Compact` (after every
task) and the lifecycle job's `Summarize` and `JobCompacts` (in the states `JobTimes`) store one
record for a group of several. Groups are formed by failure pattern, file, or project name, kind,
tool and result, over the records of all tenants, as in the code. A merged record carries its
sources' `origins`, and whether a summary went into it (`summarized`), as history. A merge is one
step here; `MemoryStore` has the crash between its two store calls. Not repeated here are the file
scope and the retriever's choice among contradicting records, which only take records away from
those a run may be shown. The event files keep only the last `MaxEvents`: what the code folds from
the events is read off the positions still kept. `EventsAssumption` says that the records shown to a
run fit into the file (8 and 3000 by default), `FindingsAssumption` what a privacy scan may find,
`ScanAssumption` that a secret scan brings no evidence of success with it (`secret_scan_tool`
returns a status and findings), `NoToolAssumption` that the tool `none`, which the policy denies,
never succeeds.

### Router, RouterRelease: the Router and its corrections

`Router` is pure: `StageAnswers` (a model call with at most so many repairs, the strong model,
the fallback), the stages, `Merged` (`merge_security_signals`), `Suspected` and `Overridden` (the
branches at the end of `run_multistage_router`), `AfterContext`, `Conflicts`, `ReviewReasons`.
`RouterReports(t)` is every report the Router may make of a text, over all answers and failures of
all models. What a regular expression finds in a text is a constant of the text, once as typed and
once as redacted for the models, because rules run on one and conflicts on the other.
`RouterRelease` is the rest of a decision's life: `Correct` (with the deduplication by feedback
id), `AppendCase`, `CommandDies` between the two, `AppendFeedback`, and `Gate`, the replay of the
cases against the floors. `Appended` trims the files at `MaxCases`; `Torn` is what a command that
dies in a write leaves of them. `Ignored` are the recorded corrections that a replay did not have
among its cases or did not answer as asked.

## Runs

| Run | Module, instance | Shows |
|---|---|---|
| `policy_chain` | every registered tool under every permission and fact, and its call (751 000 states) | the rule loop decides the severest verdict for its reason, and no change of a project goes unasked or unreported |
| `agent_loop` | 4 tools, 6 steps, depth 2, 5 tasks, 1 retry, 2 subtasks (271 584 states) | the safety of the loop |
| `agent_loop_ends` | 3 steps, 3 tasks, 2 runs of the thread (11 086 states) | `LoopEnds` |
| `approval_store` | two agents with one task and tool (API with two requests, terminal with one), one approver (546 163 states) | `SettledStaysSettled`, `KeepsContract` |
| `lifecycle` | three calls, two with one key, one forced, both backends, 2 attempts (97 948 states) | `AdvisoryLockExcludes`, `RecordsTellResults`, `CallsEnd` |
| `patch_plan` | one file in each of two projects, two plans, 5 calls, one edit, one switch, one crash (1.0 million states) | only reviewed text is patched, once; the history is true; writes keep the rest of the file |
| `memory_store` | an agent that runs twice for two users, two lessons, the job, four records kept, three listed, one crash, both backends (1 573 601 states) | what may vanish and how, replacements exist, the job settles the keys it listed, seeding restores preferences |
| `memory_governance` | a run of two tasks and one of one for two tenants, 2 records per context, 4 events kept, two merges, one crash (1 412 814 states) | contexts are governed, uses counted once, promotion earned |
| `router` | four texts, three confidences, all answers of all models; two objections, three cases, one gate after another (204 153 states) | local objections stand, doubt is reviewed, a passed release ignores no more corrections than its floors allow |
| `policy_approval`, `memory_governance_audit`, `router_suspected` | the same instances, one property each | the disagreements below |

**Bounds.** `policy_chain` varies each fact where a rule reads it, over the whole registry. In
`agent_loop` the budget lets a write be proposed, approved with other arguments, checked, fail its
check, be rolled back and be retried, and lets the tree fill so that checks no longer fit; retries
and depth each reach their limit. A write proposed with a self-chosen id can collide with a task
of the tree. `agent_loop_ends` needs few steps since termination is a matter of each step; two
runs show that the lists which survive do not matter. In `approval_store` one agent asks twice so
that a settled record is met again, both waiting modes are present, and both ask about the same
task and tool: one looks the id up while the other's record is pending, being decided or expiring,
and upserts after it. In `lifecycle` two calls compete for one
key, the third ignores the history, and two attempts allow a retry.

In `patch_plan` five calls hold a plan applied, applied again after a crash, formatted and rolled
back twice; one patch keeps its old text inside the new one, so that it would fit again; the two
projects' files differ, so that a switch shows. In `memory_store` the smallest groups are two
(compaction) and three (summary), so that two lessons or three overlapped preferences form one; an
agent that runs twice meets what the job did to its first run, and the job may start again and
again. A file of four and lists of three are reached by two preferences, two lessons and a summary,
so the file overflows and the job overlooks records; PostgreSQL runs start from two or three
contradicting preferences. The code's limits are 500 and 300; the theorems are for any. In
`memory_governance` two successes promote, which is the second task or run; four events kept and two
records per context let events be pushed out while they are open. Groups of two are merged (four and
six in the code), and two merges allow a compaction of a summary;
the job works between runs and while a writer judges, the times at which its change meets a decision
already made. The tenants have a project of the same name, so that groups cross them. In `router`
there is a text for each kind of finding, one whose rules hit only before redaction, and confidences
below, between and above the limits. Of the three cases kept one may fail under the floors of 60 %
and 65 %, as one of ten may under the defaults of 90 % and 80 %, so a release does pass that ignores
a correction; a fourth case pushes one out. The corrections include one the Router never answers.
`RequestsFirst` takes requests before commands: they share no file but the requests' own events, so
the order does not matter.

**Fairness.** `agent_loop_ends`: weak fairness of the next node. LangGraph runs the next node as
long as there is one; every node ends, since model and tool calls have time limits and waiting for
an approval ends by itself in API mode. A human who never answers at the terminal is outside this.
It is assumed that the recursion limit of the installed LangGraph is above the nodes of `max_steps`
steps: the code sets none. `Rerun` is not fair. `approval_store`: weak fairness of the methods'
steps and of the waiters' deadlines; nobody has to raise a request, look at the page or answer.
`lifecycle`: weak fairness of each call's steps, since a running process goes on and the job is
assumed to end; kills and ageing are not fair. The other runs check safety only: nothing in that
code promises progress beyond ending.

Deadlock is checked in `memory_store` and `router`. The other systems really stop (the thread has
ended, all requests are answered, all calls have returned, the bounded calls are made).

**Mutants.** Each property is broken by a plausible bug, defined beside the definition it changes
and marked `Mutant`: a branch that forgets to queue a task, an approval that lifts a permission,
an update that loses the insert, an ignored lock.

## Proofs

`ToolCallsProofs` has two parts. For any registry satisfying `ToolSpecsAssumption`: `TypeCorrect`;
`ChainIsSeverest`, with an invariant that relates the decision so far to the verdicts of the rules
already run, where a rule skipped after a denial cannot matter because the decision is then
already `deny`; `ReasonDecides`, with the same invariant for the first rule that reached the
severity; `WritesAreApproved`, from rule 8 alone; `DecisionNeverLoosens`. For any contexts of the
registered tools: `ChangesAreApproved`. Every tool whose handler changes the project is registered
as a write (`ChangersWrite`, which reads the registry), the rule loop of a call is that of
`PolicyChain` (`CallsRunTheChain`), so `WritesAreApproved` applies; and an answer of the human is
the only other way to the tool layer. `ChangesAreReported` compares the handlers that write files
with the names `_changed_files_from_tool` knows.

`RouterProofs`, for any texts, rules, hits and settings satisfying `TextsAssumption`,
`ConfigAssumption` and `FallbacksAreUnsure` (one of the limits that send a decision to review is
above the 45 % of the fallback rules, as in `.env.example` and the defaults): `LocalSecurityHolds`,
because the merge of the two security signals never falls below the local one, the override follows
it, and no later step touches what it sets; `DoubtIsReviewedHolds`, because a stage that fell back
carries the fallback's confidence through the minimum of the three, or a source or repair that is a
reason of its own. `CorrectionsAreReplayed`, by `PromisesInv`: the feedback id that makes a
correction a duplicate belongs to one that was promised, lost, or is being written, so answering
"duplicate" promises nothing that is not in the cases. `PassedReplaysHonour` adds the arithmetic of
the gate, for any number of cases and any floors: what was ignored is among the cases the replay got
wrong (`IgnoredWereReplayed`), distinct corrections are distinct cases, and a pass rate at or above
a floor leaves at most the rest to failures (`FloorBoundsFailures`).

`AgentLoopProofs`, for any constants satisfying `LoopConstantsAssumption` and
`WritesAskAssumption` (the permission policy of `state_factory.py` allows no write tool outright):

- `WritesSpendApprovals`. The lemma `PolicyNeverAllowsWrites` shows that Tool Policy lets no write
  pass: an unapproved task is asked about, and an approved one is denied by the defect described
  below. So the executor is only reached from the approval, and the inductive invariant
  `ApprovalWaits` carries the answer for the current call from there to the executor.
- `CompletionsWereExecuted`. `CompleteMeansExecuted` speaks of the committer only; its
  strengthening `AttemptInv` says at every node which attempt fields the scheduler's reset, the
  executor, the monitor and the recovery may have left, and that a valid plan which reaches the
  evaluator without an execution carries a `blocked` task.
- `TypeCorrect`. `TypeOK` is not inductive: that the evaluator's `committed` is a record, that the
  planner's ids are task ids and that the current task exists all depend on the node. `LoopTypes`
  says, per node, what the fields left by the earlier ones hold.
- `NothingIsLost` and `EndsSettled`. `LeavesAccounted` is stated for one id at a time
  (`Accounted`): a leaf of the tree is settled, queued, or current at a node between the scheduler
  and the committer. The steps that rewrite the tree are brought into two shapes first, `WorkShape`
  (a node that only marks the current task) and `CommitShape` (the four branches of the committer),
  so that the argument about tree and agenda is made once per shape and not once per node. That
  the agenda loses exactly the selected task, and an expansion queues exactly the new leaves, are
  lemmas about `Kept`.
- `UncheckedWritesOnlyWhenFull`. The committer goes by the task's stored call and result.
  `CallIsBound` says that between the validator and the executor the call in hand is the task's
  own, and `TasksHonest` that a stored success of a source write has a patch in the history, which
  never empties; so the branch that completes such a write without checks is the one that found no
  room, and a tree never shrinks.
- `WritesWaitForTheirChecks`. The obstacle is ids: a check might replace, or be taken for, a task
  of another family. `Families` says that a task with a call of its own has only subtasks it named
  itself (`Kin`), that once it is done they are, and that a task pending or at work has none; so no
  later step takes back a check's verdict.

`SubsequencesProofs` has what these proofs need about lists: which elements `Kept` (the model's list
comprehension) returns, that it returns each and once (`KeptElements`, `KeptPositions`), what one
more element adds (`KeptAfterAppend`), and how positions are counted (`Places`). Induction is out of
the provers' reach, but the least-number principle is not, when it is stated for a set:
`LeastNatural` and `GreatestPosition` take its place, and `RanksArePositions` follows from them.

`MaintenanceProofs` has two parts. For any number of calls and attempts of the scheduler:
`SchedulerTypeCorrect`; `AdvisoryLockIsExclusive`, by the invariant that a call between lock and
release is the owner of the PostgreSQL lock; `HistoryTellsResults`, by an invariant that ties where
a call is to whether it has a record and what it returns.

For any agents, users, preferences, lessons, group sizes and crashes of `MemoryStore`, on both
backends: `StoreIsTyped`, `ReplacementsAreStored`, `JobsSettleKeys`, `SeedingRestoresAll` and
`OnlyTheExpiredVanish`. None of them is inductive, because they speak of a process that has made
all its calls; the invariant `StoreInv` speaks of the calls still to be made. Its part for the
table (`Shared`) says that it is one, and that it has whatever its records name as their
replacement. Its part for a process (`ProcInv`) says:

- `HasCalls`: what is left to do is a list of well-formed calls, and an open call on the file has
  read a table;
- `Supported`: while the file lost nothing, what a mark names as replacement is in the table or is
  stored by an earlier call of the same list; a crash drops the whole list, so it leaves no mark
  without its upsert;
- `JobSettles`: while nobody has disturbed the job, every two active records of one key are told
  apart by a call it still has to make, or one of them was not on its list. Its upserts never add a
  contradiction, since they supersede what they find, and in PostgreSQL what they found when they
  began (`view`) is still all there is;
- `AgentRestores`: while nobody has disturbed the agent, every preference of its user is active or
  still to be stored, and storing one never supersedes another.

The plans themselves are lemmas about the operators of `MemoryPlans`: `SettlingPlan` (the third
pass decides every contradiction in its list, in favour of a record of the list), `CompactingPlan`
(each mark follows the upsert it relies on), `RewritingPlan` and `SummaryPlan`; and so are the
stores: `MarkTable`, `UpsertTable`, `PrunedTable` say what may be active, present or replaced after
a call, `WholeTable` and `LastRecords` what a write computes and what the limit of the file keeps of
it, and `FinishTable` joins the two backends. `SetToSeq` of a finite set reaches every element
(`Enumerated`), for which the paths of a record and the configured preferences have to be finite.

`MemoryGovernanceProofs`, for any experiences, identities, judges, thresholds, budgets and crashes
satisfying `BoundsAssumption`, `EventsAssumption`, `FindingsAssumption`, `ScanAssumption` and
`NoToolAssumption`, and for any compactions and summaries:

- `TypeCorrect`, with `StateIsTyped` for what the nodes have in hand (`Typed` is both).
- `RunsSeeOnlyWhatTheyMay`. The retriever decides by sensitivity, visibility and owner, so the
  invariant needed is about the store: `RecordsAreLabelled` says that a record labelled internal
  came from nothing with a finding and from no secret scan, unless a summary went into it, and that
  no record has a visibility that reaches beyond its project. A compaction keeps it because it takes
  the strongest label of its sources (`CompactedShape`); a summary does not, which is why the
  statement excepts it. What a merge leaves of the other records is `Marked`.
- `TheStoreGetsWhatItExpects`, by bounds on the sums. A record that expires has importance at most
  93.84, quality at most 90.30, trust at most 91.50 and decay at least 10, which keeps its value
  below the threshold of promotion; a pinned one has importance of 95 or more. Each score has a
  lemma (`ImportanceOf`, `QualityOf`, `TrustOf`, `DecayOf`), joined in `GovernedIsExpected`.
- `PinnedRecordsAreEarned`, by `SuccessesWereHad`: the writer's stored successes of a tool, and the
  one the writer has in hand, were all had; a writer that died may have counted one twice, and a
  merge adds none (`MergeAddsNone`).
- `NoUseCountsTwice`, by counting positions of the event file: `NotesComeFirst` (within a run no
  use is noted after one was closed) and `UsesAreOwed` (closings still to be made and closings made
  do not exceed the notes).
- `NoUseIsForgotten`, by `RunsEndAtRest` and `UsesAreHandled`: a noted use of the current run is
  answered, in the list the writer is working on, or open and still in the event file; at `working`
  it may be open only before the first task, and a run that ends there is `blocked`.

`PatchPlansProofs`, for any files, texts, plans and bounds (`NoneAssumption`: the mark of no call is
not itself a call): `TypeCorrect`; `ReviewedTextIsPatched`, by `ReviewInv`: the hash of a plan that
was validated and not overtaken is the reviewed text, and from the executor's last check to its
write the file holds that text unless the step is marked late; `AppliedOnce`, by `SpentInv`: the
file of a spent plan no longer has the plan's hash, and the plan in the executor's hand is not
spent; `WritesKeepTheRest`, step by step from what the executor read; `HistoryTellsChanges`, by
`HistoryInv`: while a call is undisturbed the executor's snapshot is the text it is about to change,
and the entry it is about to record makes up for the one change written and not yet recorded.

`ApprovalStoreProofs`, for any threads, approvers and requests, whether or not threads ask about the
same task and tool: `TypeCorrect`, `SettledStays` and `StepsOfTheContract`, the step part of the
refinement. Neither of the last two is inductive. Their strengthening `CInv` says whose request a
record is and what its status needs (`Recorded`); that the request in hand has no answer, that no
other record is its own, and that the record an upsert is about to take was not settled for a graph
that had its answer at the look-up (`Asks`); and that what a human has on the screen is about what
the record is about (`Shown`). That the record in hand may by now be another request's, and that
both are then shared, is `InCommon`; what a step leaves to the other processes, whose records it may
take over, is `OthersKeep`.

Only model-checked: the liveness properties `LoopEnds` and `CallsEnd`, and the whole refinement
`KeepsContract`, whose fairness and ENABLED are outside the prover (its step part is proved). Every
other property of a passing run is a theorem. What a recursive definition computes is out of reach,
so the modules under proof use no `SelectSeq` or fold: lists are filtered by `Kept` and built as
functions on their positions.

## Disagreements

Shown by a run:

1. **An approval denies** (`policy_approval`). `rule_configured_permission` asks while the task is
   unapproved and otherwise falls through to the denial of whatever is not `allow`. A task whose
   approved write failed and is retried is refused. It is also the only thing that keeps an
   approval, stored per task id, from covering later calls of the task: a repair has to spend the
   approval.
2. **A sensitive hit ends the retriever** (`memory_governance_audit`). `retrieval.py:125` calls
   `_safe_memory_value`, which the module does not import: a NameError instead of the audit event
   and the context.
3. **A suspicion lowers the risk** (`router_suspected`). An injection the classifier merely
   suspects sets the risk to medium, also where the risk stage had said high; the classifier "may
   only add or raise risk" (`security_classifier.py:23`).

Met while modelling, without a run of their own:

4. *A failing check is a success.* Checks report in JSON; `classify_tool_output` and the monitor
   see a tool that worked. `src/README.md:381` promises the Recovery Planner. Only the evaluator's
   model may notice.
5. *The tree outgrows `max_total_tasks`* (`state.py:762`): the planner compares before it adds up
   to four tasks, the committer's expand and rollback do not compare.
6. *Two threads, one request* (`approval_store.py:249`). A pending row of the same task id and tool
   is taken over by the second thread's request: a thread may resume approved by an answer to the
   other's request, although the comment at lines 242-244 wants threads kept apart. A row settled
   between the look-up and the upsert is set back to pending. The contract's `Share` and the
   `past` of `SettledStaysSettled` are what remains true: only requests raised before the first was
   answered can do this.
7. *Two jobs with the lock file* (`lifecycle_scheduler.py:271`). An old file is removed while its
   owner works, and `finally` removes files of others; line 321 says one job at a time. A run_key
   can also succeed twice, since the history is looked up before the lock.
8. *A rollback in another project* (`executor.py:285`). The snapshot's relative path is resolved
   against the project that is active at the rollback.
9. Writes are not checked when the tree is full, against `src/README.md:380`
   (`UncheckedOnlyWhenFull` is what holds). A rejected plan or an unsupported sandbox leaves the
   task's result status `none`, so the model may judge it complete (the exceptions of
   `CompleteMeansExecuted`). `decide` overwrites an expiry that came between its look and its
   update. The evaluation of a parent does not reach the grandparent; a rollback task is not among
   its parent's children; `patch_history` and `completed_tasks` survive into the next run of a
   thread.
10. Patches. The refusals of `apply_patch_plan` are classified as success. It validates the plan
    again, which overwrites the hash the human's review was about, so after a race the plan passes
    for reviewed. A crash between write and checkpoint leaves the write out of `patch_history`. A
    `format_apply` that changes nothing becomes the last patch.
11. Tools. An approver's modified arguments are only validated, the policy does not see them.
    `run_pytest`, `run_mypy`, `run_cargo_*` and `get_diagnostics` run profiles for which
    `rule_command_profile_risk` asks only when `run_allowed_command` or `run_package_script` names
    them.
12. Memory. Summaries supersede the newest, pinned preference of a group of six, against
    `memory/policy.py:547`; the retriever seeds it again (`SeedingRestores`). A crash between the
    upsert of a compaction and the marking leaves its sources active. The committer's notes carry no
    `metadata`, `human_confirmed` or `evidence`, so the rules about them never apply; a usage is
    never closed as "helped"; a record's own older version counts as a matching success; the floors
    of a failure profile undo the caps of its quality. The job settles only the keys on its list:
    contradicting preferences outside the newest `min(limit, 300)` stay active side by side. A full
    file drops its oldest lines, also pinned ones (`jsonl_store.py:59`); `write_text` truncates
    before it writes, so a death in between takes the rest; two writers of the file lose each
    other's records. Compaction and summaries group the records of all tenants (`compaction.py:129`,
    `lifecycle.py:284`), supersede them and show the result to one project, against the tenant
    isolation of `memory_api/TODO.md:23`; a summary is "internal" whatever its sources are, so the
    redacted titles of secret and personal records reach contexts. A run that the checkpoint node
    blocks leaves the uses its retriever noted without an answer.
13. Router. A release may pass and ignore corrections, as many as the floors leave open: one in ten
    at the default pass rate of 90 %, also one a developer was told is recorded. A crash between
    feedback and case makes the retry a duplicate, so the case is never made. The first stored case
    replaces the whole core dataset, and with it the strict categories, in the gate. A strong model
    that fails its validation throws away the first model's accepted answer. Fallback rules read
    redacted text, conflict rules the typed one. A failed classifier changes the source to
    "fallback" but not the confidence, and is not reviewed. `regression_gate.py` fingerprints
    environment names that `load_router_failure_policy` does not read.

## Not modelled

What reading tools return; texts, prompts and pattern matching, which are inputs; vector search,
rerank weights and embeddings; the fall-back of the memory store from PostgreSQL to files; the
gate's baseline, prompt rollout and trends; the Memory API, whose queries are one SQL statement
each; checkpoint health and policy, a decision made once at start over LangGraph's saver; the async
job store, which no tool uses; migrations, reports, lineage and summaries; clients and
configuration. Directories with only a TODO file (`sandbox_backends`, `remote_worker`,
`artifact_storage`, `checkpoint_backends`, `observability_backends`) have nothing to model.
`PROJECT.json` has the reason for each component.

Within the models: the scheduler's lock session is lost only with its process (a connection dropped
by the server while the process goes on would let a second job in; `AdvisoryLockExcludes` does not
speak of it). `RecordsTellResults` is about the record of each call, not about a `run_key` that
succeeds twice. `HistoryIsWhatHappened` excepts crashes and switches, and is about one call: it does
not see that a failed check of a second run may roll back the first run's patch. In the Router's
instance no text asks to show secrets (`AsksToShow` is empty), so `LocalSecurityStands` is exercised
by an injection and an unsafe action; the theorem is for any texts.

## Plan

What remains worth doing: pages of the Memory API while records are inserted; the fall-back of the
memory store when PostgreSQL goes away between two calls of one process.

-------------------------- MODULE AgentLoopProofs --------------------------
(***************************************************************************)
(* What the task loop guarantees for every tool registry, every budget and *)
(* everything the model, the tools and the human may answer:               *)
(*   - a write spends the approval of exactly its own call;                *)
(*   - only a successful execution of this step is judged complete;        *)
(*   - no task is lost, and every leaf has its verdict at the end;         *)
(*   - a write is done without checks only in a full tree, and otherwise   *)
(*     only once its checks are.                                           *)
(*                                                                         *)
(* The proofs go by the shape of a step: a node at work marks the current  *)
(* task (Marking), the planner and the committer store it with new tasks   *)
(* (ExpandShape, Committing), and the committer re-evaluates its parent.   *)
(***************************************************************************)
EXTENDS AgentLoopProperties, SubsequencesProofs, TLAPS

(***************************************************************************)
(* A write tool never gets past Tool Policy without a human: an unapproved *)
(* task is asked about, and for an approved one the "ask" permission       *)
(* denies.  So the executor is only reached through ApprovalGranted.       *)
(***************************************************************************)
LEMMA PolicyNeverAllowsWrites ==
    ASSUME IsWrite(call.tool)
    PROVE  PolicyAction(PolicyContext) # "allow"
<1> DEFINE c == PolicyContext
<1>1. c.tool = call.tool /\ call.tool \in DOMAIN ToolSpecs /\ Writes(c)
  BY DEF PolicyContext, IsWrite, Writes, Known
<1>2. c.configured # "allow"
  BY <1>1, WritesAskAssumption DEF PolicyContext, IsWrite
<1> HIDE DEF c
<1>3. Verdicts(c)[4] = ConfiguredPermission(c)
  BY DEF Verdicts
<1>4. ConfiguredPermission(c) \in {"ask", "deny"}
  BY <1>2 DEF ConfiguredPermission, Deny
<1>5. PolicyAction(c) # "allow"
  BY <1>3, <1>4 DEF PolicyAction, RuleIndex
<1> QED BY <1>5 DEF c

\* Between the gate and the executor the approval of the current call waits.
ApprovalWaits ==
    pc \in {"sandbox_runner", "executor"} /\ IsWrite(call.tool) => Approval \in unused_approvals

LEMMA ApprovalWaitsHolds == Spec => []ApprovalWaits
<1>1. Init => ApprovalWaits
  BY DEF Init, ApprovalWaits
<1>2. ApprovalWaits /\ [Next]_vars => ApprovalWaits'
  <2> SUFFICES ASSUME ApprovalWaits, [Next]_vars,
                      pc' \in {"sandbox_runner", "executor"}, IsWrite(call.tool)'
               PROVE  Approval' \in unused_approvals'
    BY DEF ApprovalWaits
  <2>1. CASE ToolPolicy
    <3>1. PolicyAction(PolicyContext) = "allow"
      BY <2>1 DEF ToolPolicy, Refuse, Goto
    <3>2. call' = call
      BY <2>1 DEF ToolPolicy, Refuse
    <3> QED BY <3>1, <3>2, PolicyNeverAllowsWrites DEF IsWrite
  <2>2. CASE ApprovalGranted
    BY <2>2 DEF ApprovalGranted, GateUnchanged, Approval
  <2>3. CASE SandboxRunner
    <3>1. /\ pc = "sandbox_runner"
          /\ UNCHANGED <<call, current_task_id, unused_approvals>>
      BY <2>3 DEF SandboxRunner, ExecutionUnchanged
    <3> QED BY <3>1 DEF ApprovalWaits, Approval, IsWrite
  <2>4. CASE UNCHANGED vars
    BY <2>4 DEF vars, ApprovalWaits, Approval, IsWrite
  <2>5. CASE SchedulerSelects \/ SchedulerFinishes
    BY <2>5 DEF SchedulerSelects, SchedulerFinishes, Goto
  <2>6. CASE PlannerAlreadyExpanded \/ PlannerExpands \/ PlannerKeepsLeaf
    BY <2>6 DEF PlannerAlreadyExpanded, PlannerExpands, PlannerKeepsLeaf, AfterPlanner, Goto
  <2>7. CASE ToolSelector \/ PlanValidator \/ ApprovalDenied
    BY <2>7 DEF ToolSelector, PlanValidator, ApprovalDenied, Refuse, Goto
  <2>8. CASE Executor \/ AsyncJobWaiter \/ ExecutionMonitor \/ RecoveryPlanner
    BY <2>8 DEF Executor, AsyncJobWaiter, ExecutionMonitor, RecoveryPlanner, Goto
  <2>9. CASE Evaluator \/ CommitRetry \/ CommitExpand \/ CommitRollback \/ CommitFinal
    BY <2>9 DEF Evaluator, CommitRetry, CommitExpand, CommitRollback, CommitFinal, Commit, Goto
  <2>10. CASE MemoryAndReport \/ Rerun
    BY <2>10 DEF MemoryAndReport, Rerun, Goto
  <2> QED BY <2>1, <2>2, <2>3, <2>4, <2>5, <2>6, <2>7, <2>8, <2>9, <2>10 DEF Next, Node
<1> QED BY <1>1, <1>2, PTL DEF Spec

\* A write tool that reaches the tool layer holds an unspent human answer for
\* exactly this task, tool and arguments.
THEOREM WritesSpendApprovals == Spec => []WriteSpendsApproval
<1>1. ApprovalWaits => WriteSpendsApproval
  BY DEF ApprovalWaits, WriteSpendsApproval
<1> QED BY <1>1, ApprovalWaitsHolds, PTL

(***************************************************************************)
(* The task tree: what setting one task, storing several and re-evaluating *)
(* a parent do to it.                                                      *)
(***************************************************************************)
IsTree(tree) ==
    /\ IsFiniteSet(DOMAIN tree)
    /\ tree \in [DOMAIN tree -> Tasks]
    /\ \A id \in DOMAIN tree : tree[id].id = id

LEMMA PutIsTree ==
    ASSUME NEW tree, IsTree(tree), NEW t \in Tasks
    PROVE  /\ IsTree(Put(tree, t.id, t))
           /\ DOMAIN Put(tree, t.id, t) = DOMAIN tree \cup {t.id}
           /\ Put(tree, t.id, t)[t.id] = t
           /\ \A id \in DOMAIN tree \ {t.id} : Put(tree, t.id, t)[id] = tree[id]
<1>1. IsFiniteSet(DOMAIN tree \cup {t.id})
  BY FS_AddElement DEF IsTree
<1> QED BY <1>1 DEF IsTree, Put

\* The last of the tasks with an id is the one stored.
LEMMA LastStored ==
    ASSUME NEW tasks \in Seq(Tasks), NEW i \in DOMAIN tasks
    PROVE  \E m \in DOMAIN tasks :
              /\ tasks[m].id = tasks[i].id
              /\ \A j \in DOMAIN tasks : tasks[j].id = tasks[i].id => j <= m
<1> DEFINE Same == {j \in DOMAIN tasks : tasks[j].id = tasks[i].id}
<1>1. DOMAIN tasks = 1..Len(tasks) /\ Len(tasks) \in Nat
  OBVIOUS
<1>2. Same \in SUBSET (1..Len(tasks)) /\ Same # {}
  BY <1>1
<1>3. PICK m \in Same : \A j \in Same : j <= m
  BY <1>1, <1>2, GreatestPosition
<1> QED BY <1>3

\* Of several tasks with one id, the last is stored.
LEMMA StoreIsTree ==
    ASSUME NEW tree, IsTree(tree), NEW tasks \in Seq(Tasks)
    PROVE  LET ids == {tasks[i].id : i \in DOMAIN tasks}
           IN  /\ IsTree(Store(tree, tasks))
               /\ DOMAIN Store(tree, tasks) = DOMAIN tree \cup ids
               /\ \A id \in ids : \E i \in DOMAIN tasks :
                     /\ tasks[i].id = id /\ Store(tree, tasks)[id] = tasks[i]
                     /\ \A j \in DOMAIN tasks : tasks[j].id = id => j <= i
               /\ \A id \in DOMAIN tree \ ids : Store(tree, tasks)[id] = tree[id]
<1> DEFINE ids == {tasks[i].id : i \in DOMAIN tasks}
           last(id) == CHOOSE i \in DOMAIN tasks :
                           /\ tasks[i].id = id
                           /\ \A j \in DOMAIN tasks : tasks[j].id = id => j <= i
           new == [id \in DOMAIN tree \cup ids |->
                       IF id \in ids THEN tasks[last(id)] ELSE tree[id]]
<1>1. Store(tree, tasks) = new
  BY DEF Store
<1>2. \A id \in ids : /\ last(id) \in DOMAIN tasks
                      /\ tasks[last(id)].id = id
                      /\ \A j \in DOMAIN tasks : tasks[j].id = id => j <= last(id)
  <2> TAKE id \in ids
  <2>1. PICK i \in DOMAIN tasks : id = tasks[i].id
    OBVIOUS
  <2> QED BY <2>1, LastStored
<1> HIDE DEF last
<1>3. IsFiniteSet(ids)
  <2> DEFINE idOf == [i \in 1..Len(tasks) |-> tasks[i].id]
  <2>1. IsFiniteSet(1..Len(tasks))
    BY FS_Interval
  <2>2. idOf \in Surjection(1..Len(tasks), ids)
    BY DEF Surjection
  <2> QED BY <2>1, <2>2, FS_Surjection
<1>4. IsFiniteSet(DOMAIN tree \cup ids)
  BY <1>3, FS_Union DEF IsTree
<1>5. \A i \in DOMAIN tasks : tasks[i] \in Tasks
  OBVIOUS
<1> HIDE DEF ids
<1>6. DOMAIN new = DOMAIN tree \cup ids
  OBVIOUS
<1>7. \A id \in DOMAIN new : new[id] \in Tasks /\ new[id].id = id
  BY <1>2, <1>5 DEF IsTree
<1>8. IsTree(new)
  BY <1>4, <1>6, <1>7 DEF IsTree
<1> QED BY <1>1, <1>2, <1>6, <1>8 DEF ids

\* Re-evaluating a parent touches no leaf and nothing but a status.
Restated(new, old) ==
    /\ DOMAIN new = DOMAIN old
    /\ \A id \in DOMAIN old :
          IF old[id].children = <<>> THEN new[id] = old[id]
          ELSE new[id] = [old[id] EXCEPT !.status = new[id].status]

LEMMA ParentStatusType ==
    ASSUME NEW tree, NEW kids
    PROVE  ParentStatus(tree, kids) \in {"partial", "needs_more", "failed", "done"}
BY DEF ParentStatus

LEMMA EvaluateParentIsTree ==
    ASSUME NEW tree, IsTree(tree), NEW id
    PROVE  IsTree(EvaluateParent(tree, id)) /\ Restated(EvaluateParent(tree, id), tree)
<1>1. CASE EvaluateParent(tree, id) = tree
  <2>1. \A x \in DOMAIN tree : tree[x] = [tree[x] EXCEPT !.status = tree[x].status]
    BY DEF IsTree, Tasks
  <2> QED BY <1>1, <2>1 DEF Restated
<1>2. CASE EvaluateParent(tree, id) # tree
  <2> DEFINE s == ParentStatus(tree, tree[id].children)
             new == [tree EXCEPT ![id].status = s]
  <2>1. /\ id \in DOMAIN tree /\ EvaluateParent(tree, id) = new
        /\ \E i \in DOMAIN tree[id].children : tree[id].children[i] \in DOMAIN tree
    BY <1>2 DEF EvaluateParent
  <2>2. s \in TaskStatus
    BY ParentStatusType DEF TaskStatus
  <2>3. tree[id].children # <<>>
    BY <2>1
  <2> HIDE DEF s
  <2>4. /\ DOMAIN new = DOMAIN tree
        /\ new[id] = [tree[id] EXCEPT !.status = s]
        /\ \A x \in DOMAIN tree \ {id} : new[x] = tree[x]
    BY <2>1 DEF IsTree
  <2>5. tree[id] \in Tasks
    BY <2>1 DEF IsTree
  <2>6. new[id] \in Tasks /\ new[id].id = id /\ new[id].status = s
    BY <2>1, <2>2, <2>4, <2>5 DEF IsTree, Tasks
  <2>7. \A x \in DOMAIN tree : tree[x] = [tree[x] EXCEPT !.status = tree[x].status]
    BY DEF IsTree, Tasks
  <2>8. new \in [DOMAIN tree -> Tasks] /\ \A x \in DOMAIN new : new[x].id = x
    BY <2>1, <2>4, <2>6 DEF IsTree
  <2>9. IsTree(new)
    BY <2>4, <2>8 DEF IsTree
  <2>10. Restated(new, tree)
    BY <2>3, <2>4, <2>6, <2>7 DEF Restated
  <2> QED BY <2>1, <2>9, <2>10
<1> QED BY <1>1, <1>2

(***************************************************************************)
(* The tasks the nodes add to the tree.                                    *)
(***************************************************************************)
NewTasks ==
    {t \in Tasks : /\ t.status = "pending" /\ t.children = <<>>
                   /\ ~t.verification_scheduled /\ t.tool_result_status = "none"
                   /\ t.call.tool # "none"}

\* Those an expansion or a successful write puts under a task, with ids that
\* only this task gives.
Under(id) ==
    {t \in NewTasks : \E s \in Segment : s.kind \in {"child", "verify"} /\ t.id = Append(id, s)}

LEMMA TitleTypes ==
    /\ <<"user_input">> \in Titles /\ <<"llm">> \in Titles
    /\ \A a \in Args : <<"rollback", a>> \in Titles
    /\ \A t \in ToolNames : <<"verify", t>> \in Titles
    /\ \A c \in Calls : FallbackTitle(c) \in Titles
<1> DEFINE Words == ToolNames \cup Args \cup {"user_input", "llm", "verify"}
<1>1. \A x, y \in Words : <<x>> \in Seq(Words) /\ <<x, y>> \in Seq(Words)
  OBVIOUS
<1>2. {"user_input", "llm", "verify", "rollback"} \subseteq Words
  BY DEF ToolNames
<1>3. \A c \in Calls : c.tool \in Words /\ c.args \in Words
  BY DEF Calls
<1> QED BY <1>1, <1>2, <1>3 DEF Titles, FallbackTitle

LEMMA IdTypes ==
    ASSUME NEW p \in TaskIds, NEW n \in Nat
    PROVE  /\ Root \in TaskIds /\ NoTask \in TaskIds
           /\ Child(p, n) \in TaskIds /\ Verify(p, n) \in TaskIds /\ Rollback(p, n) \in TaskIds
           /\ \E s \in Segment : s.kind = "child" /\ Child(p, n) = Append(p, s)
           /\ \E s \in Segment : s.kind = "verify" /\ Verify(p, n) = Append(p, s)
           /\ \E s \in Segment : s.kind = "rollback" /\ Rollback(p, n) = Append(p, s)
<1>1. \A k \in {"root", "child", "verify", "rollback"} : [kind |-> k, n |-> n] \in Segment
  BY DEF Segment
<1>2. [kind |-> "root", n |-> 0] \in Segment
  BY DEF Segment
<1> HIDE DEF Segment
<1>3. \A s \in Segment : Append(p, s) \in TaskIds
  BY DEF TaskIds
<1>4. Root \in TaskIds /\ NoTask \in TaskIds
  BY <1>2 DEF Root, NoTask, TaskIds
<1> QED BY <1>1, <1>3, <1>4 DEF Child, Verify, Rollback

LEMMA NewTaskType ==
    ASSUME NEW id \in TaskIds, NEW title \in Titles, NEW parent \in TaskIds,
           NEW depth \in Nat, NEW c \in Calls
    PROVE  /\ NewTask(id, title, parent, depth, c) \in Tasks
           /\ NewTask(id, title, parent, depth, c).id = id
           /\ c.tool # "none" => NewTask(id, title, parent, depth, c) \in NewTasks
<1> DEFINE t == NewTask(id, title, parent, depth, c)
<1>1. t \in Tasks
  <2>1. <<>> \in Seq(TaskIds)
    OBVIOUS
  <2> QED BY <2>1 DEF NewTask, Tasks, TaskStatus
<1> QED BY <1>1 DEF NewTask, NewTasks

LEMMA AddedTaskType ==
    ASSUME NEW id \in TaskIds, NEW title \in Titles, NEW parent \in TaskIds,
           NEW depth \in Nat, NEW c \in Calls, c.tool # "none"
    PROVE  /\ NewTask(id, title, parent, depth, c) \in NewTasks
           /\ NewTask(id, title, parent, depth, c).id = id
BY NewTaskType

LEMMA CallTypes ==
    /\ NoCall \in Calls
    /\ \A a \in Args : ReadFile(a) \in Calls /\ ReadFile(a).tool = "read_file"
BY LoopConstantsAssumption DEF NoCall, Calls, ReadFile, ToolNames

LEMMA FirstElements ==
    ASSUME NEW T, NEW s \in Seq(T), NEW n \in Nat
    PROVE  First(s, n) \in Seq(T) /\ (s # <<>> /\ n > 0 => First(s, n) # <<>>)
<1> DEFINE m == IF Len(s) < n THEN Len(s) ELSE n
<1>1. m \in Nat /\ m <= Len(s) /\ (s # <<>> /\ n > 0 => m > 0)
  OBVIOUS
<1>2. First(s, n) = SubSeq(s, 1, m)
  BY DEF First
<1> HIDE DEF m
<1>3. /\ SubSeq(s, 1, m) \in Seq(T)
      /\ Len(SubSeq(s, 1, m)) = m
  BY <1>1
<1> QED BY <1>1, <1>2, <1>3

LEMMA FallbackTypes ==
    ASSUME NEW t \in Tasks
    PROVE  FallbackSubtasks(t) \in Seq(Under(t.id))
<1> DEFINE Real == {c \in Calls : c.tool # "none"}
           I == {i \in DOMAIN PreferredFiles : ReadFile(PreferredFiles[i]) \notin completed_tasks}
           unread == Kept(PreferredFiles, I)
           files == [i \in DOMAIN unread |-> ReadFile(unread[i])]
           base == IF completed_tasks = {} THEN FallbackBaseline ELSE <<>>
           calls == First(base \o files, MaxSubtasks)
           d == t.depth + 1
           new(i) == NewTask(Child(t.id, i), FallbackTitle(calls[i]), t.id, d, calls[i])
<1>1. FallbackSubtasks(t) = [i \in DOMAIN calls |-> new(i)]
  BY DEF FallbackSubtasks
<1>2. unread \in Seq(Args)
  BY KeptElements, LoopConstantsAssumption
<1> HIDE DEF unread
<1>3. files \in Seq(Real)
  <2>1. \A i \in DOMAIN unread : ReadFile(unread[i]) \in Real
    BY <1>2, CallTypes
  <2> QED BY <1>2, <2>1
<1> HIDE DEF files
<1>4. base \in Seq(Real)
  BY LoopConstantsAssumption
<1> HIDE DEF base
<1>5. calls \in Seq(Real)
  <2>1. base \o files \in Seq(Real)
    BY <1>3, <1>4
  <2> QED BY <2>1, FirstElements, LoopConstantsAssumption
<1> HIDE DEF calls
<1>6. \A i \in DOMAIN calls : new(i) \in Under(t.id)
  <2> TAKE i \in DOMAIN calls
  <2> DEFINE id == Child(t.id, i)
             title == FallbackTitle(calls[i])
             c == calls[i]
  <2>1. i \in Nat /\ c \in Calls /\ c.tool # "none"
    BY <1>5
  <2>2. t.id \in TaskIds /\ d \in Nat
    BY DEF Tasks
  <2>3. title \in Titles
    BY <2>1, TitleTypes
  <2>4. id \in TaskIds /\ \E s \in Segment : s.kind = "child" /\ id = Append(t.id, s)
    BY <2>1, <2>2, IdTypes
  <2>5. new(i) = NewTask(id, title, t.id, d, c)
    OBVIOUS
  <2> HIDE DEF id, title, c, d, new, Real, I
  <2>6. NewTask(id, title, t.id, d, c) \in NewTasks /\ NewTask(id, title, t.id, d, c).id = id
    <3>1. id \in TaskIds
      BY <2>4
    <3> QED BY ONLY <2>1, <2>2, <2>3, <3>1, AddedTaskType
  <2> QED BY <2>4, <2>5, <2>6 DEF Under
<1> HIDE DEF new
<1>7. [i \in DOMAIN calls |-> new(i)] \in Seq(Under(t.id))
  BY <1>5, <1>6
<1> QED BY <1>1, <1>7

\* The model's subtasks are new tasks too, under ids of its own choice.
LEMMA LLMTypes ==
    ASSUME NEW t \in Tasks, NEW tasks \in LLMSubtasks(t)
    PROVE  tasks \in Seq(NewTasks)
<1>1. PICK n \in 1..MaxSubtasks :
        \E c \in [1..n -> LLMCalls], own \in [1..n -> LLMIds \cup {NoTask}] :
            tasks = [i \in 1..n |-> NewTask(IF own[i] = NoTask THEN Child(t.id, i) ELSE own[i],
                                            <<"llm">>, t.id, t.depth + 1, c[i])]
  BY DEF LLMSubtasks
<1>2. PICK c \in [1..n -> LLMCalls], own \in [1..n -> LLMIds \cup {NoTask}] :
            tasks = [i \in 1..n |-> NewTask(IF own[i] = NoTask THEN Child(t.id, i) ELSE own[i],
                                            <<"llm">>, t.id, t.depth + 1, c[i])]
  BY <1>1
<1>3. n \in Nat
  BY LoopConstantsAssumption
<1>4. \A i \in 1..n : tasks[i] \in NewTasks
  <2> TAKE i \in 1..n
  <2> DEFINE id == IF own[i] = NoTask THEN Child(t.id, i) ELSE own[i]
  <2>1. tasks[i] = NewTask(id, <<"llm">>, t.id, t.depth + 1, c[i])
    BY <1>2
  <2>2. t.id \in TaskIds /\ t.depth + 1 \in Nat
    BY DEF Tasks
  <2>3. id \in TaskIds
    <3>1. i \in Nat /\ own[i] \in LLMIds \cup {NoTask}
      BY <1>3
    <3>2. Child(t.id, i) \in TaskIds
      BY <2>2, <3>1, IdTypes
    <3> QED BY <3>1, <3>2, LLMIdsAssumption
  <2>4. c[i] \in Calls /\ c[i].tool # "none"
    BY LoopConstantsAssumption
  <2>5. <<"llm">> \in Titles
    BY TitleTypes
  <2> HIDE DEF id
  <2> QED BY <2>1, <2>2, <2>3, <2>4, <2>5, NewTaskType
<1> QED BY <1>2, <1>3, <1>4

LEMMA NewTitlesTypes ==
    ASSUME NEW T, NEW tasks \in Seq(T)
    PROVE  NewTitles(tasks) \in Seq(T)
<1> DEFINE titles == {task_tree[id].title : id \in DOMAIN task_tree}
           I == {i \in DOMAIN tasks : tasks[i].title \notin titles}
<1>1. NewTitles(tasks) = Kept(tasks, I)
  BY DEF NewTitles
<1>2. I \in SUBSET DOMAIN tasks
  OBVIOUS
<1> HIDE DEF I
<1> QED BY <1>1, <1>2, KeptElements

Patches == [task : TaskIds, path : Args, restorable : BOOLEAN]

LEMMA LastPatchType ==
    ASSUME patch_history \in Seq(Patches), patch_history # <<>>
    PROVE  /\ patch_history[Len(patch_history)].path \in Args
           /\ Len(patch_history) \in Nat
<1>1. patch_history[Len(patch_history)] \in Patches
  OBVIOUS
<1> QED BY <1>1 DEF Patches

LEMMA RollbackType ==
    ASSUME task \in Tasks, patch_history \in Seq(Patches), patch_history # <<>>
    PROVE  /\ RollbackTask \in NewTasks
           /\ \E owner \in TaskIds, s \in Segment :
                 s.kind = "rollback" /\ RollbackTask.id = Append(owner, s)
<1> DEFINE path == patch_history[Len(patch_history)].path
           parent == task.parent
           depth == task.depth
           owner == IF parent = NoTask THEN task.id ELSE parent
           n == Len(patch_history)
           id == Rollback(owner, n)
           c == [tool |-> "rollback", args |-> path]
           title == <<"rollback", path>>
<1>1. RollbackTask = NewTask(id, title, parent, depth, c)
  BY DEF RollbackTask
<1>2. owner \in TaskIds /\ parent \in TaskIds /\ depth \in Nat
  BY DEF Tasks
<1>3. path \in Args /\ n \in Nat
  BY LastPatchType
<1> HIDE DEF path, owner, parent, depth, n
<1>4. id \in TaskIds /\ \E s \in Segment : s.kind = "rollback" /\ id = Append(owner, s)
  BY <1>2, <1>3, IdTypes
<1>5. c \in Calls /\ c.tool # "none"
  BY <1>3 DEF Calls, ToolNames
<1>6. title \in Titles
  BY <1>3, TitleTypes
<1> HIDE DEF id, c, title
<1>7. NewTask(id, title, parent, depth, c) \in NewTasks
      /\ NewTask(id, title, parent, depth, c).id = id
  <2>1. id \in TaskIds
    BY <1>4
  <2> QED BY ONLY <1>2, <1>5, <1>6, <2>1, AddedTaskType
<1> QED BY <1>1, <1>2, <1>4, <1>7

LEMMA VerificationTypes ==
    ASSUME task \in Tasks, IsFiniteSet(DOMAIN task_tree), patch_history \in Seq(Patches)
    PROVE  VerificationTasks \in Seq(Under(task.id))
<1> DEFINE tools == First(VerifyTools, MaxTotalTasks - Cardinality(DOMAIN task_tree))
           about(t) == IF t \in {"git_diff_file", "secret_scan"}
                       THEN [tool |-> t, args |-> patch_history[Len(patch_history)].path]
                       ELSE On(t)
           d == task.depth + 1
           new(i) == NewTask(Verify(task.id, i), <<"verify", tools[i]>>, task.id, d,
                             about(tools[i]))
<1>1. CASE VerificationTasks = <<>>
  BY <1>1
<1>2. CASE VerificationTasks # <<>>
  <2>1. /\ VerificationTasks = [i \in DOMAIN tools |-> new(i)]
        /\ patch_history # <<>> /\ HasRoom
    BY <1>2 DEF VerificationTasks
  <2>2. tools \in Seq(ToolNames \ {"none"})
    <3>1. Cardinality(DOMAIN task_tree) \in Nat
      BY FS_CardinalityType
    <3>2. MaxTotalTasks - Cardinality(DOMAIN task_tree) \in Nat
      BY <2>1, <3>1, LoopConstantsAssumption DEF HasRoom
    <3> QED BY <3>2, FirstElements, LoopConstantsAssumption
  <2> HIDE DEF tools
  <2>3. \A i \in DOMAIN tools : new(i) \in Under(task.id)
    <3> TAKE i \in DOMAIN tools
    <3> DEFINE id == Verify(task.id, i)
               title == <<"verify", tools[i]>>
               c == about(tools[i])
    <3>1. i \in Nat /\ tools[i] \in ToolNames /\ tools[i] # "none"
      BY <2>2
    <3>2. c \in Calls /\ c.tool # "none"
      BY <2>1, <3>1, LastPatchType, LoopConstantsAssumption DEF Calls, On
    <3>3. task.id \in TaskIds /\ d \in Nat
      BY DEF Tasks
    <3>4. id \in TaskIds /\ \E s \in Segment : s.kind = "verify" /\ id = Append(task.id, s)
      BY <3>1, <3>3, IdTypes
    <3>5. title \in Titles
      BY <3>1, TitleTypes
    <3>6. new(i) = NewTask(id, title, task.id, d, c)
      OBVIOUS
    <3> HIDE DEF id, title, c, d, new
    <3>7. NewTask(id, title, task.id, d, c) \in NewTasks
          /\ NewTask(id, title, task.id, d, c).id = id
      <4>1. id \in TaskIds
        BY <3>4
      <4> QED BY ONLY <3>2, <3>3, <3>5, <4>1, AddedTaskType
    <3> QED BY <3>4, <3>6, <3>7 DEF Under
  <2> HIDE DEF new
  <2>4. [i \in DOMAIN tools |-> new(i)] \in Seq(Under(task.id))
    BY <2>2, <2>3
  <2> QED BY <2>1, <2>4
<1> QED BY <1>1, <1>2

\* The tree old with the task u of it and new tasks stored.
AddedIds(added) == {added[i].id : i \in DOMAIN added}
Stored(new, old, u, added) ==
    /\ DOMAIN new = DOMAIN old \cup AddedIds(added)
    /\ \A id \in DOMAIN new :
          IF id \in AddedIds(added)
          THEN \E i \in DOMAIN added : added[i].id = id /\ new[id] = added[i]
          ELSE new[id] = IF id = u.id THEN u ELSE old[id]

LEMMA StoreAdds ==
    ASSUME NEW tree, IsTree(tree), NEW u \in Tasks, u.id \in DOMAIN tree,
           NEW added \in Seq(NewTasks)
    PROVE  /\ IsTree(Store(tree, <<u>> \o added))
           /\ Stored(Store(tree, <<u>> \o added), tree, u, added)
<1> DEFINE tasks == <<u>> \o added
           new == Store(tree, tasks)
           ids == {tasks[i].id : i \in DOMAIN tasks}
<1>1. added \in Seq(Tasks) /\ \A i \in DOMAIN added : added[i] \in Tasks
  BY DEF NewTasks
<1>2. /\ tasks \in Seq(Tasks)
      /\ DOMAIN tasks = 1..(Len(added) + 1) /\ Len(added) \in Nat
      /\ tasks[1] = u
      /\ DOMAIN added = 1..Len(added)
      /\ \A i \in DOMAIN added : tasks[i + 1] = added[i] /\ i + 1 \in DOMAIN tasks
      /\ \A i \in DOMAIN tasks : i = 1 \/ (i - 1 \in DOMAIN added /\ tasks[i] = added[i - 1])
  BY <1>1
<1> HIDE DEF tasks
<1>3. /\ IsTree(new)
      /\ DOMAIN new = DOMAIN tree \cup ids
      /\ \A id \in ids : \E i \in DOMAIN tasks :
            /\ tasks[i].id = id /\ new[id] = tasks[i]
            /\ \A j \in DOMAIN tasks : tasks[j].id = id => j <= i
      /\ \A id \in DOMAIN tree \ ids : new[id] = tree[id]
  BY <1>2, StoreIsTree
<1> HIDE DEF new
<1>4. ids = {u.id} \cup AddedIds(added)
  <2>1. ids \subseteq {u.id} \cup AddedIds(added)
    BY <1>2 DEF AddedIds
  <2>2. AddedIds(added) \subseteq ids
    BY <1>2 DEF AddedIds
  <2>3. u.id \in ids
    BY <1>2
  <2> QED BY <2>1, <2>2, <2>3
<1>5. DOMAIN new = DOMAIN tree \cup AddedIds(added)
  BY <1>3, <1>4
<1>6. ASSUME NEW id \in AddedIds(added)
      PROVE  \E i \in DOMAIN added : added[i].id = id /\ new[id] = added[i]
  <2>1. PICK i \in DOMAIN tasks : /\ tasks[i].id = id /\ new[id] = tasks[i]
                                  /\ \A j \in DOMAIN tasks : tasks[j].id = id => j <= i
    BY <1>3, <1>4
  <2>2. PICK k \in DOMAIN added : added[k].id = id
    BY DEF AddedIds
  <2>3. k + 1 <= i
    BY <1>2, <2>1, <2>2
  <2>4. i # 1
    BY <1>2, <2>3
  <2> QED BY <1>2, <2>1, <2>4
<1>7. ASSUME NEW id \in DOMAIN new, id \notin AddedIds(added)
      PROVE  new[id] = IF id = u.id THEN u ELSE tree[id]
  <2>1. CASE id = u.id
    <3>1. PICK i \in DOMAIN tasks : tasks[i].id = id /\ new[id] = tasks[i]
      BY <1>3, <1>4, <2>1
    <3>2. i = 1
      BY <1>2, <1>7, <3>1 DEF AddedIds
    <3> QED BY <1>2, <2>1, <3>1, <3>2
  <2>2. CASE id # u.id
    BY <1>3, <1>4, <1>5, <1>7, <2>2
  <2> QED BY <2>1, <2>2
<1>8. Stored(new, tree, u, added)
  BY <1>5, <1>6, <1>7 DEF Stored
<1> QED BY <1>3, <1>8 DEF new, tasks

\* The ids of a list of tasks.
LEMMA IdsType ==
    ASSUME NEW tasks \in Seq(Tasks)
    PROVE  /\ Ids(tasks) \in Seq(TaskIds)
           /\ DOMAIN Ids(tasks) = DOMAIN tasks
           /\ \A i \in DOMAIN tasks : Ids(tasks)[i] = tasks[i].id
           /\ ToSet(Ids(tasks)) = AddedIds(tasks)
           /\ Ids(tasks) = <<>> <=> tasks = <<>>
<1>1. \A i \in DOMAIN tasks : tasks[i].id \in TaskIds
  <2>1. \A i \in DOMAIN tasks : tasks[i] \in Tasks
    OBVIOUS
  <2>2. \A t \in Tasks : t.id \in TaskIds
    BY DEF Tasks
  <2> QED BY <2>1, <2>2
<1>2. Ids(tasks) = [i \in 1..Len(tasks) |-> tasks[i].id]
  BY DEF Ids
<1>3. /\ Ids(tasks) \in Seq(TaskIds)
      /\ DOMAIN Ids(tasks) = DOMAIN tasks
      /\ \A i \in DOMAIN tasks : Ids(tasks)[i] = tasks[i].id
      /\ Len(Ids(tasks)) = Len(tasks)
  BY <1>1, <1>2
<1>4. ToSet(Ids(tasks)) = AddedIds(tasks)
  BY <1>3 DEF ToSet, AddedIds
<1>5. Ids(tasks) = <<>> <=> tasks = <<>>
  BY <1>3
<1> QED BY <1>3, <1>4, <1>5

LEMMA ToSetOfConcat ==
    ASSUME NEW T, NEW s \in Seq(T), NEW t \in Seq(T)
    PROVE  ToSet(s \o t) = ToSet(s) \cup ToSet(t)
<1>1. /\ DOMAIN (s \o t) = 1..(Len(s) + Len(t))
      /\ Len(s) \in Nat /\ Len(t) \in Nat
      /\ DOMAIN s = 1..Len(s) /\ DOMAIN t = 1..Len(t)
      /\ \A i \in 1..Len(s) : (s \o t)[i] = s[i]
      /\ \A i \in 1..Len(t) : (s \o t)[Len(s) + i] = t[i] /\ Len(s) + i \in DOMAIN (s \o t)
      /\ \A i \in DOMAIN (s \o t) :
            i \in DOMAIN s \/ (i - Len(s) \in DOMAIN t /\ (s \o t)[i] = t[i - Len(s)])
  OBVIOUS
<1> DEFINE c == s \o t
<1> HIDE DEF c
<1>2. ToSet(c) \subseteq ToSet(s) \cup ToSet(t)
  BY <1>1 DEF ToSet, c
<1>3. ToSet(s) \subseteq ToSet(c)
  BY <1>1 DEF ToSet, c
<1>4. ToSet(t) \subseteq ToSet(c)
  <2>1. \A i \in DOMAIN t : Len(s) + i \in DOMAIN c /\ c[Len(s) + i] = t[i]
    BY <1>1 DEF c
  <2> QED BY <2>1 DEF ToSet
<1> QED BY <1>2, <1>3, <1>4 DEF c

\* What the executor reports is an outcome.
LEMMA OutcomeType ==
    ASSUME NEW o \in IF PreflightRefuses \/ ~Valid(call) THEN {Blocked} ELSE ToolOutcomes[call.tool]
    PROVE  o \in Outcomes
<1>1. Blocked \in Outcomes
  BY DEF Blocked, Outcomes, ResultStatus
<1>2. Valid(call) => ToolOutcomes[call.tool] \subseteq Outcomes
  BY LoopConstantsAssumption DEF Valid
<1> QED BY <1>1, <1>2

LEMMA JudgementsAreDecisions == EvaluatorDecisions \subseteq Decisions
BY DEF EvaluatorDecisions, Decisions

(***************************************************************************)
(* Type correctness of all but the attempt record.                         *)
(***************************************************************************)
Working == pc \notin {"scheduler", "memory_writer", "code_agent_summarize"}

LoopTypes ==
    /\ pc \in Nodes
    /\ IsTree(task_tree)
    /\ agenda \in Seq(TaskIds)
    /\ Working => current_task_id \in DOMAIN task_tree
    /\ step_count \in Nat
    /\ call \in Calls
    /\ policy_decision \in {"allow", "ask", "deny"}
    /\ plan_validation_status \in {"none", "valid", "invalid"}
    /\ evaluation_decision \in Decisions \cup {"none"}
    /\ human_approvals \subseteq TaskIds
    /\ patch_history \in Seq(Patches)
    /\ completed_tasks \subseteq Calls
    /\ unused_approvals \subseteq Approvals
    /\ runs \in 1..MaxRuns

\* The task a node works on.
LEMMA CurrentTask ==
    ASSUME LoopTypes, Working
    PROVE  /\ current_task_id \in DOMAIN task_tree /\ current_task_id \in TaskIds
           /\ task \in Tasks /\ task.id = current_task_id
<1>1. current_task_id \in DOMAIN task_tree /\ task \in Tasks /\ task.id = current_task_id
  BY DEF LoopTypes, IsTree, task
<1> QED BY <1>1 DEF Tasks

(***************************************************************************)
(* The shapes of a step.  A node at work marks the current task: it may    *)
(* change its status, its result and its arguments, nothing else.          *)
(***************************************************************************)
MarkStatus == {"planned", "waiting_approval", "approved", "executed", "failed", "blocked"}
\* A result is the tool's own, or that of a refusal.
Reported(r) ==
    \/ r \in {task.tool_result_status, "blocked"}
    \/ /\ pc = "executor"
       /\ r = "success" /\ call.tool \in SourceWriteTools => patch_history' # <<>>

Marked(u) ==
    /\ u \in Tasks /\ u.id = task.id
    /\ u.children = task.children /\ u.parent = task.parent
    /\ u.verification_scheduled = task.verification_scheduled
    /\ u.call.tool = task.call.tool
    /\ u.status \in MarkStatus /\ Reported(u.tool_result_status)
    /\ StoreTask(u)

\* The committer stores the task and the tasks it adds, and re-evaluates the
\* parent.
Committed(u, added) ==
    /\ u \in Tasks /\ u.id = task.id
    /\ u.call = task.call /\ u.tool_result_status = task.tool_result_status
    /\ added \in Seq(NewTasks)
    /\ task_tree' = EvaluateParent(Store(task_tree, <<u>> \o added), task.parent)
    /\ agenda' = (IF u.status = "pending" THEN <<task.id>> ELSE Ids(added)) \o agenda

Retried(u, added) ==
    /\ u.status = "pending" /\ added = <<>>
    /\ u.children = task.children /\ u.verification_scheduled = task.verification_scheduled

Extended(u, added) ==
    /\ u.status \in {"expanded", "pending_verification"}
    /\ added \in Seq(Under(task.id)) /\ added # <<>> /\ u.children = Ids(added)
    /\ u.verification_scheduled =>
           task.verification_scheduled \/ task.call.tool \in SourceWriteTools

IsRollback(t) == \E owner \in TaskIds, s \in Segment :
                     s.kind = "rollback" /\ t.id = Append(owner, s)
Closed(u, added) ==
    /\ u.status \in {"done", "failed"}
    /\ u.children = task.children /\ u.verification_scheduled = task.verification_scheduled
    /\ added # <<>> => u.status = "failed" /\ task.call.tool # "none"
    /\ \A i \in DOMAIN added : IsRollback(added[i])
    /\ u.status = "done" => evaluation_decision = "complete" /\ VerificationTasks = <<>>

Marking == \E u \in Tasks : Marked(u)
Committing == \E u \in Tasks, added \in Seq(NewTasks) :
    Committed(u, added) /\ (Retried(u, added) \/ Extended(u, added) \/ Closed(u, added))

\* A status, with or without the result of a tool or a refusal, marks the task.
LEMMA StatusMarks ==
    ASSUME LoopTypes, Working, NEW s \in MarkStatus, NEW r \in ResultStatus \cup {"none"},
           StoreTask([task EXCEPT !.status = s]) \/
           (StoreTask([task EXCEPT !.status = s, !.tool_result_status = r]) /\ Reported(r))
    PROVE  Marking
<1>1. task \in Tasks
  BY CurrentTask
<1>2. s \in TaskStatus
  BY DEF MarkStatus, TaskStatus
<1>3. CASE StoreTask([task EXCEPT !.status = s])
  <2> DEFINE u == [task EXCEPT !.status = s]
  <2>1. u \in Tasks
    BY <1>1, <1>2 DEF Tasks
  <2>2. Marked(u)
    BY <1>1, <1>3, <2>1 DEF Marked, Reported, Tasks
  <2> QED BY <2>1, <2>2 DEF Marking
<1>4. CASE StoreTask([task EXCEPT !.status = s, !.tool_result_status = r]) /\ Reported(r)
  <2> DEFINE u == [task EXCEPT !.status = s, !.tool_result_status = r]
  <2>1. u \in Tasks
    BY <1>1, <1>2 DEF Tasks
  <2>2. Marked(u)
    BY <1>1, <1>4, <2>1 DEF Marked, Tasks
  <2> QED BY <2>1, <2>2 DEF Marking
<1> QED BY <1>3, <1>4

WorkSteps ==
    \/ PlannerAlreadyExpanded \/ PlannerKeepsLeaf
    \/ ToolSelector \/ PlanValidator
    \/ ToolPolicy \/ ApprovalGranted \/ ApprovalDenied
    \/ SandboxRunner \/ Executor \/ AsyncJobWaiter
    \/ ExecutionMonitor \/ RecoveryPlanner \/ Evaluator
CommitSteps == CommitRetry \/ CommitExpand \/ CommitRollback \/ CommitFinal

\* A node at work keeps the agenda, and leaves the current task only when it
\* has subtasks.
LEMMA WorkShape ==
    ASSUME LoopTypes, WorkSteps
    PROVE  /\ Working /\ agenda' = agenda
           /\ task_tree' = task_tree \/ Marking
           /\ \/ Working' /\ current_task_id' = current_task_id
              \/ pc' = "scheduler" /\ task_tree' = task_tree /\ task.children # <<>>
           /\ pc = "planner_decomposer" =>
                  Marking \/ (task_tree' = task_tree /\ task.children # <<>>)
           /\ pc' # "planner_decomposer" /\ pc' # "code_agent_summarize"
<1> USE DEF Goto
<1>1. CASE PlannerAlreadyExpanded
  BY <1>1 DEF PlannerAlreadyExpanded, PlannerUnchanged, AfterPlanner, Working
<1>2. CASE PlannerKeepsLeaf \/ ToolSelector
  <2>1. Working /\ StoreTask([task EXCEPT !.status = "planned"])
    BY <1>2 DEF PlannerKeepsLeaf, ToolSelector, Working
  <2>2. Marking
    BY <2>1, StatusMarks DEF MarkStatus
  <2>3. /\ UNCHANGED <<agenda, current_task_id>>
        /\ pc' \in {"plan_validator", "tool_selector"}
    BY <1>2 DEF PlannerKeepsLeaf, ToolSelector, PlannerUnchanged, AfterPlanner
  <2> QED BY <2>1, <2>2, <2>3 DEF Working
<1>3. CASE PlanValidator
  <2>1. CASE StoreTask([task EXCEPT !.status = "failed"]) /\ pc' = "evaluator_verifier"
                 /\ UNCHANGED current_task_id
    <3>1. Working
      BY <1>3 DEF PlanValidator, Working
    <3>2. Marking
      BY <2>1, <3>1, StatusMarks DEF MarkStatus
    <3> QED BY <1>3, <2>1, <3>2 DEF PlanValidator, Working
  <2>2. CASE UNCHANGED task_tree
    BY <1>3, <2>2 DEF PlanValidator, Working
  <2> QED BY <1>3, <2>1, <2>2 DEF PlanValidator
<1>4. CASE ToolPolicy \/ ApprovalDenied
  <2>1. /\ Working /\ pc # "planner_decomposer"
        /\ UNCHANGED <<agenda, current_task_id>>
        /\ pc' \in {"evaluator_verifier", "approval_interrupt", "sandbox_runner"}
    BY <1>4 DEF ToolPolicy, ApprovalDenied, Refuse, GateUnchanged, Working
  <2>2. \/ \E s \in {"failed", "blocked"} :
              StoreTask([task EXCEPT !.status = s, !.tool_result_status = "blocked"])
        \/ \E s \in {"waiting_approval", "approved"} : StoreTask([task EXCEPT !.status = s])
    BY <1>4 DEF ToolPolicy, ApprovalDenied, Refuse
  <2>3. Reported("blocked")
    BY DEF Reported
  <2>4. Marking
    BY <2>1, <2>2, <2>3, StatusMarks DEF MarkStatus, ResultStatus
  <2> QED BY <2>1, <2>4 DEF Working
<1>5. CASE ApprovalGranted
  <2>1. /\ Working /\ pc # "planner_decomposer" /\ pc' = "sandbox_runner"
        /\ UNCHANGED <<agenda, current_task_id>>
    BY <1>5 DEF ApprovalGranted, GateUnchanged, Working
  <2>2. PICK args \in {call.args} \cup ModifiedArgs :
            StoreTask([task EXCEPT !.status = "approved", !.call.args = args])
    BY <1>5 DEF ApprovalGranted
  <2>3. args \in Args
    BY LoopConstantsAssumption DEF LoopTypes, Calls
  <2> DEFINE u == [task EXCEPT !.status = "approved", !.call.args = args]
  <2>4. task \in Tasks
    BY <2>1, CurrentTask
  <2>5. u \in Tasks /\ u.call.tool = task.call.tool
    BY <2>3, <2>4 DEF Tasks, TaskStatus, Calls
  <2>6. Marked(u)
    BY <2>2, <2>4, <2>5 DEF Marked, Reported, Tasks, MarkStatus
  <2> QED BY <2>1, <2>5, <2>6 DEF Marking, Working
<1>6. CASE Executor
  <2>1. /\ Working /\ pc # "planner_decomposer" /\ pc' = "async_job_waiter"
        /\ UNCHANGED <<agenda, current_task_id>>
    BY <1>6 DEF Executor, ExecutionUnchanged, Working
  <2>2. PICK o \in IF PreflightRefuses \/ ~Valid(call) THEN {Blocked} ELSE ToolOutcomes[call.tool] :
            StoreTask([task EXCEPT
                 !.status = IF o.status = "blocked" THEN "failed" ELSE "executed",
                 !.tool_result_status = o.status])
            /\ (call.tool \in SourceWriteTools /\ o.status = "success" =>
                   \E p : patch_history' = Append(patch_history, p))
    BY <1>6 DEF Executor
  <2>3. o.status \in ResultStatus
    BY <2>2, OutcomeType DEF Outcomes
  <2>4. Reported(o.status)
    <3>1. pc = "executor"
      BY <1>6 DEF Executor
    <3>2. ASSUME NEW p PROVE Append(patch_history, p) # <<>>
      <4> DEFINE Either == Patches \cup {p}
      <4>1. patch_history \in Seq(Either) /\ p \in Either
        BY DEF LoopTypes
      <4> HIDE DEF Either
      <4>2. Len(Append(patch_history, p)) = Len(patch_history) + 1 /\ Len(patch_history) \in Nat
        BY <4>1
      <4> QED BY <4>2
    <3> QED BY <2>2, <3>1, <3>2 DEF Reported
  <2>5. Marking
    BY <2>1, <2>2, <2>3, <2>4, StatusMarks DEF MarkStatus
  <2> QED BY <2>1, <2>5 DEF Working
<1>7. CASE SandboxRunner \/ AsyncJobWaiter \/ ExecutionMonitor \/ RecoveryPlanner \/ Evaluator
  BY <1>7 DEF SandboxRunner, AsyncJobWaiter, ExecutionMonitor, RecoveryPlanner, Evaluator,
              ExecutionUnchanged, Working
<1> QED BY <1>1, <1>2, <1>3, <1>4, <1>5, <1>6, <1>7 DEF WorkSteps

LEMMA UnderAreNew ==
    ASSUME NEW id, NEW s \in Seq(Under(id))
    PROVE  s \in Seq(NewTasks) /\ Ids(s) \in Seq(TaskIds)
<1>1. s \in Seq(NewTasks)
  BY DEF Under
<1>2. s \in Seq(Tasks)
  BY <1>1 DEF NewTasks
<1> QED BY <1>1, <1>2, IdsType

\* The one task a rollback adds.
LEMMA OneRollback ==
    ASSUME NEW u \in Tasks, NEW r \in NewTasks
    PROVE  <<u>> \o <<r>> = <<u, r>> /\ Ids(<<r>>) = <<r.id>> /\ <<r>> \in Seq(NewTasks)
<1>1. \A x : <<x>> = [i \in {1} |-> x]
  OBVIOUS
<1>2. Ids(<<r>>) = <<r.id>>
  BY <1>1 DEF Ids
<1>3. <<r>> \in Seq(NewTasks)
  OBVIOUS
<1>4. <<u>> \o <<r>> = <<u, r>>
  <2> DEFINE a == <<u>> \o <<r>>
             b == <<u, r>>
  <2>1. a \in Seq({u, r}) /\ Len(a) = 2 /\ a[1] = u /\ a[2] = r
    OBVIOUS
  <2>2. b \in Seq({u, r}) /\ Len(b) = 2 /\ b[1] = u /\ b[2] = r
    OBVIOUS
  <2>3. \A s, t \in Seq({u, r}) :
            Len(s) = Len(t) /\ (\A i \in 1..Len(s) : s[i] = t[i]) => s = t
    OBVIOUS
  <2> HIDE DEF a, b
  <2>4. a = b
    BY <2>1, <2>2, <2>3
  <2> QED BY <2>4 DEF a, b
<1> QED BY <1>2, <1>3, <1>4

\* Every branch of the committer stores the task in one of three ways.
LEMMA CommitShape ==
    ASSUME LoopTypes, CommitSteps
    PROVE  Working /\ pc = "task_committer" /\ pc' = "memory_writer" /\ Committing
<1>1. Working /\ pc = "task_committer" /\ pc' = "memory_writer"
  BY DEF CommitSteps, CommitRetry, CommitExpand, CommitRollback, CommitFinal, Commit, Goto, Working
<1>2. task \in Tasks /\ IsFiniteSet(DOMAIN task_tree) /\ patch_history \in Seq(Patches)
  BY <1>1, CurrentTask DEF LoopTypes, IsTree
<1>3. <<>> \in Seq(NewTasks) /\ Ids(<<>>) = <<>>
  BY DEF Ids
<1>4. CASE CommitRetry
  <2> DEFINE n == task.retry_count + 1
             u == [task EXCEPT !.status = "pending", !.retry_count = n]
  <2>1. Commit(<<u>>, <<task.id>>)
    BY <1>4 DEF CommitRetry
  <2>9. n \in Nat
    BY <1>2 DEF Tasks
  <2> HIDE DEF n
  <2>2. u \in Tasks
    BY <1>2, <2>9 DEF Tasks, TaskStatus
  <2>3. /\ u.id = task.id /\ u.call = task.call /\ u.status = "pending"
        /\ u.tool_result_status = task.tool_result_status /\ u.children = task.children
        /\ u.verification_scheduled = task.verification_scheduled
    BY <1>2 DEF Tasks
  <2> HIDE DEF u
  <2>4. <<u>> \o <<>> = <<u>>
    BY <2>2
  <2>5. Committed(u, <<>>) /\ Retried(u, <<>>)
    BY <1>3, <2>1, <2>2, <2>3, <2>4 DEF Committed, Retried, Commit
  <2> QED BY <1>1, <1>3, <2>2, <2>5 DEF Committing
<1>5. ASSUME NEW added \in Seq(Under(task.id)), added # <<>>, NEW u \in Tasks,
             Commit(<<u>> \o added, Ids(added)),
             u.id = task.id, u.call = task.call, u.tool_result_status = task.tool_result_status,
             u.status \in {"expanded", "pending_verification"}, u.children = Ids(added),
             u.verification_scheduled =>
                 task.verification_scheduled \/ task.call.tool \in SourceWriteTools
      PROVE  Committing
  <2>1. added \in Seq(NewTasks)
    BY UnderAreNew
  <2>2. Committed(u, added) /\ Extended(u, added)
    BY <1>5, <2>1 DEF Committed, Extended, Commit
  <2> QED BY <2>1, <2>2 DEF Committing
<1>6. CASE CommitExpand
  <2> DEFINE added == FallbackSubtasks(task)
             u == [task EXCEPT !.status = "expanded", !.children = Ids(added)]
  <2>1. Commit(<<u>> \o added, Ids(added)) /\ added # <<>>
    BY <1>6 DEF CommitExpand, Expands
  <2>2. added \in Seq(Under(task.id))
    BY <1>2, FallbackTypes
  <2> HIDE DEF added
  <2>3. Ids(added) \in Seq(TaskIds)
    BY <2>2, UnderAreNew
  <2>4. /\ u \in Tasks /\ u.id = task.id /\ u.call = task.call /\ u.status = "expanded"
        /\ u.tool_result_status = task.tool_result_status /\ u.children = Ids(added)
        /\ u.verification_scheduled = task.verification_scheduled
    BY <1>2, <2>3 DEF Tasks, TaskStatus
  <2> HIDE DEF u
  <2> QED BY <1>1, <1>5, <2>1, <2>2, <2>4
<1>7. CASE CommitRollback
  <2> DEFINE u == [task EXCEPT !.status = "failed"]
             r == RollbackTask
  <2>1. Commit(<<u, r>>, <<r.id>>) /\ patch_history # <<>> /\ task.call.tool # "none"
    BY <1>7 DEF CommitRollback, RollsBack, TestTools
  <2>2. r \in NewTasks /\ IsRollback(r)
    BY <1>2, <2>1, RollbackType DEF IsRollback
  <2>3. /\ u \in Tasks /\ u.id = task.id /\ u.call = task.call /\ u.status = "failed"
        /\ u.tool_result_status = task.tool_result_status /\ u.children = task.children
        /\ u.verification_scheduled = task.verification_scheduled
    BY <1>2 DEF Tasks, TaskStatus
  <2> HIDE DEF u, r
  <2>4. <<u>> \o <<r>> = <<u, r>> /\ Ids(<<r>>) = <<r.id>> /\ <<r>> \in Seq(NewTasks)
    BY <2>2, <2>3, OneRollback
  <2>5. Committed(u, <<r>>)
    BY <2>1, <2>3, <2>4 DEF Committed, Commit
  <2>6. \A i \in DOMAIN <<r>> : IsRollback(<<r>>[i])
    BY <2>2
  <2>7. Closed(u, <<r>>)
    BY <2>1, <2>3, <2>6 DEF Closed
  <2> QED BY <1>1, <2>3, <2>4, <2>5, <2>7 DEF Committing
<1>8. CASE CommitFinal
  <2> DEFINE checks == VerificationTasks
  <2>1. checks \in Seq(Under(task.id))
    BY <1>2, VerificationTypes
  <2>2. CASE checks = <<>>
    <3> DEFINE final == IF evaluation_decision = "complete" THEN "done" ELSE "failed"
               u == [task EXCEPT !.status = final]
    <3>1. Commit(<<u>>, <<>>)
      BY <1>8, <2>2 DEF CommitFinal
    <3>2. /\ u \in Tasks /\ u.id = task.id /\ u.call = task.call /\ u.status = final
          /\ u.tool_result_status = task.tool_result_status /\ u.children = task.children
          /\ u.verification_scheduled = task.verification_scheduled
      BY <1>2 DEF Tasks, TaskStatus
    <3> HIDE DEF u
    <3>3. <<u>> \o <<>> = <<u>>
      BY <3>2
    <3>4. Committed(u, <<>>)
      BY <1>3, <3>1, <3>2, <3>3 DEF Committed, Commit
    <3>5. Closed(u, <<>>)
      BY <2>2, <3>2 DEF Closed
    <3> QED BY <1>1, <1>3, <3>2, <3>4, <3>5 DEF Committing
  <2>3. CASE checks # <<>>
    <3> DEFINE u == [task EXCEPT !.status = "pending_verification",
                                 !.verification_scheduled = TRUE, !.children = Ids(checks)]
    <3>1. Commit(<<u>> \o checks, Ids(checks))
      BY <1>8, <2>3 DEF CommitFinal
    <3>2. task.call.tool \in SourceWriteTools
      BY <2>3 DEF VerificationTasks
    <3> HIDE DEF checks
    <3>3. Ids(checks) \in Seq(TaskIds)
      BY <2>1, UnderAreNew
    <3>4. /\ u \in Tasks /\ u.id = task.id /\ u.call = task.call
          /\ u.status = "pending_verification"
          /\ u.tool_result_status = task.tool_result_status /\ u.children = Ids(checks)
      BY <1>2, <3>3 DEF Tasks, TaskStatus
    <3> HIDE DEF u
    <3> QED BY <1>1, <1>5, <2>1, <2>3, <3>1, <3>2, <3>4
  <2> QED BY <2>2, <2>3
<1> QED BY <1>1, <1>4, <1>6, <1>7, <1>8 DEF CommitSteps

\* The planner stores an expanded task, which had no subtasks and no call of
\* its own, with subtasks that may have any id.
LEMMA ExpandShape ==
    ASSUME LoopTypes, PlannerExpands
    PROVE  /\ Working /\ Working' /\ current_task_id' = current_task_id
           /\ pc' \in {"plan_validator", "tool_selector"}
           /\ task.children = <<>> /\ task.call.tool = "none"
           /\ \E u \in Tasks, added \in Seq(NewTasks) :
                 /\ u.id = task.id /\ u.status = "expanded" /\ u.call = task.call
                 /\ u.tool_result_status = task.tool_result_status
                 /\ u.verification_scheduled = task.verification_scheduled
                 /\ added # <<>> /\ u.children = Ids(added)
                 /\ task_tree' = Store(task_tree, <<u>> \o added)
                 /\ agenda' = Ids(added) \o agenda
<1>1. /\ Working /\ Working' /\ current_task_id' = current_task_id
      /\ pc' \in {"plan_validator", "tool_selector"}
      /\ task.children = <<>> /\ task.call.tool = "none"
  BY DEF PlannerExpands, CanExpand, PlannerUnchanged, AfterPlanner, Goto, Working
<1>2. task \in Tasks
  BY <1>1, CurrentTask
<1>3. PICK added \in LLMSubtasks(task) \cup {NewTitles(FallbackSubtasks(task))} :
          added # <<>> /\ Expand(task, added)
  BY DEF PlannerExpands
<1>4. added \in Seq(NewTasks)
  <2>1. FallbackSubtasks(task) \in Seq(NewTasks)
    BY <1>2, FallbackTypes, UnderAreNew
  <2>2. NewTitles(FallbackSubtasks(task)) \in Seq(NewTasks)
    BY <2>1, NewTitlesTypes
  <2> QED BY <1>2, <1>3, <2>2, LLMTypes
<1> DEFINE u == [task EXCEPT !.status = "expanded", !.children = Ids(added)]
<1>5. Ids(added) \in Seq(TaskIds)
  BY <1>4, IdsType DEF NewTasks
<1>6. /\ u \in Tasks /\ u.id = task.id /\ u.call = task.call /\ u.status = "expanded"
      /\ u.tool_result_status = task.tool_result_status /\ u.children = Ids(added)
      /\ u.verification_scheduled = task.verification_scheduled
  BY <1>2, <1>5 DEF Tasks, TaskStatus
<1>7. task_tree' = Store(task_tree, <<u>> \o added) /\ agenda' = Ids(added) \o agenda
  BY <1>3 DEF Expand
<1> HIDE DEF u
<1> QED BY <1>1, <1>3, <1>4, <1>6, <1>7

\* What the shapes leave of the tree.
LEMMA MarkedTree ==
    ASSUME LoopTypes, Working, NEW u \in Tasks, Marked(u)
    PROVE  /\ IsTree(task_tree') /\ DOMAIN task_tree' = DOMAIN task_tree
           /\ task_tree'[current_task_id] = u
           /\ \A id \in DOMAIN task_tree \ {current_task_id} : task_tree'[id] = task_tree[id]
<1>1. u.id = current_task_id /\ current_task_id \in DOMAIN task_tree
  BY CurrentTask DEF Marked
<1>2. task_tree' = Put(task_tree, u.id, u)
  BY <1>1 DEF Marked, StoreTask
<1>3. IsTree(task_tree)
  BY DEF LoopTypes
<1> QED BY <1>1, <1>2, <1>3, PutIsTree

LEMMA CommittedTree ==
    ASSUME LoopTypes, Working, NEW u, NEW added, Committed(u, added)
    PROVE  LET tree1 == Store(task_tree, <<u>> \o added)
           IN  /\ IsTree(tree1) /\ Stored(tree1, task_tree, u, added)
               /\ IsTree(task_tree') /\ Restated(task_tree', tree1)
               /\ u.id = current_task_id /\ current_task_id \in DOMAIN task_tree
<1>1. u.id = current_task_id /\ current_task_id \in DOMAIN task_tree
  BY CurrentTask DEF Committed
<1>2. u \in Tasks /\ added \in Seq(NewTasks)
  BY DEF Committed
<1>3. IsTree(task_tree)
  BY DEF LoopTypes
<1> DEFINE tree1 == Store(task_tree, <<u>> \o added)
<1>4. IsTree(tree1) /\ Stored(tree1, task_tree, u, added)
  BY <1>1, <1>2, <1>3, StoreAdds
<1>5. task_tree' = EvaluateParent(tree1, task.parent)
  BY DEF Committed
<1> HIDE DEF tree1
<1>6. IsTree(task_tree') /\ Restated(task_tree', tree1)
  BY <1>4, <1>5, EvaluateParentIsTree
<1> QED BY <1>1, <1>4, <1>6 DEF tree1

LEMMA ExpandedTree ==
    ASSUME LoopTypes, Working, NEW u \in Tasks, NEW added \in Seq(NewTasks),
           u.id = task.id, task_tree' = Store(task_tree, <<u>> \o added)
    PROVE  /\ IsTree(task_tree') /\ Stored(task_tree', task_tree, u, added)
           /\ u.id = current_task_id /\ current_task_id \in DOMAIN task_tree
<1>1. u.id = current_task_id /\ current_task_id \in DOMAIN task_tree
  BY CurrentTask
<1>2. IsTree(task_tree)
  BY DEF LoopTypes
<1> QED BY <1>1, <1>2, StoreAdds

LEMMA RootTaskType == RootTask \in Tasks /\ RootTask.id = Root
<1>1. /\ Root \in TaskIds /\ NoTask \in TaskIds
  <2>1. <<>> \in TaskIds
    BY DEF TaskIds
  <2> QED BY <2>1, IdTypes
<1>2. <<"user_input">> \in Titles /\ NoCall \in Calls
  BY TitleTypes, CallTypes
<1> DEFINE title == <<"user_input">>
<1> HIDE DEF title
<1>3. title \in Titles
  BY <1>2 DEF title
<1>4. NewTask(Root, title, NoTask, 0, NoCall) \in Tasks
      /\ NewTask(Root, title, NoTask, 0, NoCall).id = Root
  BY <1>1, <1>2, <1>3, NewTaskType
<1> QED BY <1>4 DEF RootTask, title

\* The tree and the queue the scheduler works on.
LEMMA SchedulerTree ==
    ASSUME LoopTypes
    PROVE  /\ IsTree(Tree) /\ Queue \in Seq(TaskIds)
           /\ IF DOMAIN task_tree = {}
              THEN DOMAIN Tree = {Root} /\ Tree[Root] = RootTask /\ Queue = <<Root>>
              ELSE Tree = task_tree /\ Queue = agenda
<1>1. IsTree(task_tree) /\ agenda \in Seq(TaskIds)
  BY DEF LoopTypes
<1>2. CASE DOMAIN task_tree # {}
  BY <1>1, <1>2 DEF Tree, Queue
<1>3. CASE DOMAIN task_tree = {}
  <2>1. Tree = Put(task_tree, RootTask.id, RootTask) /\ Queue = <<Root>>
    BY <1>3, RootTaskType DEF Tree, Queue
  <2>2. /\ IsTree(Tree) /\ DOMAIN Tree = {Root} /\ Tree[Root] = RootTask
    <3> DEFINE t == RootTask
               new == Put(task_tree, t.id, t)
    <3>1. t \in Tasks /\ t.id = Root
      BY RootTaskType
    <3> HIDE DEF t
    <3>2. IsTree(new) /\ DOMAIN new = DOMAIN task_tree \cup {t.id} /\ new[t.id] = t
      BY <1>1, <3>1, PutIsTree
    <3> HIDE DEF new
    <3>3. Tree = new
      BY <2>1 DEF new, t
    <3> QED BY <1>3, <3>1, <3>2, <3>3 DEF t
  <2>3. Root \in TaskIds
    BY <2>2 DEF IsTree, Tasks
  <2> QED BY <1>3, <2>1, <2>2, <2>3
<1> QED BY <1>2, <1>3

\* The task the scheduler takes is the first ready one; only it leaves the queue.
LEMMA SchedulerTakes ==
    ASSUME LoopTypes, SchedulerSelects
    PROVE  /\ current_task_id' \in DOMAIN Tree /\ Tree[current_task_id'].status = "pending"
           /\ agenda' \in Seq(TaskIds)
           /\ ToSet(agenda') = ToSet(Queue) \ {current_task_id'}
<1>1. PICK first \in Ready :
          /\ current_task_id' = Queue[first]
          /\ agenda' = Kept(Queue, {i \in DOMAIN Queue : Queue[i] # Queue[first]})
  BY DEF SchedulerSelects
<1>2. Queue \in Seq(TaskIds)
  BY SchedulerTree
<1> DEFINE I == {i \in DOMAIN Queue : Queue[i] # Queue[first]}
           rest == Kept(Queue, I)
<1>3. /\ rest \in Seq(TaskIds)
      /\ \A k \in DOMAIN rest : \E i \in I : rest[k] = Queue[i]
      /\ \A i \in I : \E k \in DOMAIN rest : rest[k] = Queue[i]
  <2>1. I \in SUBSET DOMAIN Queue
    OBVIOUS
  <2> HIDE DEF I
  <2> QED BY <1>2, <2>1, KeptElements
<1>4. agenda' = rest
  BY <1>1
<1> HIDE DEF rest
<1>5. ToSet(rest) = ToSet(Queue) \ {Queue[first]}
  BY <1>3 DEF ToSet
<1> QED BY <1>1, <1>3, <1>4, <1>5 DEF Ready

\* Every node keeps the types.
LEMMA LoopTypesHold == Spec => []LoopTypes
<1>1. Init => LoopTypes
  <2> SUFFICES ASSUME Init PROVE LoopTypes
    OBVIOUS
  <2>1. IsTree(task_tree)
    <3>1. DOMAIN task_tree = {} /\ IsFiniteSet({})
      BY FS_EmptySet DEF Init
    <3>2. task_tree = [id \in DOMAIN task_tree |-> task_tree[id]]
      BY DEF Init
    <3> QED BY <3>1, <3>2 DEF IsTree
  <2>2. agenda \in Seq(TaskIds) /\ patch_history \in Seq(Patches)
    BY DEF Init
  <2>3. call \in Calls /\ runs \in 1..MaxRuns
    BY CallTypes, LoopConstantsAssumption DEF Init
  <2> QED BY <2>1, <2>2, <2>3 DEF Init, LoopTypes, Working, Nodes
<1>2. LoopTypes /\ [Next]_vars => LoopTypes'
  <2> SUFFICES ASSUME LoopTypes, [Next]_vars PROVE LoopTypes'
    OBVIOUS
  <2> USE DEF Goto
  <2>1. CASE UNCHANGED vars
    BY <2>1 DEF vars, LoopTypes, IsTree, Working
  <2>2. CASE SchedulerSelects \/ SchedulerFinishes
    <3>1. StepBegins
      BY <2>2 DEF SchedulerSelects, SchedulerFinishes
    <3>2. /\ task_tree' = Tree /\ step_count' \in Nat /\ call' \in Calls
          /\ UNCHANGED <<policy_decision, plan_validation_status, evaluation_decision,
                         human_approvals, patch_history, completed_tasks, unused_approvals, runs>>
      BY <3>1, CallTypes DEF StepBegins, LoopTypes
    <3>3. IsTree(task_tree')
      BY <3>2, SchedulerTree
    <3>4. CASE SchedulerSelects
      <4>1. pc' = "planner_decomposer" /\ agenda' \in Seq(TaskIds)
            /\ current_task_id' \in DOMAIN task_tree'
        BY <3>2, <3>4, SchedulerTakes DEF SchedulerSelects
      <4> QED BY <3>2, <3>3, <4>1 DEF LoopTypes, Nodes
    <3>5. CASE SchedulerFinishes
      <4>1. pc' = "code_agent_summarize" /\ agenda' = <<>>
        BY <3>5 DEF SchedulerFinishes
      <4>2. agenda' \in Seq(TaskIds)
        BY <4>1
      <4> QED BY <3>2, <3>3, <4>1, <4>2 DEF LoopTypes, Nodes, Working
    <3> QED BY <2>2, <3>4, <3>5
  <2>3. CASE PlannerExpands
    <3>1. /\ Working' /\ current_task_id' = current_task_id /\ Working
          /\ pc' \in {"plan_validator", "tool_selector"}
      BY <2>3, ExpandShape
    <3>2. PICK u \in Tasks, added \in Seq(NewTasks) :
              /\ u.id = task.id /\ task_tree' = Store(task_tree, <<u>> \o added)
              /\ agenda' = Ids(added) \o agenda
      BY <2>3, ExpandShape
    <3>3. IsTree(task_tree') /\ current_task_id' \in DOMAIN task_tree'
      BY <3>1, <3>2, ExpandedTree DEF Stored
    <3>4. agenda' \in Seq(TaskIds)
      <4>1. added \in Seq(Tasks)
        BY DEF NewTasks
      <4>2. Ids(added) \in Seq(TaskIds)
        BY <4>1, IdsType
      <4> QED BY <3>2, <4>2 DEF LoopTypes
    <3>5. call' \in Calls /\ UNCHANGED <<step_count, policy_decision, plan_validation_status,
              evaluation_decision, human_approvals, patch_history, completed_tasks,
              unused_approvals, runs>>
      BY <2>3, CallTypes DEF PlannerExpands, PlannerUnchanged
    <3> QED BY <3>1, <3>3, <3>4, <3>5 DEF LoopTypes, Nodes
  <2>4. CASE WorkSteps
    <3>1. /\ Working /\ agenda' = agenda
          /\ task_tree' = task_tree \/ Marking
          /\ Working' => current_task_id' = current_task_id
      BY <2>4, WorkShape DEF Working
    <3>2. IsTree(task_tree') /\ DOMAIN task_tree' = DOMAIN task_tree
      BY <3>1, MarkedTree DEF Marking, LoopTypes
    <3>3. Working' => current_task_id' \in DOMAIN task_tree'
      BY <3>1, <3>2 DEF LoopTypes
    <3>4. pc' \in Nodes
      BY <2>4 DEF WorkSteps, PlannerAlreadyExpanded, PlannerKeepsLeaf, AfterPlanner, ToolSelector,
         PlanValidator, ToolPolicy, ApprovalGranted, ApprovalDenied, Refuse, SandboxRunner, Executor,
         AsyncJobWaiter, ExecutionMonitor, RecoveryPlanner, Evaluator, Nodes
    <3>5. CASE PlannerAlreadyExpanded \/ PlannerKeepsLeaf \/ ToolSelector \/ PlanValidator
      <4>1. call' \in Calls
        <5>1. task.call \in Calls
          BY <3>1, CurrentTask DEF Tasks
        <5> QED BY <3>5, <5>1, CallTypes
                DEF PlannerAlreadyExpanded, PlannerKeepsLeaf, ToolSelector, PlanValidator, LoopTypes
      <4>2. /\ plan_validation_status' \in {"none", "valid", "invalid"}
            /\ UNCHANGED <<step_count, policy_decision, evaluation_decision, human_approvals,
                           patch_history, completed_tasks, unused_approvals, runs>>
        BY <3>5 DEF PlannerAlreadyExpanded, PlannerKeepsLeaf, ToolSelector, PlanValidator,
                    PlannerUnchanged, LoopTypes
      <4> QED BY <3>1, <3>2, <3>3, <3>4, <4>1, <4>2 DEF LoopTypes
    <3>6. CASE ToolPolicy \/ ApprovalDenied
      <4>1. /\ policy_decision' \in {"allow", "ask", "deny"}
            /\ UNCHANGED <<step_count, call, plan_validation_status, evaluation_decision,
                           human_approvals, patch_history, completed_tasks, unused_approvals, runs>>
        BY <3>6 DEF ToolPolicy, ApprovalDenied, Refuse, GateUnchanged
      <4> QED BY <3>1, <3>2, <3>3, <3>4, <4>1 DEF LoopTypes
    <3>7. CASE ApprovalGranted
      <4>1. PICK args \in {call.args} \cup ModifiedArgs :
                /\ call' = [call EXCEPT !.args = args]
                /\ unused_approvals' = unused_approvals \cup {[task |-> current_task_id, call |-> call']}
        BY <3>7 DEF ApprovalGranted
      <4>2. call' \in Calls
        BY <4>1, LoopConstantsAssumption DEF LoopTypes, Calls
      <4>3. current_task_id \in TaskIds
        BY <3>1, CurrentTask
      <4>4. [task |-> current_task_id, call |-> call'] \in Approvals
        BY <4>2, <4>3 DEF Approvals
      <4>5. unused_approvals' \subseteq Approvals
        BY <4>1, <4>4 DEF LoopTypes
      <4>6. /\ human_approvals' = human_approvals \cup {current_task_id}
            /\ policy_decision' = "allow"
            /\ UNCHANGED <<step_count, plan_validation_status, evaluation_decision,
                           patch_history, completed_tasks, runs>>
        BY <3>7 DEF ApprovalGranted, GateUnchanged
      <4> QED BY <3>1, <3>2, <3>3, <3>4, <4>2, <4>3, <4>5, <4>6 DEF LoopTypes
    <3>8. CASE Executor
      <4>1. patch_history' = patch_history \/ \E restorable \in BOOLEAN :
                patch_history' = Append(patch_history, [task |-> current_task_id,
                                                        path |-> call.args,
                                                        restorable |-> restorable])
        BY <3>8 DEF Executor
      <4>2. current_task_id \in TaskIds /\ call.args \in Args
        BY <3>1, CurrentTask DEF LoopTypes, Calls
      <4>3. \A restorable \in BOOLEAN :
                [task |-> current_task_id, path |-> call.args, restorable |-> restorable] \in Patches
        BY <4>2 DEF Patches
      <4>4. patch_history' \in Seq(Patches)
        <5>1. patch_history \in Seq(Patches)
          BY DEF LoopTypes
        <5>2. \A p \in Patches : Append(patch_history, p) \in Seq(Patches)
          BY <5>1
        <5> QED BY <4>1, <4>3, <5>1, <5>2
      <4>5. /\ unused_approvals' \subseteq unused_approvals
            /\ UNCHANGED <<step_count, call, policy_decision, plan_validation_status,
                           evaluation_decision, human_approvals, completed_tasks, runs>>
        BY <3>8 DEF Executor, ExecutionUnchanged
      <4> QED BY <3>1, <3>2, <3>3, <3>4, <4>4, <4>5 DEF LoopTypes
    <3>9. CASE SandboxRunner \/ AsyncJobWaiter \/ ExecutionMonitor \/ RecoveryPlanner \/ Evaluator
      <4>1. /\ evaluation_decision' \in Decisions \cup {"none"}
            /\ UNCHANGED <<step_count, call, policy_decision, plan_validation_status,
                           human_approvals, patch_history, completed_tasks, unused_approvals, runs>>
        BY <3>9, JudgementsAreDecisions DEF SandboxRunner, AsyncJobWaiter, ExecutionMonitor,
           RecoveryPlanner, Evaluator, ExecutionUnchanged, LoopTypes
      <4> QED BY <3>1, <3>2, <3>3, <3>4, <4>1 DEF LoopTypes
    <3> QED BY <2>4, <3>5, <3>6, <3>7, <3>8, <3>9 DEF WorkSteps
  <2>5. CASE CommitSteps
    <3>1. Working /\ pc' = "memory_writer" /\ Committing
      BY <2>5, CommitShape
    <3>2. PICK u \in Tasks, added \in Seq(NewTasks) : Committed(u, added)
      BY <3>1 DEF Committing
    <3>3. IsTree(task_tree')
      BY <3>1, <3>2, CommittedTree
    <3>4. agenda' \in Seq(TaskIds)
      <4>1. added \in Seq(Tasks)
        BY DEF NewTasks
      <4>2. Ids(added) \in Seq(TaskIds) /\ <<task.id>> \in Seq(TaskIds)
        BY <3>1, <4>1, IdsType, CurrentTask
      <4> QED BY <3>2, <4>2 DEF LoopTypes, Committed
    <3>5. /\ evaluation_decision' \in {evaluation_decision, "fail"}
          /\ call' \in {call, NoCall}
          /\ completed_tasks' \in {completed_tasks, completed_tasks \cup {task.call}}
          /\ UNCHANGED <<step_count, policy_decision, plan_validation_status, human_approvals,
                         patch_history, unused_approvals, runs>>
      BY <2>5 DEF CommitSteps, CommitRetry, CommitExpand, CommitRollback, CommitFinal, Commit
    <3>6. task.call \in Calls
      BY <3>1, CurrentTask DEF Tasks
    <3> QED BY <3>1, <3>3, <3>4, <3>5, <3>6, CallTypes DEF LoopTypes, Nodes, Working, Decisions
  <2>6. CASE MemoryAndReport
    BY <2>6 DEF MemoryAndReport, LoopTypes, Nodes, Working
  <2>7. CASE Rerun
    <3>1. IsTree(task_tree')
      <4>1. DOMAIN task_tree' = {} /\ IsFiniteSet({})
        BY <2>7, FS_EmptySet DEF Rerun
      <4>2. task_tree' = [id \in DOMAIN task_tree' |-> task_tree'[id]]
        BY <2>7 DEF Rerun
      <4> QED BY <4>1, <4>2 DEF IsTree
    <3>2. agenda' \in Seq(TaskIds)
      BY <2>7 DEF Rerun
    <3>3. call' \in Calls /\ runs' \in 1..MaxRuns
      BY <2>7, CallTypes, LoopConstantsAssumption DEF Rerun, LoopTypes
    <3> QED BY <2>7, <3>1, <3>2, <3>3 DEF Rerun, LoopTypes, Nodes, Working
  <2> QED BY <2>1, <2>2, <2>3, <2>4, <2>5, <2>6, <2>7 DEF Next, Node, WorkSteps, CommitSteps
<1> QED BY <1>1, <1>2, PTL DEF Spec

(***************************************************************************)
(* What the attempt record holds at each node, and what the evaluator may  *)
(* conclude from it.                                                       *)
(***************************************************************************)
BeforeRecovery ==
    {"planner_decomposer", "tool_selector", "plan_validator", "tool_policy",
     "approval_interrupt", "sandbox_runner", "executor", "async_job_waiter",
     "execution_monitor"}

RanWell == attempt.execution_status = "completed" /\ attempt.tool_result_status = "success"

\* Why the evaluator may look at the task: its plan was rejected, it was
\* refused, it ran well, or recovery gave advice.
JudgedOn ==
    \/ plan_validation_status = "invalid"
    \/ ~SandboxSupported
    \/ attempt.recovery = "none" /\ task.tool_result_status = "blocked"
    \/ attempt.recovery \in RecoveryActions
    \/ RanWell

AttemptInv ==
    /\ attempt \in Attempts
    /\ evaluation_decision \in Decisions \cup {"none"}
    /\ pc \in BeforeRecovery => attempt.recovery = "none"
    /\ pc \in {"async_job_waiter", "execution_monitor"}
           /\ attempt.tool_result_status = "success"
           /\ attempt.execution_status # "completed_over_budget"
           => attempt.execution_status = "completed"
    /\ pc \in {"async_job_waiter", "execution_monitor"} =>
           attempt.tool_result_status # "none"
    /\ pc = "recovery_planner" => attempt.monitor # "ok"
    /\ pc = "evaluator_verifier" => JudgedOn
    /\ pc = "task_committer" /\ evaluation_decision = "complete" =>
           plan_validation_status = "invalid" \/ ~SandboxSupported \/ RanWell

\* Advice and a blocked task both take the decision away from the model.
LEMMA CompleteIsNotAdvised ==
    ASSUME JudgedOn, "complete" \in EvaluatorDecisions
    PROVE  plan_validation_status = "invalid" \/ ~SandboxSupported \/ RanWell
<1>1. attempt.recovery \notin RecoveryActions
  BY DEF EvaluatorDecisions, RecoveryActions
<1>2. ~(attempt.recovery = "none" /\ task.tool_result_status = "blocked")
  BY DEF EvaluatorDecisions
<1> QED BY <1>1, <1>2 DEF JudgedOn

LEMMA AttemptInvHolds == Spec => []AttemptInv
<1>1. Init => AttemptInv
  BY DEF Init, AttemptInv, NoAttempt, Attempts, BeforeRecovery
<1>2. LoopTypes /\ AttemptInv /\ [Next]_vars => AttemptInv'
  <2> SUFFICES ASSUME LoopTypes, AttemptInv, [Next]_vars PROVE AttemptInv'
    OBVIOUS
  <2> USE DEF Goto
  <2>0. /\ attempt \in Attempts
        /\ evaluation_decision \in Decisions \cup {"none"}
    BY DEF AttemptInv
  <2>1. CASE SchedulerSelects \/ SchedulerFinishes \/ Rerun
    <3>1. attempt' = NoAttempt /\ evaluation_decision' \in Decisions \cup {"none"}
      BY <2>0, <2>1 DEF SchedulerSelects, SchedulerFinishes, StepBegins, Rerun
    <3>2. pc' \in {"planner_decomposer", "code_agent_summarize", "scheduler"}
      BY <2>1 DEF SchedulerSelects, SchedulerFinishes, Rerun
    <3> QED BY <3>1, <3>2 DEF AttemptInv, NoAttempt, Attempts, BeforeRecovery
  <2>2. CASE PlannerAlreadyExpanded \/ PlannerExpands \/ PlannerKeepsLeaf \/ ToolSelector
    <3>1. /\ pc = "planner_decomposer" \/ pc = "tool_selector"
          /\ pc' \in {"plan_validator", "tool_selector"}
          /\ UNCHANGED <<attempt, evaluation_decision>>
      BY <2>2 DEF PlannerAlreadyExpanded, PlannerExpands, PlannerKeepsLeaf, ToolSelector,
                  AfterPlanner, PlannerUnchanged
    <3> QED BY <3>1 DEF AttemptInv, BeforeRecovery
  <2>3. CASE PlanValidator
    <3>1. /\ pc = "plan_validator"
          /\ UNCHANGED evaluation_decision
          /\ \/ pc' = "evaluator_verifier" /\ plan_validation_status' = "invalid"
                    /\ attempt' = [attempt EXCEPT !.tool_result_status = "failed"]
             \/ pc' = "scheduler" /\ attempt' = [attempt EXCEPT !.tool_result_status = "none"]
             \/ pc' = "tool_policy" /\ attempt' = attempt
      BY <2>3 DEF PlanValidator
    <3>2. attempt' \in Attempts
      BY <2>0, <3>1 DEF Attempts, ResultStatus
    <3> QED BY <3>1, <3>2 DEF AttemptInv, BeforeRecovery, JudgedOn
  <2>4. CASE ToolPolicy \/ ApprovalDenied
    <3>1. pc \in BeforeRecovery /\ attempt.recovery = "none"
      BY <2>4 DEF ToolPolicy, ApprovalDenied, AttemptInv, BeforeRecovery
    <3>2. UNCHANGED <<evaluation_decision, current_task_id>>
      BY <2>4 DEF ToolPolicy, ApprovalDenied, GateUnchanged
    <3>3. CASE Refuse("failed") \/ Refuse("blocked")
      <4>1. /\ pc' = "evaluator_verifier"
            /\ attempt' = [attempt EXCEPT !.tool_result_status = "blocked"]
        BY <3>3 DEF Refuse
      <4>2. task'.tool_result_status = "blocked"
        <5>1. PICK status \in {"failed", "blocked"} :
                  StoreTask([task EXCEPT !.status = status, !.tool_result_status = "blocked"])
          BY <3>3 DEF Refuse
        <5>2. task' = [task EXCEPT !.status = status, !.tool_result_status = "blocked"]
          BY <3>2, <5>1 DEF StoreTask, Put, task
        <5>3. Working
          BY <3>1 DEF BeforeRecovery, Working
        <5>4. task \in Tasks
          BY <5>3, CurrentTask
        <5> QED BY <5>2, <5>4 DEF Tasks
      <4>3. attempt' \in Attempts /\ attempt'.recovery = "none"
        BY <2>0, <3>1, <4>1 DEF Attempts, ResultStatus
      <4>4. JudgedOn'
        BY <4>2, <4>3 DEF JudgedOn
      <4> QED BY <2>0, <3>2, <4>1, <4>3, <4>4 DEF AttemptInv, BeforeRecovery
    <3>4. CASE pc' \in {"approval_interrupt", "sandbox_runner"} /\ attempt' = attempt
      BY <2>0, <3>1, <3>2, <3>4 DEF AttemptInv, BeforeRecovery
    <3> QED BY <2>4, <3>3, <3>4 DEF ToolPolicy, ApprovalDenied
  <2>5. CASE ApprovalGranted
    <3>1. /\ pc = "approval_interrupt" /\ pc' = "sandbox_runner"
          /\ UNCHANGED <<attempt, evaluation_decision>>
      BY <2>5 DEF ApprovalGranted, GateUnchanged
    <3> QED BY <3>1 DEF AttemptInv, BeforeRecovery
  <2>6. CASE SandboxRunner
    <3>1. /\ pc = "sandbox_runner"
          /\ UNCHANGED evaluation_decision
          /\ \/ pc' = "executor" /\ attempt' = attempt
             \/ /\ ~SandboxSupported /\ pc' = "evaluator_verifier"
                /\ attempt' = [attempt EXCEPT !.tool_result_status = "blocked",
                                              !.execution_status = "blocked"]
      BY <2>6 DEF SandboxRunner, ExecutionUnchanged
    <3>2. attempt' \in Attempts
      BY <2>0, <3>1 DEF Attempts, ResultStatus
    <3> QED BY <3>1, <3>2 DEF AttemptInv, BeforeRecovery, JudgedOn
  <2>7. CASE Executor
    <3>1. PICK o \in IF PreflightRefuses \/ ~Valid(call) THEN {Blocked} ELSE ToolOutcomes[call.tool] :
              attempt' = [attempt EXCEPT !.tool_result_status = o.status,
                                         !.execution_status = ExecutionStatus(o),
                                         !.report = o.report]
      BY <2>7 DEF Executor
    <3>2. o \in Outcomes
      BY <3>1, OutcomeType
    <3>3. /\ pc = "executor" /\ pc' = "async_job_waiter"
          /\ UNCHANGED evaluation_decision
      BY <2>7 DEF Executor, ExecutionUnchanged
    <3>4. ExecutionStatus(o) \in {"blocked", "failed", "completed", "completed_over_budget"}
      BY DEF ExecutionStatus
    <3>5. attempt' \in Attempts
      BY <2>0, <3>1, <3>2, <3>4 DEF Attempts, Outcomes
    <3>6. attempt'.tool_result_status = o.status /\ attempt'.execution_status = ExecutionStatus(o)
          /\ attempt'.recovery = attempt.recovery
      BY <2>0, <3>1 DEF Attempts
    <3>7. o.status = "success" /\ ExecutionStatus(o) # "completed_over_budget"
              => ExecutionStatus(o) = "completed"
      BY DEF ExecutionStatus
    <3>8. o.status # "none" /\ attempt.recovery = "none"
      BY <3>2, <3>3 DEF Outcomes, ResultStatus, AttemptInv, BeforeRecovery
    <3> QED BY <2>0, <3>3, <3>5, <3>6, <3>7, <3>8 DEF AttemptInv, BeforeRecovery
  <2>8. CASE AsyncJobWaiter
    <3>1. /\ pc = "async_job_waiter" /\ pc' = "execution_monitor"
          /\ UNCHANGED <<attempt, evaluation_decision>>
      BY <2>8 DEF AsyncJobWaiter, ExecutionUnchanged
    <3> QED BY <3>1 DEF AttemptInv, BeforeRecovery
  <2>9. CASE ExecutionMonitor
    <3>1. /\ pc = "execution_monitor"
          /\ attempt' = [attempt EXCEPT !.monitor = MonitorStatus]
          /\ pc' = IF MonitorStatus = "ok" THEN "evaluator_verifier" ELSE "recovery_planner"
          /\ UNCHANGED evaluation_decision
      BY <2>9 DEF ExecutionMonitor, ExecutionUnchanged
    <3>2. attempt.tool_result_status \in ResultStatus
      BY <2>0, <3>1 DEF AttemptInv, Attempts
    <3>3. MonitorStatus \in {"ok", "blocked", "failed", "empty", "partial", "over_budget"}
      BY <3>2 DEF MonitorStatus, ResultStatus
    <3>4. attempt' \in Attempts
      BY <2>0, <3>1, <3>3 DEF Attempts
    <3>5. /\ attempt'.monitor = MonitorStatus
          /\ attempt'.tool_result_status = attempt.tool_result_status
          /\ attempt'.execution_status = attempt.execution_status
      BY <2>0, <3>1 DEF Attempts
    <3>6. MonitorStatus = "ok" => RanWell'
      BY <3>1, <3>2, <3>5 DEF MonitorStatus, ResultStatus, RanWell, AttemptInv
    <3> QED BY <2>0, <3>1, <3>4, <3>5, <3>6 DEF AttemptInv, BeforeRecovery, JudgedOn
  <2>10. CASE RecoveryPlanner
    <3>1. LocalRecovery \in RecoveryActions
      BY DEF LocalRecovery, RecoveryActions
    <3>2. PICK r \in RecoveryActions : attempt' = [attempt EXCEPT !.recovery = r]
      BY <2>10, <3>1 DEF RecoveryPlanner
    <3>3. attempt' \in Attempts /\ attempt'.recovery \in RecoveryActions
      BY <2>0, <3>2 DEF Attempts
    <3>4. pc' = "evaluator_verifier" /\ UNCHANGED evaluation_decision
      BY <2>10 DEF RecoveryPlanner, ExecutionUnchanged
    <3> QED BY <2>0, <3>3, <3>4 DEF AttemptInv, BeforeRecovery, JudgedOn
  <2>11. CASE Evaluator
    <3>1. /\ pc = "evaluator_verifier" /\ pc' = "task_committer"
          /\ evaluation_decision' \in EvaluatorDecisions
          /\ UNCHANGED <<attempt, plan_validation_status>>
      BY <2>11 DEF Evaluator
    <3>2. evaluation_decision' \in Decisions
      BY <3>1, JudgementsAreDecisions
    <3>3. JudgedOn
      BY <3>1 DEF AttemptInv
    <3>4. evaluation_decision' = "complete" =>
              plan_validation_status = "invalid" \/ ~SandboxSupported \/ RanWell
      BY <3>1, <3>3, CompleteIsNotAdvised
    <3> QED BY <2>0, <3>1, <3>2, <3>4 DEF AttemptInv, BeforeRecovery, RanWell
  <2>12. CASE CommitRetry \/ CommitExpand \/ CommitRollback \/ CommitFinal \/ MemoryAndReport
    <3>1. /\ pc' \in {"memory_writer", "scheduler"}
          /\ attempt' = attempt
          /\ evaluation_decision' \in {evaluation_decision, "fail"}
      BY <2>12 DEF CommitRetry, CommitExpand, CommitRollback, CommitFinal, Commit,
                   MemoryAndReport
    <3> QED BY <2>0, <3>1 DEF AttemptInv, BeforeRecovery, Decisions
  <2>13. CASE UNCHANGED vars
    BY <2>13 DEF vars, AttemptInv, JudgedOn, RanWell, task
  <2> QED BY <2>1, <2>2, <2>3, <2>4, <2>5, <2>6, <2>7, <2>8, <2>9, <2>10, <2>11, <2>12, <2>13
          DEF Next, Node
<1> QED BY <1>1, <1>2, LoopTypesHold, PTL DEF Spec

\* Whatever the model answers, a task is judged complete only when its tool was
\* executed in this very step and ended well; the two exceptions are a rejected
\* plan and an unsupported sandbox mode.
THEOREM CompletionsWereExecuted == Spec => []CompleteMeansExecuted
<1>1. AttemptInv => CompleteMeansExecuted
  BY DEF AttemptInv, CompleteMeansExecuted, RanWell
<1> QED BY <1>1, AttemptInvHolds, PTL

\* The loop's type invariant: every task is stored under its own id, and a node
\* at work has a current task in the tree.
THEOREM TypeCorrect == Spec => []TypeOK
<1>1. LoopTypes /\ AttemptInv => TypeOK
  BY DEF LoopTypes, AttemptInv, TypeOK, IsTree, Working, Patches
<1> QED BY <1>1, LoopTypesHold, AttemptInvHolds, PTL

(***************************************************************************)
(* No leaf is lost: it has its verdict, waits on the agenda (or was cut    *)
(* off by the step budget), or is the task at work, which the planner has  *)
(* marked before any other node sees it.                                   *)
(***************************************************************************)
Accounted(id) ==
    \/ task_tree[id].status \in {"done", "failed"}
    \/ /\ task_tree[id].status = "pending"
       /\ IF pc = "code_agent_summarize" THEN step_count > MaxSteps ELSE id \in ToSet(agenda)
    \/ /\ Working /\ id = current_task_id
       /\ task_tree[id].status = "pending" => pc = "planner_decomposer"

LeavesAccounted == \A id \in Leaves : Accounted(id)

\* Where a leaf comes from after an expansion or a commit.
Origin(id, u, added) ==
    \/ /\ id \in AddedIds(added) /\ task_tree'[id] \in NewTasks
       /\ \E i \in DOMAIN added : task_tree'[id] = added[i]
    \/ /\ id \notin AddedIds(added) /\ id = u.id /\ task_tree'[id] = u
    \/ /\ id \notin AddedIds(added) /\ id # u.id
       /\ id \in DOMAIN task_tree /\ task_tree'[id] = task_tree[id]

LEMMA StoredOrigin ==
    ASSUME NEW u \in Tasks, NEW added \in Seq(NewTasks), NEW new,
           Stored(new, task_tree, u, added), NEW id \in DOMAIN new, task_tree'[id] = new[id],
           u.id \in DOMAIN task_tree
    PROVE  Origin(id, u, added)
<1>1. CASE id \in AddedIds(added)
  <2>1. PICK i \in DOMAIN added : new[id] = added[i]
    BY <1>1 DEF Stored
  <2>2. added[i] \in NewTasks
    OBVIOUS
  <2> QED BY <1>1, <2>1, <2>2 DEF Origin
<1>2. CASE id \notin AddedIds(added)
  BY <1>2 DEF Stored, Origin
<1> QED BY <1>1, <1>2

LEMMA ExpandedOrigin ==
    ASSUME LoopTypes, Working, NEW u \in Tasks, NEW added \in Seq(NewTasks),
           u.id = task.id, task_tree' = Store(task_tree, <<u>> \o added),
           NEW id \in DOMAIN task_tree'
    PROVE  Origin(id, u, added) /\ u.id = current_task_id
<1>1. Stored(task_tree', task_tree, u, added) /\ u.id = current_task_id
      /\ current_task_id \in DOMAIN task_tree
  BY ExpandedTree
<1> QED BY <1>1, StoredOrigin

LEMMA CommittedOrigin ==
    ASSUME LoopTypes, Working, NEW u \in Tasks, NEW added \in Seq(NewTasks), Committed(u, added),
           NEW id \in DOMAIN task_tree', task_tree'[id].children = <<>>
    PROVE  Origin(id, u, added) /\ u.id = current_task_id
<1> DEFINE new == Store(task_tree, <<u>> \o added)
<1>1. /\ IsTree(new) /\ Stored(new, task_tree, u, added) /\ Restated(task_tree', new)
      /\ u.id = current_task_id /\ current_task_id \in DOMAIN task_tree
  BY CommittedTree
<1> HIDE DEF new
<1>2. id \in DOMAIN new /\ task_tree'[id] = new[id]
  <2>1. id \in DOMAIN new
    BY <1>1 DEF Restated
  <2>2. new[id] \in Tasks
    BY <1>1, <2>1 DEF IsTree
  <2>3. CASE new[id].children = <<>>
    BY <1>1, <2>1, <2>3 DEF Restated
  <2>4. CASE new[id].children # <<>>
    <3>1. task_tree'[id] = [new[id] EXCEPT !.status = task_tree'[id].status]
      BY <1>1, <2>1, <2>4 DEF Restated
    <3>2. task_tree'[id].children = new[id].children
      BY <2>2, <3>1 DEF Tasks
    <3> QED BY <2>4, <3>2
  <2> QED BY <2>1, <2>3, <2>4
<1> QED BY <1>1, <1>2, StoredOrigin

\* What a commit or an expansion leaves of the leaves.
LEMMA AccountedAfterStore ==
    ASSUME LoopTypes, LeavesAccounted, Working, NEW u \in Tasks, NEW added \in Seq(NewTasks),
           u.id = current_task_id,
           NEW id \in DOMAIN task_tree', task_tree'[id].children = <<>>, Origin(id, u, added),
           ToSet(agenda) \cup (IF u.status = "pending" THEN {u.id} ELSE AddedIds(added))
               \subseteq ToSet(agenda'),
           u.status = "pending" => added = <<>>,
           u.children = <<>> => u.status \in {"pending", "done", "failed"},
           pc' # "code_agent_summarize"
    PROVE  Accounted(id)'
<1>1. CASE id \in AddedIds(added)
  <2>1. u.status # "pending"
    BY <1>1 DEF AddedIds
  <2>2. id \in ToSet(agenda')
    BY <1>1, <2>1
  <2>3. task_tree'[id].status = "pending"
    BY <1>1 DEF Origin, NewTasks
  <2> QED BY <2>2, <2>3 DEF Accounted
<1>2. CASE id \notin AddedIds(added) /\ id = u.id
  <2>1. task_tree'[id] = u
    BY <1>2 DEF Origin
  <2> QED BY <1>2, <2>1 DEF Accounted
<1>3. CASE id \notin AddedIds(added) /\ id # u.id
  <2>1. id \in Leaves /\ task_tree'[id] = task_tree[id]
    BY <1>3 DEF Origin, Leaves
  <2>2. Accounted(id) /\ id # current_task_id /\ pc # "code_agent_summarize"
    BY <1>3, <2>1 DEF LeavesAccounted, Working
  <2> QED BY <2>1, <2>2 DEF Accounted
<1> QED BY <1>1, <1>2, <1>3

LEMMA LeavesAccountedHolds == Spec => []LeavesAccounted
<1>1. Init => LeavesAccounted
  BY DEF Init, LeavesAccounted, Leaves
<1>2. LoopTypes /\ LeavesAccounted /\ [Next]_vars => LeavesAccounted'
  <2> SUFFICES ASSUME LoopTypes, LeavesAccounted, [Next]_vars,
                      NEW id \in DOMAIN task_tree', task_tree'[id].children = <<>>
               PROVE  Accounted(id)'
    BY DEF LeavesAccounted, Leaves
  <2>1. CASE UNCHANGED vars
    BY <2>1 DEF vars, LeavesAccounted, Leaves, Accounted, Working
  <2>2. CASE SchedulerSelects \/ SchedulerFinishes
    <3>1. /\ pc = "scheduler" /\ task_tree' = Tree /\ step_count' = step_count + 1
      BY <2>2 DEF SchedulerSelects, SchedulerFinishes, StepBegins
    <3>2. \/ Tree[id].status \in {"done", "failed"}
          \/ Tree[id].status = "pending" /\ id \in ToSet(Queue)
      <4>1. CASE DOMAIN task_tree = {}
        <5>1. id = Root /\ Tree[id] = RootTask /\ Queue = <<Root>>
          BY <3>1, <4>1, SchedulerTree
        <5>2. RootTask.status = "pending"
          BY DEF RootTask, NewTask
        <5>3. Root \in ToSet(<<Root>>)
          BY DEF ToSet
        <5> QED BY <5>1, <5>2, <5>3
      <4>2. CASE DOMAIN task_tree # {}
        <5>1. Tree = task_tree /\ Queue = agenda
          BY <4>2, SchedulerTree
        <5>2. Accounted(id)
          BY <3>1, <5>1 DEF LeavesAccounted, Leaves
        <5> QED BY <3>1, <5>1, <5>2 DEF Accounted, Working
      <4> QED BY <4>1, <4>2
    <3>3. CASE SchedulerSelects
      <4>1. pc' = "planner_decomposer" /\ ToSet(agenda') = ToSet(Queue) \ {current_task_id'}
        BY <3>3, SchedulerTakes DEF SchedulerSelects, Goto
      <4> QED BY <3>1, <3>2, <4>1 DEF Accounted, Working
    <3>4. CASE SchedulerFinishes
      <4>1. pc' = "code_agent_summarize" /\ (step_count + 1 > MaxSteps \/ Ready = {})
        BY <3>4 DEF SchedulerFinishes, Goto
      <4>2. Tree[id].status = "pending" => Ready # {}
        <5> SUFFICES ASSUME Tree[id].status = "pending" PROVE Ready # {}
          OBVIOUS
        <5>1. PICK i \in DOMAIN Queue : Queue[i] = id
          BY <3>2 DEF ToSet
        <5> QED BY <3>1, <5>1 DEF Ready
      <4> QED BY <3>1, <3>2, <4>1, <4>2 DEF Accounted
    <3> QED BY <2>2, <3>3, <3>4
  <2>3. CASE PlannerExpands
    <3>1. Working
      BY <2>3, ExpandShape
    <3>2. PICK u \in Tasks, added \in Seq(NewTasks) :
              /\ u.id = task.id /\ u.status = "expanded"
              /\ added # <<>> /\ u.children = Ids(added)
              /\ task_tree' = Store(task_tree, <<u>> \o added)
              /\ agenda' = Ids(added) \o agenda
      BY <2>3, ExpandShape
    <3>3. Origin(id, u, added) /\ u.id = current_task_id
      BY <3>1, <3>2, ExpandedOrigin
    <3>4. added \in Seq(Tasks)
      BY DEF NewTasks
    <3>5. Ids(added) # <<>> /\ ToSet(agenda') = AddedIds(added) \cup ToSet(agenda)
      BY <3>2, <3>4, IdsType, ToSetOfConcat DEF LoopTypes
    <3>6. pc' # "code_agent_summarize"
      BY <2>3, ExpandShape
    <3> QED BY <3>1, <3>2, <3>3, <3>5, <3>6, AccountedAfterStore
  <2>4. CASE WorkSteps
    <3>1. Working /\ agenda' = agenda /\ pc' # "code_agent_summarize"
      BY <2>4, WorkShape
    <3>2. CASE Marking
      <4>1. PICK u \in Tasks : Marked(u)
        BY <3>2 DEF Marking
      <4>2. /\ id \in DOMAIN task_tree /\ task_tree'[current_task_id] = u
            /\ id # current_task_id => task_tree'[id] = task_tree[id]
        BY <3>1, <4>1, MarkedTree
      <4>3. CASE id = current_task_id
        <5>1. u.status \in MarkStatus /\ u.children = task.children /\ task_tree'[id] = u
          BY <4>1, <4>2, <4>3 DEF Marked
        <5>2. CASE Working' /\ current_task_id' = current_task_id
          BY <4>3, <5>1, <5>2 DEF Accounted, MarkStatus
        <5>3. CASE pc' = "scheduler" /\ task_tree' = task_tree /\ task.children # <<>>
          BY <5>1, <5>3
        <5> QED BY <2>4, <5>2, <5>3, WorkShape
      <4>4. CASE id # current_task_id
        <5>1. Accounted(id) /\ task_tree'[id] = task_tree[id]
          BY <4>2, <4>4 DEF LeavesAccounted, Leaves
        <5> QED BY <3>1, <4>4, <5>1 DEF Accounted, Working
      <4> QED BY <4>3, <4>4
    <3>3. CASE task_tree' = task_tree /\ (pc = "planner_decomposer" => task.children # <<>>)
      <4>1. Accounted(id) /\ (id = current_task_id => task = task_tree[id])
        BY <3>3 DEF LeavesAccounted, Leaves, task
      <4>2. id = current_task_id => pc # "planner_decomposer" /\ task.children = <<>>
        BY <3>3, <4>1
      <4>3. id = current_task_id => Working' /\ current_task_id' = current_task_id
        BY <2>4, <4>2, WorkShape
      <4> QED BY <3>1, <3>3, <4>1, <4>2, <4>3 DEF Accounted, Working
    <3> QED BY <2>4, <3>2, <3>3, WorkShape
  <2>5. CASE CommitSteps
    <3>1. Working /\ Committing /\ pc' = "memory_writer"
      BY <2>5, CommitShape
    <3>2. PICK u \in Tasks, added \in Seq(NewTasks) :
              Committed(u, added) /\ (Retried(u, added) \/ Extended(u, added) \/ Closed(u, added))
      BY <3>1 DEF Committing
    <3>3. Origin(id, u, added) /\ u.id = current_task_id
      BY <3>1, <3>2, CommittedOrigin
    <3>4. added \in Seq(Tasks)
      BY DEF NewTasks
    <3>5. /\ Ids(added) \in Seq(TaskIds) /\ ToSet(Ids(added)) = AddedIds(added)
          /\ added # <<>> => Ids(added) # <<>>
      BY <3>4, IdsType
    <3>6. <<task.id>> \in Seq(TaskIds) /\ ToSet(<<task.id>>) = {task.id} /\ u.id = task.id
      BY <3>1, <3>2, CurrentTask DEF Committed, ToSet
    <3>7. ToSet(agenda') =
              ToSet(agenda) \cup (IF u.status = "pending" THEN {u.id} ELSE AddedIds(added))
      <4>1. CASE u.status = "pending"
        <5> DEFINE again == <<task.id>>
        <5>1. /\ agenda' = again \o agenda /\ agenda \in Seq(TaskIds)
              /\ again \in Seq(TaskIds) /\ ToSet(again) = {u.id}
          BY <3>2, <3>6, <4>1 DEF Committed, LoopTypes
        <5> HIDE DEF again
        <5>2. ToSet(agenda') = ToSet(again) \cup ToSet(agenda)
          BY <5>1, ToSetOfConcat
        <5> QED BY <4>1, <5>1, <5>2
      <4>2. CASE u.status # "pending"
        <5>1. agenda' = Ids(added) \o agenda
          BY <3>2, <4>2 DEF Committed
        <5>2. ToSet(agenda') = ToSet(Ids(added)) \cup ToSet(agenda)
          BY <3>5, <5>1, ToSetOfConcat DEF LoopTypes
        <5> QED BY <3>5, <4>2, <5>2
      <4> QED BY <4>1, <4>2
    <3>8. /\ u.status = "pending" => added = <<>>
          /\ u.children = <<>> => u.status \in {"pending", "done", "failed"}
      BY <3>2, <3>5 DEF Retried, Extended, Closed
    <3> QED BY <3>1, <3>3, <3>7, <3>8, AccountedAfterStore
  <2>6. CASE MemoryAndReport
    <3>1. Accounted(id) /\ pc = "memory_writer"
      BY <2>6 DEF MemoryAndReport, LeavesAccounted, Leaves
    <3> QED BY <2>6, <3>1 DEF MemoryAndReport, Goto, Accounted, Working
  <2>7. CASE Rerun
    BY <2>7 DEF Rerun
  <2> QED BY <2>1, <2>2, <2>3, <2>4, <2>5, <2>6, <2>7 DEF Next, Node, WorkSteps, CommitSteps
<1> QED BY <1>1, <1>2, LoopTypesHold, PTL DEF Spec

\* No expansion, retry, rollback or replaced id drops a pending leaf: while the
\* loop runs it is on the agenda or in the hands of the planner.
THEOREM NothingIsLost == Spec => []NoTaskIsLost
<1>1. LeavesAccounted => NoTaskIsLost
  BY DEF LeavesAccounted, Accounted, NoTaskIsLost
<1> QED BY <1>1, LeavesAccountedHolds, PTL

\* A loop that ends within its step budget leaves every leaf done or failed.
THEOREM EndsSettled == Spec => []SettledAtEnd
<1>1. LoopTypes /\ LeavesAccounted => SettledAtEnd
  <2> SUFFICES ASSUME LoopTypes, LeavesAccounted, pc = "code_agent_summarize",
                      step_count <= MaxSteps, NEW id \in Leaves
               PROVE  task_tree[id].status \in {"done", "failed"}
    BY DEF SettledAtEnd
  <2>1. Accounted(id)
    BY DEF LeavesAccounted
  <2>2. ~(step_count > MaxSteps)
    BY LoopConstantsAssumption DEF LoopTypes
  <2> QED BY <2>1, <2>2 DEF Accounted, Working
<1> QED BY <1>1, LoopTypesHold, LeavesAccountedHolds, PTL

(***************************************************************************)
(* Between the gate and the executor the current call is the task's own,   *)
(* and the task has no subtasks.                                           *)
(***************************************************************************)
CallIsBound ==
    /\ pc \in {"tool_policy", "approval_interrupt", "sandbox_runner", "executor"}
           => task.children = <<>> /\ call.tool = task.call.tool
    /\ pc = "plan_validator" /\ task.children = <<>> => call.tool = task.call.tool

LEMMA CallIsBoundHolds == Spec => []CallIsBound
<1>1. Init => CallIsBound
  BY DEF Init, CallIsBound
<1>2. LoopTypes /\ CallIsBound /\ [Next]_vars => CallIsBound'
  <2> SUFFICES ASSUME LoopTypes, CallIsBound, [Next]_vars PROVE CallIsBound'
    OBVIOUS
  <2> USE DEF Goto
  <2>1. CASE UNCHANGED vars
    BY <2>1 DEF vars, CallIsBound, task
  <2>2. CASE SchedulerSelects \/ SchedulerFinishes \/ Rerun \/ CommitSteps \/ MemoryAndReport
    BY <2>2 DEF SchedulerSelects, SchedulerFinishes, Rerun, CommitSteps, CommitRetry, CommitExpand,
                CommitRollback, CommitFinal, Commit, MemoryAndReport, CallIsBound
  <2>3. CASE PlannerAlreadyExpanded \/ PlannerExpands
    <3>1. pc' = IF task_tree'[current_task_id].children # <<>> THEN "plan_validator"
                ELSE "tool_selector"
      BY <2>3 DEF PlannerAlreadyExpanded, PlannerExpands, AfterPlanner
    <3>2. current_task_id' = current_task_id
      BY <2>3 DEF PlannerAlreadyExpanded, PlannerExpands, PlannerUnchanged
    <3> QED BY <3>1, <3>2 DEF CallIsBound, task
  <2>4. CASE PlannerKeepsLeaf
    <3>1. pc' = IF task_tree'[current_task_id].children # <<>> THEN "plan_validator"
                ELSE "tool_selector"
      BY <2>4 DEF PlannerKeepsLeaf, AfterPlanner
    <3>2. current_task_id' = current_task_id
      BY <2>4 DEF PlannerKeepsLeaf, PlannerUnchanged
    <3> QED BY <3>1, <3>2 DEF CallIsBound, task
  <2>5. CASE ToolSelector
    <3>1. /\ Working /\ call' = task.call /\ pc' = "plan_validator"
          /\ current_task_id' = current_task_id
          /\ StoreTask([task EXCEPT !.status = "planned"])
      BY <2>5 DEF ToolSelector, PlannerUnchanged, Working
    <3>2. task' = [task EXCEPT !.status = "planned"]
      BY <3>1 DEF task, StoreTask, Put
    <3>3. task'.call = task.call
      BY <3>1, <3>2, CurrentTask DEF Tasks
    <3> QED BY <3>1, <3>3 DEF CallIsBound
  <2>6. CASE PlanValidator
    <3>1. \/ pc' = "tool_policy" /\ UNCHANGED <<task_tree, current_task_id, call>>
             /\ task.children = <<>> /\ pc = "plan_validator"
          \/ pc' \in {"evaluator_verifier", "scheduler"}
      BY <2>6 DEF PlanValidator
    <3> QED BY <3>1 DEF CallIsBound, task
  <2>7. CASE ToolPolicy \/ ApprovalGranted \/ ApprovalDenied
    <3>1. /\ Working /\ task.children = <<>> /\ call.tool = task.call.tool
          /\ current_task_id' = current_task_id /\ pc' # "plan_validator"
      BY <2>7 DEF ToolPolicy, ApprovalGranted, ApprovalDenied, Refuse, GateUnchanged, CallIsBound,
                  Working
    <3>2. call'.tool = call.tool
      <4>1. CASE ApprovalGranted
        BY <4>1 DEF ApprovalGranted, LoopTypes, Calls
      <4>2. CASE ToolPolicy \/ ApprovalDenied
        BY <4>2 DEF ToolPolicy, ApprovalDenied, Refuse
      <4> QED BY <2>7, <4>1, <4>2
    <3>3. task'.children = task.children /\ task'.call.tool = task.call.tool
      <4>1. task_tree' = task_tree \/ Marking
        BY <2>7, WorkShape DEF WorkSteps
      <4>2. CASE task_tree' = task_tree
        BY <3>1, <4>2 DEF task
      <4>3. CASE Marking
        <5>1. PICK u \in Tasks : Marked(u)
          BY <4>3 DEF Marking
        <5>2. task' = u
          BY <3>1, <5>1, MarkedTree DEF task
        <5> QED BY <5>1, <5>2 DEF Marked
      <4> QED BY <4>1, <4>2, <4>3
    <3> QED BY <3>1, <3>2, <3>3 DEF CallIsBound
  <2>8. CASE SandboxRunner
    <3>1. /\ pc = "sandbox_runner" /\ UNCHANGED <<task_tree, current_task_id, call>>
          /\ pc' \in {"executor", "evaluator_verifier"}
      BY <2>8 DEF SandboxRunner, ExecutionUnchanged
    <3> QED BY <3>1 DEF CallIsBound, task
  <2>9. CASE Executor \/ AsyncJobWaiter \/ ExecutionMonitor \/ RecoveryPlanner \/ Evaluator
    BY <2>9 DEF Executor, AsyncJobWaiter, ExecutionMonitor, RecoveryPlanner, Evaluator, CallIsBound
  <2> QED BY <2>1, <2>2, <2>3, <2>4, <2>5, <2>6, <2>7, <2>8, <2>9 DEF Next, Node, CommitSteps
<1> QED BY <1>1, <1>2, LoopTypesHold, PTL DEF Spec

(***************************************************************************)
(* What every task's record says is backed by the rest of the state: a     *)
(* successful write is in the patch history, and scheduled checks are      *)
(* listed as subtasks.                                                     *)
(***************************************************************************)
Honest(t, history) ==
    /\ t.call.tool \in SourceWriteTools /\ t.tool_result_status = "success"
           => history # <<>>
    /\ t.verification_scheduled => t.children # <<>> /\ t.call.tool # "none"

TasksHonest == \A id \in DOMAIN task_tree : Honest(task_tree[id], patch_history)

\* The patch history is never emptied, not even by a new run.
LEMMA HistoryOnlyGrows ==
    ASSUME LoopTypes, [Next]_vars, patch_history # <<>>
    PROVE  patch_history' # <<>>
<1>1. CASE Executor
  <2>1. patch_history' = patch_history \/ \E p \in Patches : patch_history' = Append(patch_history, p)
    <3>1. Working /\ call.args \in Args
      BY <1>1 DEF Executor, Working, LoopTypes, Calls
    <3>2. \A restorable \in BOOLEAN :
              [task |-> current_task_id, path |-> call.args, restorable |-> restorable] \in Patches
      BY <3>1, CurrentTask DEF Patches
    <3> QED BY <1>1, <3>2 DEF Executor
  <2>2. patch_history \in Seq(Patches)
    BY DEF LoopTypes
  <2>3. \A p \in Patches : Append(patch_history, p) # <<>>
    BY <2>2
  <2> QED BY <2>1, <2>3
<1>2. CASE ~Executor
  <2>1. CASE UNCHANGED vars
    BY <2>1 DEF vars
  <2>2. CASE SchedulerSelects \/ SchedulerFinishes \/ MemoryAndReport \/ Rerun
    BY <2>2 DEF SchedulerSelects, SchedulerFinishes, StepBegins, MemoryAndReport, Rerun
  <2>3. CASE PlannerAlreadyExpanded \/ PlannerExpands \/ PlannerKeepsLeaf \/ ToolSelector
             \/ PlanValidator
    BY <2>3 DEF PlannerAlreadyExpanded, PlannerExpands, PlannerKeepsLeaf, ToolSelector,
                PlannerUnchanged, PlanValidator
  <2>4. CASE ToolPolicy \/ ApprovalGranted \/ ApprovalDenied
    BY <2>4 DEF ToolPolicy, ApprovalGranted, ApprovalDenied, GateUnchanged
  <2>5. CASE SandboxRunner \/ AsyncJobWaiter \/ ExecutionMonitor \/ RecoveryPlanner \/ Evaluator
    BY <2>5 DEF SandboxRunner, AsyncJobWaiter, ExecutionMonitor, RecoveryPlanner, Evaluator
  <2>6. CASE CommitSteps
    BY <2>6 DEF CommitSteps, CommitRetry, CommitExpand, CommitRollback, CommitFinal, Commit
  <2> QED BY <1>2, <2>1, <2>2, <2>3, <2>4, <2>5, <2>6 DEF Next, Node, CommitSteps
<1> QED BY <1>1, <1>2

LEMMA NewTasksAreHonest == \A t \in NewTasks : \A history : Honest(t, history)
BY DEF Honest, NewTasks

LEMMA RestatedIsHonest ==
    ASSUME NEW old, IsTree(old), NEW new, Restated(new, old), NEW history,
           \A id \in DOMAIN old : Honest(old[id], history)
    PROVE  \A id \in DOMAIN new : Honest(new[id], history)
<1> TAKE id \in DOMAIN new
<1>1. id \in DOMAIN old /\ Honest(old[id], history) /\ old[id] \in Tasks
  BY DEF Restated, IsTree
<1>2. CASE new[id] = old[id]
  BY <1>1, <1>2
<1>3. CASE new[id] = [old[id] EXCEPT !.status = new[id].status]
  <2>1. /\ new[id].call = old[id].call /\ new[id].children = old[id].children
        /\ new[id].tool_result_status = old[id].tool_result_status
        /\ new[id].verification_scheduled = old[id].verification_scheduled
    BY <1>1, <1>3 DEF Tasks
  <2> QED BY <1>1, <2>1 DEF Honest
<1> QED BY <1>1, <1>2, <1>3 DEF Restated

LEMMA StoredIsHonest ==
    ASSUME NEW old, NEW new, NEW u, NEW added \in Seq(NewTasks), Stored(new, old, u, added),
           NEW history, Honest(u, history), \A id \in DOMAIN old : Honest(old[id], history)
    PROVE  \A id \in DOMAIN new : Honest(new[id], history)
<1> TAKE id \in DOMAIN new
<1>1. CASE id \in AddedIds(added)
  <2>1. PICK i \in DOMAIN added : new[id] = added[i]
    BY <1>1 DEF Stored
  <2>2. added[i] \in NewTasks
    OBVIOUS
  <2> QED BY <2>1, <2>2, NewTasksAreHonest
<1>2. CASE id \notin AddedIds(added)
  BY <1>2 DEF Stored
<1> QED BY <1>1, <1>2

LEMMA TasksHonestHolds == Spec => []TasksHonest
<1>1. Init => TasksHonest
  BY DEF Init, TasksHonest
<1>2. LoopTypes /\ CallIsBound /\ TasksHonest /\ [Next]_vars => TasksHonest'
  <2> SUFFICES ASSUME LoopTypes, CallIsBound, TasksHonest, [Next]_vars PROVE TasksHonest'
    OBVIOUS
  <2>0. \A id \in DOMAIN task_tree : Honest(task_tree[id], patch_history')
    <3> TAKE id \in DOMAIN task_tree
    <3>1. Honest(task_tree[id], patch_history)
      BY DEF TasksHonest
    <3> QED BY <3>1, HistoryOnlyGrows DEF Honest
  <2>1. CASE UNCHANGED task_tree
    BY <2>0, <2>1 DEF TasksHonest
  <2>2. CASE SchedulerSelects \/ SchedulerFinishes
    <3>1. task_tree' = Tree
      BY <2>2 DEF SchedulerSelects, SchedulerFinishes, StepBegins
    <3>2. RootTask.call.tool = "none" /\ RootTask.verification_scheduled = FALSE
      BY DEF RootTask, NewTask, NoCall
    <3>3. Honest(RootTask, patch_history')
      BY <3>2 DEF Honest, SourceWriteTools
    <3> QED BY <2>0, <3>1, <3>3, SchedulerTree DEF TasksHonest
  <2>3. CASE PlannerExpands
    <3>1. Working /\ task.children = <<>>
      BY <2>3, ExpandShape
    <3>2. PICK u \in Tasks, added \in Seq(NewTasks) :
              /\ u.id = task.id /\ u.call = task.call
              /\ u.tool_result_status = task.tool_result_status
              /\ u.verification_scheduled = task.verification_scheduled
              /\ added # <<>> /\ u.children = Ids(added)
              /\ task_tree' = Store(task_tree, <<u>> \o added)
      BY <2>3, ExpandShape
    <3>3. Stored(task_tree', task_tree, u, added) /\ current_task_id \in DOMAIN task_tree
      BY <3>1, <3>2, ExpandedTree
    <3>4. Honest(u, patch_history')
      BY <2>0, <3>1, <3>2, <3>3 DEF Honest, task
    <3> QED BY <2>0, <3>3, <3>4, StoredIsHonest DEF TasksHonest
  <2>4. CASE WorkSteps /\ Marking
    <3>1. Working
      BY <2>4, WorkShape
    <3>2. PICK u \in Tasks : Marked(u)
      BY <2>4 DEF Marking
    <3>3. /\ DOMAIN task_tree' = DOMAIN task_tree /\ current_task_id \in DOMAIN task_tree
          /\ task_tree'[current_task_id] = u
          /\ \A id \in DOMAIN task_tree \ {current_task_id} : task_tree'[id] = task_tree[id]
      BY <3>1, <3>2, MarkedTree, CurrentTask
    <3>4. Honest(u, patch_history')
      BY <2>0, <3>2, <3>3 DEF Marked, Reported, Honest, CallIsBound, task
    <3> QED BY <2>0, <3>3, <3>4 DEF TasksHonest
  <2>5. CASE CommitSteps
    <3>1. Working /\ Committing
      BY <2>5, CommitShape
    <3>2. PICK u \in Tasks, added \in Seq(NewTasks) :
              Committed(u, added) /\ (Retried(u, added) \/ Extended(u, added) \/ Closed(u, added))
      BY <3>1 DEF Committing
    <3> DEFINE stored == Store(task_tree, <<u>> \o added)
    <3>3. /\ IsTree(stored) /\ Stored(stored, task_tree, u, added) /\ Restated(task_tree', stored)
          /\ current_task_id \in DOMAIN task_tree
      BY <3>1, <3>2, CommittedTree
    <3> HIDE DEF stored
    <3>4. Honest(u, patch_history')
      <4>1. Honest(task, patch_history')
        BY <2>0, <3>3 DEF task
      <4>2. u.call = task.call /\ u.tool_result_status = task.tool_result_status
        BY <3>2 DEF Committed
      <4>3. CASE Retried(u, added) \/ Closed(u, added)
        BY <4>1, <4>2, <4>3 DEF Retried, Closed, Honest
      <4>4. CASE Extended(u, added)
        <5>1. added # <<>> /\ u.children = Ids(added) /\ added \in Seq(Tasks)
          BY <4>4 DEF Extended, NewTasks
        <5>2. u.children # <<>>
          BY <5>1, IdsType
        <5> QED BY <4>1, <4>2, <4>4, <5>2 DEF Extended, Honest, SourceWriteTools
      <4> QED BY <3>2, <4>3, <4>4
    <3>5. \A id \in DOMAIN stored : Honest(stored[id], patch_history')
      BY <2>0, <3>3, <3>4, StoredIsHonest
    <3> QED BY <3>3, <3>5, RestatedIsHonest DEF TasksHonest
  <2>6. CASE Rerun
    BY <2>6 DEF Rerun, TasksHonest
  <2>7. CASE MemoryAndReport
    BY <2>1, <2>7 DEF MemoryAndReport
  <2>8. CASE UNCHANGED vars
    BY <2>1, <2>8 DEF vars
  <2>9. CASE WorkSteps
    BY <2>1, <2>4, <2>9, WorkShape
  <2> QED BY <2>2, <2>3, <2>5, <2>6, <2>7, <2>8, <2>9 DEF Next, Node, WorkSteps, CommitSteps
<1> QED BY <1>1, <1>2, LoopTypesHold, CallIsBoundHolds, PTL DEF Spec

\* Why a successful write gets no checks: nothing else than room can be missing.
LEMMA NoRoomForChecks ==
    ASSUME LoopTypes, CallIsBound, TasksHonest, pc = "task_committer",
           evaluation_decision = "complete", VerificationTasks = <<>>,
           task.call.tool \in SourceWriteTools, task.tool_result_status = "success",
           task.children = <<>>
    PROVE  Cardinality(DOMAIN task_tree) >= MaxTotalTasks
<1>1. Honest(task, patch_history)
  BY CurrentTask DEF TasksHonest, Working, task
<1>2. patch_history # <<>> /\ ~task.verification_scheduled
  BY <1>1 DEF Honest
<1>3. Cardinality(DOMAIN task_tree) \in Nat
  BY FS_CardinalityType DEF LoopTypes, IsTree
<1>4. ~HasRoom
  <2> SUFFICES ASSUME HasRoom PROVE FALSE
    OBVIOUS
  <2> DEFINE room == MaxTotalTasks - Cardinality(DOMAIN task_tree)
             tools == First(VerifyTools, room)
  <2>1. room \in Nat /\ room > 0
    BY <1>3, LoopConstantsAssumption DEF HasRoom
  <2> DEFINE about(t) == IF t \in {"git_diff_file", "secret_scan"}
                         THEN [tool |-> t, args |-> patch_history[Len(patch_history)].path]
                         ELSE On(t)
             new(i) == NewTask(Verify(task.id, i), <<"verify", tools[i]>>, task.id,
                               task.depth + 1, about(tools[i]))
  <2>2. VerificationTasks = [i \in DOMAIN tools |-> new(i)]
    BY <1>2 DEF VerificationTasks
  <2> HIDE DEF room, new
  <2>3. tools \in Seq(ToolNames \ {"none"}) /\ tools # <<>>
    BY <2>1, FirstElements, LoopConstantsAssumption
  <2> HIDE DEF tools
  <2>4. DOMAIN tools # {}
    <3>1. Len(tools) # 0 /\ Len(tools) \in Nat /\ DOMAIN tools = 1..Len(tools)
      BY <2>3
    <3>2. 1 \in DOMAIN tools
      BY <3>1
    <3> QED BY <3>2
  <2>5. DOMAIN VerificationTasks = DOMAIN tools
    BY <2>2
  <2> QED BY <2>4, <2>5
<1> QED BY <1>3, <1>4, LoopConstantsAssumption DEF HasRoom

LEMMA BiggerTree ==
    ASSUME IsFiniteSet(DOMAIN task_tree'), DOMAIN task_tree \subseteq DOMAIN task_tree',
           Cardinality(DOMAIN task_tree) >= MaxTotalTasks
    PROVE  Cardinality(DOMAIN task_tree') >= MaxTotalTasks
<1>1. /\ Cardinality(DOMAIN task_tree) <= Cardinality(DOMAIN task_tree')
      /\ Cardinality(DOMAIN task_tree) \in Nat /\ Cardinality(DOMAIN task_tree') \in Nat
  BY FS_Subset, FS_CardinalityType
<1> QED BY <1>1, LoopConstantsAssumption

Unchecked(t) ==
    t.call.tool \in SourceWriteTools /\ t.tool_result_status = "success" /\ t.status = "done"

\* The committer calls a successful write done without any check of it only
\* when _verification_tasks_for_write found the tree full.
THEOREM UncheckedWritesOnlyWhenFull == Spec => []UncheckedOnlyWhenFull
<1> USE DEF Unchecked
<1>1. Init => UncheckedOnlyWhenFull
  BY DEF Init, UncheckedOnlyWhenFull, Leaves
<1>2. LoopTypes /\ LoopTypes' /\ CallIsBound /\ TasksHonest /\ UncheckedOnlyWhenFull /\ [Next]_vars
          => UncheckedOnlyWhenFull'
  <2> SUFFICES ASSUME LoopTypes, LoopTypes', CallIsBound, TasksHonest, UncheckedOnlyWhenFull,
                      [Next]_vars, NEW id \in DOMAIN task_tree', task_tree'[id].children = <<>>,
                      Unchecked(task_tree'[id])
               PROVE  Cardinality(DOMAIN task_tree') >= MaxTotalTasks
    BY DEF UncheckedOnlyWhenFull, Leaves
  <2>0. ASSUME id \in DOMAIN task_tree, task_tree'[id] = task_tree[id],
               DOMAIN task_tree \subseteq DOMAIN task_tree'
        PROVE  Cardinality(DOMAIN task_tree') >= MaxTotalTasks
    <3>1. Cardinality(DOMAIN task_tree) >= MaxTotalTasks
      BY <2>0 DEF UncheckedOnlyWhenFull, Leaves
    <3> QED BY <2>0, <3>1, BiggerTree DEF LoopTypes, IsTree
  <2>1. CASE UNCHANGED task_tree
    BY <2>0, <2>1
  <2>2. CASE SchedulerSelects \/ SchedulerFinishes
    <3>1. task_tree' = Tree
      BY <2>2 DEF SchedulerSelects, SchedulerFinishes, StepBegins
    <3>2. RootTask.status = "pending"
      BY DEF RootTask, NewTask
    <3> QED BY <2>0, <3>1, <3>2, SchedulerTree
  <2>3. ASSUME NEW u \in Tasks, NEW added \in Seq(NewTasks), Origin(id, u, added),
               DOMAIN task_tree \subseteq DOMAIN task_tree'
        PROVE  \/ Cardinality(DOMAIN task_tree') >= MaxTotalTasks
               \/ task_tree'[id] = u
    <3>1. CASE id \in AddedIds(added)
      BY <2>3, <3>1 DEF Origin, NewTasks
    <3>2. CASE id \notin AddedIds(added)
      BY <2>0, <2>3, <3>2 DEF Origin
    <3> QED BY <3>1, <3>2
  <2>4. CASE PlannerExpands
    <3>1. Working
      BY <2>4, ExpandShape
    <3>2. PICK u \in Tasks, added \in Seq(NewTasks) :
              /\ u.id = task.id /\ u.status = "expanded"
              /\ task_tree' = Store(task_tree, <<u>> \o added)
      BY <2>4, ExpandShape
    <3>3. Origin(id, u, added)
      BY <3>1, <3>2, ExpandedOrigin
    <3>4. DOMAIN task_tree \subseteq DOMAIN task_tree'
      BY <3>1, <3>2, ExpandedTree DEF Stored
    <3> QED BY <2>3, <3>2, <3>3, <3>4
  <2>5. CASE WorkSteps /\ Marking
    <3>1. Working
      BY <2>5, WorkShape
    <3>2. PICK u \in Tasks : Marked(u)
      BY <2>5 DEF Marking
    <3>3. /\ DOMAIN task_tree' = DOMAIN task_tree
          /\ task_tree'[id] = u \/ task_tree'[id] = task_tree[id]
      BY <3>1, <3>2, MarkedTree
    <3>4. u.status # "done"
      BY <3>2 DEF Marked, MarkStatus
    <3> QED BY <2>0, <3>3, <3>4
  <2>6. CASE CommitSteps
    <3>1. Working /\ Committing /\ pc = "task_committer"
      BY <2>6, CommitShape
    <3>2. PICK u \in Tasks, added \in Seq(NewTasks) :
              Committed(u, added) /\ (Retried(u, added) \/ Extended(u, added) \/ Closed(u, added))
      BY <3>1 DEF Committing
    <3>3. Origin(id, u, added)
      BY <3>1, <3>2, CommittedOrigin
    <3>4. DOMAIN task_tree \subseteq DOMAIN task_tree'
      BY <3>1, <3>2, CommittedTree DEF Stored, Restated
    <3>5. ASSUME task_tree'[id] = u
          PROVE  Cardinality(DOMAIN task_tree') >= MaxTotalTasks
      <4>1. Closed(u, added)
        BY <3>2, <3>5 DEF Retried, Extended
      <4>2. /\ evaluation_decision = "complete" /\ VerificationTasks = <<>>
            /\ task.call.tool \in SourceWriteTools /\ task.tool_result_status = "success"
            /\ task.children = <<>>
        BY <3>2, <3>5, <4>1 DEF Closed, Committed
      <4>3. Cardinality(DOMAIN task_tree) >= MaxTotalTasks
        BY <3>1, <4>2, NoRoomForChecks
      <4> QED BY <3>4, <4>3, BiggerTree DEF LoopTypes, IsTree
    <3> QED BY <2>3, <3>3, <3>4, <3>5
  <2>7. CASE Rerun
    BY <2>7 DEF Rerun
  <2>8. CASE MemoryAndReport \/ UNCHANGED vars
    BY <2>1, <2>8 DEF MemoryAndReport, vars
  <2>9. CASE WorkSteps
    BY <2>1, <2>5, <2>9, WorkShape
  <2> QED BY <2>2, <2>4, <2>6, <2>7, <2>8, <2>9 DEF Next, Node, WorkSteps, CommitSteps
<1> QED BY <1>1, <1>2, LoopTypesHold, CallIsBoundHolds, TasksHonestHolds, PTL DEF Spec

(***************************************************************************)
(* Families.  A task with a call of its own has only subtasks it made      *)
(* itself, under ids nobody else gives; once it is done they are, and a    *)
(* task about to be worked on, or at work, has none.  So no later step     *)
(* takes back the verdict of a subtask.                                    *)
(***************************************************************************)
Kin(id, k)     == \E s \in Segment : s.kind \in {"child", "verify"} /\ k = Append(id, s)
Kids(tree, id) == ToSet(tree[id].children)

Family(id) ==
    /\ \A k \in Kids(task_tree, id) :
          /\ k \in DOMAIN task_tree /\ task_tree[k].call.tool # "none" /\ Kin(id, k)
          /\ task_tree[id].status = "done" => task_tree[k].status = "done"
    /\ task_tree[id].status = "pending" \/ (Working /\ id = current_task_id) =>
           task_tree[id].children = <<>> /\ task_tree[id].status # "done"

Families ==
    /\ \A id \in DOMAIN task_tree : task_tree[id].call.tool # "none" => Family(id)
    \* A task still to be expanded is alone.
    /\ \A id \in DOMAIN task_tree :
          task_tree[id].call.tool = "none" /\ task_tree[id].children = <<>> =>
              DOMAIN task_tree = {id}

\* An id has one parent id.
LEMMA AppendIsInjective ==
    ASSUME NEW p \in TaskIds, NEW q \in TaskIds, NEW s \in Segment, NEW r \in Segment,
           Append(p, s) = Append(q, r)
    PROVE  p = q /\ s = r
<1> HIDE DEF Segment
<1>1. /\ Len(Append(p, s)) = Len(p) + 1 /\ Len(Append(q, r)) = Len(q) + 1
      /\ Len(p) \in Nat /\ Len(q) \in Nat
      /\ \A i \in 1..Len(p) : Append(p, s)[i] = p[i]
      /\ \A i \in 1..Len(q) : Append(q, r)[i] = q[i]
      /\ Append(p, s)[Len(p) + 1] = s /\ Append(q, r)[Len(q) + 1] = r
  BY DEF TaskIds
<1>2. Len(p) = Len(q)
  BY <1>1
<1>3. \A a, b \in Seq(Segment) : Len(a) = Len(b) /\ (\A i \in 1..Len(a) : a[i] = b[i]) => a = b
  OBVIOUS
<1>4. p = q
  BY <1>1, <1>2, <1>3 DEF TaskIds
<1> QED BY <1>1, <1>2, <1>4

LEMMA NoKids ==
    ASSUME NEW tree, NEW id, tree[id].children = <<>>
    PROVE  Kids(tree, id) = {}
BY DEF Kids, ToSet

\* A parent is re-evaluated to done exactly when its listed subtasks are.
LEMMA ParentIsDone ==
    ASSUME NEW tree, NEW kids
    PROVE  ParentStatus(tree, kids) = "done" <=>
               \A k \in ToSet(kids) : k \in DOMAIN tree => tree[k].status = "done"
<1> DEFINE with(S) == {i \in DOMAIN kids : kids[i] \in DOMAIN tree /\ tree[kids[i]].status \in S}
           all    == {i \in DOMAIN kids : kids[i] \in DOMAIN tree}
           done   == with({"done"})
           failed == with({"failed", "blocked"})
<1>1. (\A k \in ToSet(kids) : k \in DOMAIN tree => tree[k].status = "done") <=> all = done
  BY DEF ToSet
<1>2. done \cap failed = {} /\ failed \subseteq all
  OBVIOUS
<1>3. ParentStatus(tree, kids) =
          CASE all # done \cup failed -> "partial"
            [] all = done \cup failed /\ failed # {} /\ done # {} -> "needs_more"
            [] all = done \cup failed /\ failed # {} /\ done = {} -> "failed"
            [] OTHER -> "done"
  BY DEF ParentStatus
<1> HIDE DEF all, done, failed
<1>4. ParentStatus(tree, kids) = "done" <=> all = done \cup failed /\ failed = {}
  BY <1>3
<1>5. all = done \cup failed /\ failed = {} <=> all = done
  BY <1>2
<1> QED BY <1>1, <1>4, <1>5

\* Re-evaluation changes the parent only.
LEMMA Evaluated ==
    ASSUME NEW tree, IsTree(tree), NEW p, NEW id \in DOMAIN tree
    PROVE  \/ EvaluateParent(tree, p)[id] = tree[id]
           \/ /\ id = p
              /\ EvaluateParent(tree, p)[id].status = ParentStatus(tree, tree[id].children)
<1>1. CASE EvaluateParent(tree, p) = tree
  BY <1>1
<1>2. CASE EvaluateParent(tree, p) # tree
  <2> DEFINE s == ParentStatus(tree, tree[p].children)
  <2>1. p \in DOMAIN tree /\ EvaluateParent(tree, p) = [tree EXCEPT ![p].status = s]
    BY <1>2 DEF EvaluateParent
  <2> HIDE DEF s
  <2>2. CASE id = p
    <3>1. tree[p] \in Tasks
      BY <2>1 DEF IsTree
    <3>2. EvaluateParent(tree, p)[p] = [tree[p] EXCEPT !.status = s]
      BY <2>1 DEF IsTree
    <3>3. EvaluateParent(tree, p)[p].status = s
      BY <3>1, <3>2 DEF Tasks
    <3> QED BY <2>2, <3>3 DEF s
  <2>3. CASE id # p
    BY <2>1, <2>3 DEF IsTree
  <2> QED BY <2>2, <2>3
<1> QED BY <1>1, <1>2

LEMMA FirstOfNonempty ==
    ASSUME NEW T, NEW s \in Seq(T), s # <<>>
    PROVE  1 \in DOMAIN s
<1>1. Len(s) # 0 /\ Len(s) \in Nat /\ DOMAIN s = 1..Len(s)
  OBVIOUS
<1> QED BY <1>1

LEMMA RestatedFields ==
    ASSUME NEW old, IsTree(old), NEW new, Restated(new, old), NEW id \in DOMAIN old
    PROVE  /\ new[id].children = old[id].children /\ new[id].call = old[id].call
           /\ new[id].verification_scheduled = old[id].verification_scheduled
           /\ old[id].children = <<>> => new[id] = old[id]
<1>1. old[id] \in Tasks
  BY DEF IsTree
<1>2. new[id] = old[id] \/ new[id] = [old[id] EXCEPT !.status = new[id].status]
  BY DEF Restated
<1>3. CASE new[id] = [old[id] EXCEPT !.status = new[id].status]
  <2>1. /\ new[id].children = old[id].children /\ new[id].call = old[id].call
        /\ new[id].verification_scheduled = old[id].verification_scheduled
    BY <1>1, <1>3 DEF Tasks
  <2>2. old[id].children = <<>> => new[id] = old[id]
    BY DEF Restated
  <2> QED BY <2>1, <2>2
<1> QED BY <1>2, <1>3

\* Whatever is stored next to the current task takes no id from another
\* task's subtasks.
LEMMA AddedIsNoStrangersKid ==
    ASSUME NEW cur \in TaskIds, NEW added \in Seq(NewTasks),
           \/ added \in Seq(Under(cur))
           \/ \A i \in DOMAIN added : IsRollback(added[i]),
           NEW id \in TaskIds, id # cur, NEW k, Kin(id, k)
    PROVE  k \notin AddedIds(added)
<1> SUFFICES ASSUME k \in AddedIds(added) PROVE FALSE
  OBVIOUS
<1>1. PICK i \in DOMAIN added : added[i].id = k
  BY DEF AddedIds
<1>2. PICK s \in Segment : s.kind \in {"child", "verify"} /\ k = Append(id, s)
  BY DEF Kin
<1>3. CASE added \in Seq(Under(cur))
  <2>1. added[i] \in Under(cur)
    BY <1>3
  <2>2. PICK r \in Segment : k = Append(cur, r)
    BY <1>1, <2>1 DEF Under
  <2> QED BY <1>2, <2>2, AppendIsInjective
<1>4. CASE IsRollback(added[i])
  <2>1. PICK owner \in TaskIds, r \in Segment : r.kind = "rollback" /\ k = Append(owner, r)
    BY <1>1, <1>4 DEF IsRollback
  <2>2. Append(id, s) = Append(owner, r)
    BY <1>2, <2>1
  <2>3. s = r
    BY <2>2, AppendIsInjective
  <2> QED BY <1>2, <2>1, <2>3
<1> QED BY <1>3, <1>4

\* A commit: task_tree, then stored, then task_tree'.
LEMMA CommittedFamilies ==
    ASSUME LoopTypes, Families, Working, ~Working', NEW u \in Tasks, NEW added \in Seq(NewTasks),
           Committed(u, added), Retried(u, added) \/ Extended(u, added) \/ Closed(u, added)
    PROVE  Families'
<1> DEFINE stored == Store(task_tree, <<u>> \o added)
           cur == current_task_id
<1>1. /\ IsTree(stored) /\ Stored(stored, task_tree, u, added)
      /\ IsTree(task_tree') /\ Restated(task_tree', stored)
      /\ u.id = cur /\ cur \in DOMAIN task_tree /\ IsTree(task_tree)
  BY CommittedTree DEF LoopTypes
<1>2. task_tree' = EvaluateParent(stored, task.parent)
  BY DEF Committed
<1>3. /\ cur \in TaskIds /\ task.id = cur /\ task = task_tree[cur]
      /\ \A id \in DOMAIN task_tree : id \in TaskIds
  BY CurrentTask DEF IsTree, LoopTypes, Tasks, task
<1> HIDE DEF stored, cur
<1>4. u.call = task.call
  BY DEF Committed
<1>5. task.call.tool # "none" => task.children = <<>> /\ task.status # "done"
  BY <1>1, <1>3 DEF Families, Family, cur
<1>6. DOMAIN stored = DOMAIN task_tree \cup AddedIds(added) /\ DOMAIN task_tree' = DOMAIN stored
  BY <1>1 DEF Stored, Restated
<1>7. \A id \in AddedIds(added) : stored[id] \in NewTasks /\ task_tree'[id] = stored[id]
                                  /\ task_tree'[id] \in NewTasks
  <2> TAKE id \in AddedIds(added)
  <2>1. PICK i \in DOMAIN added : stored[id] = added[i]
    BY <1>1, <1>6 DEF Stored
  <2>2. added[i] \in NewTasks
    OBVIOUS
  <2>3. id \in DOMAIN stored /\ stored[id].children = <<>>
    BY <1>6, <2>1, <2>2 DEF NewTasks
  <2>4. task_tree'[id] = stored[id]
    BY <1>1, <2>3, RestatedFields
  <2> QED BY <2>1, <2>2, <2>4
<1>8. \A id \in DOMAIN task_tree \ AddedIds(added) :
          stored[id] = IF id = cur THEN u ELSE task_tree[id]
  BY <1>1, <1>6 DEF Stored
<1>9. \A id \in DOMAIN stored : /\ task_tree'[id].children = stored[id].children
                                /\ task_tree'[id].call = stored[id].call
                                /\ Kids(task_tree', id) = Kids(stored, id)
                                /\ stored[id].children = <<>> => task_tree'[id] = stored[id]
  BY <1>1, RestatedFields DEF Kids
<1>10. \A id \in DOMAIN stored :
           \/ task_tree'[id] = stored[id]
           \/ /\ task_tree'[id].status # "pending"
              /\ task_tree'[id].status = "done" =>
                     \A k \in Kids(stored, id) : k \in DOMAIN stored => stored[k].status = "done"
  <2> TAKE id \in DOMAIN stored
  <2>1. \/ task_tree'[id] = stored[id]
        \/ task_tree'[id].status = ParentStatus(stored, stored[id].children)
    BY <1>1, <1>2, Evaluated
  <2> QED BY <2>1, ParentIsDone, ParentStatusType DEF Kids
\* The subtasks of any other task with a call stay what they are.
<1>11. ASSUME NEW id \in DOMAIN task_tree, id # cur, task_tree[id].call.tool # "none",
              NEW k \in Kids(task_tree, id)
       PROVE  /\ k \in DOMAIN task_tree /\ k \notin AddedIds(added)
              /\ task_tree[k].call.tool # "none" /\ Kin(id, k)
              /\ task_tree[id].status = "done" => task_tree[k].status = "done"
  <2>1. /\ k \in DOMAIN task_tree /\ task_tree[k].call.tool # "none" /\ Kin(id, k)
        /\ task_tree[id].status = "done" => task_tree[k].status = "done"
    BY <1>11 DEF Families, Family
  <2>2. \/ added \in Seq(Under(cur))
        \/ \A i \in DOMAIN added : IsRollback(added[i])
    BY <1>3 DEF Retried, Extended, Closed
  <2>3. id \in TaskIds
    BY <1>3
  <2> QED BY <1>3, <1>11, <2>1, <2>2, <2>3, AddedIsNoStrangersKid
<1>12. ASSUME NEW id \in DOMAIN task_tree, id \notin AddedIds(added),
              task_tree[id].call.tool # "none", task_tree[id].status = "done"
       PROVE  id # cur /\ stored[id] = task_tree[id] /\ task_tree'[id].status = "done"
  <2>1. id # cur
    BY <1>3, <1>5, <1>12
  <2>2. stored[id] = task_tree[id]
    BY <1>8, <1>12, <2>1
  <2>3. CASE task_tree'[id] = stored[id]
    BY <1>12, <2>1, <2>2, <2>3
  <2>4. CASE task_tree'[id].status = ParentStatus(stored, stored[id].children)
    <3>1. ASSUME NEW k \in Kids(stored, id) PROVE stored[k].status = "done"
      <4>1. k \in Kids(task_tree, id)
        BY <2>2, <3>1 DEF Kids
      <4>2. /\ k \in DOMAIN task_tree /\ k \notin AddedIds(added)
            /\ task_tree[k].call.tool # "none" /\ task_tree[k].status = "done"
        BY <1>11, <1>12, <2>1, <4>1
      <4>3. k # cur
        BY <1>3, <1>5, <4>2
      <4> QED BY <1>8, <4>2, <4>3
    <3>2. ParentStatus(stored, stored[id].children) = "done"
      BY <3>1, ParentIsDone DEF Kids
    <3> QED BY <2>1, <2>2, <2>4, <3>2
  <2>5. id \in DOMAIN stored
    BY <1>6
  <2> QED BY <1>1, <1>2, <2>3, <2>4, <2>5, Evaluated
<1>13. ASSUME NEW id \in DOMAIN task_tree', task_tree'[id].call.tool # "none"
       PROVE  Family(id)'
  <2>1. id \in DOMAIN stored
    BY <1>6
  <2>2. SUFFICES /\ \A k \in Kids(task_tree', id) :
                       /\ k \in DOMAIN task_tree' /\ task_tree'[k].call.tool # "none" /\ Kin(id, k)
                       /\ task_tree'[id].status = "done" => task_tree'[k].status = "done"
                 /\ task_tree'[id].status = "pending" => task_tree'[id].children = <<>>
    BY DEF Family, Kids
  <2>3. CASE id \in AddedIds(added)
    <3>1. task_tree'[id].children = <<>>
      BY <1>7, <2>3 DEF NewTasks
    <3> QED BY <3>1, NoKids
  <2>4. CASE id \notin AddedIds(added) /\ id = cur
    <3>1. stored[id] = u
      BY <1>1, <1>8, <2>4
    <3>2. u.call.tool # "none"
      BY <1>9, <1>13, <2>1, <3>1
    <3>3. CASE Retried(u, added) \/ Closed(u, added)
      <4>1. task_tree'[id].children = <<>>
        BY <1>4, <1>5, <1>9, <2>1, <3>1, <3>2, <3>3 DEF Retried, Closed
      <4> QED BY <4>1, NoKids
    <3>4. CASE Extended(u, added)
      <4>1. added \in Seq(Tasks)
        BY DEF NewTasks
      <4>2. Kids(task_tree', id) = AddedIds(added)
        BY <1>9, <2>1, <3>1, <3>4, <4>1, IdsType DEF Extended, Kids
      <4>3. ASSUME NEW k \in AddedIds(added) PROVE Kin(id, k)
        <5>1. PICK i \in DOMAIN added : added[i].id = k
          BY DEF AddedIds
        <5>2. added[i] \in Under(task.id)
          BY <3>4 DEF Extended
        <5> QED BY <1>3, <2>4, <5>1, <5>2 DEF Under, Kin
      <4>4. \A k \in AddedIds(added) : /\ k \in DOMAIN task_tree' /\ k \in DOMAIN stored
                                       /\ task_tree'[k].call.tool # "none"
                                       /\ stored[k].status = "pending"
        BY <1>6, <1>7 DEF NewTasks
      <4>5. AddedIds(added) # {}
        <5>1. added # <<>>
          BY <3>4 DEF Extended
        <5>2. 1 \in DOMAIN added
          BY <5>1, FirstOfNonempty
        <5> QED BY <5>2 DEF AddedIds
      <4>6. task_tree'[id].status \notin {"pending", "done"}
        <5>1. stored[id].status \notin {"pending", "done"}
          BY <3>1, <3>4 DEF Extended
        <5>2. Kids(stored, id) = AddedIds(added)
          BY <1>9, <2>1, <4>2
        <5> QED BY <1>10, <2>1, <4>4, <4>5, <5>1, <5>2
      <4> QED BY <4>2, <4>3, <4>4, <4>6
    <3> QED BY <3>3, <3>4
  <2>5. CASE id \notin AddedIds(added) /\ id # cur
    <3>1. id \in DOMAIN task_tree /\ stored[id] = task_tree[id]
      BY <1>6, <1>8, <2>1, <2>5
    <3>2. task_tree[id].call.tool # "none" /\ Kids(task_tree', id) = Kids(task_tree, id)
          /\ Kids(stored, id) = Kids(task_tree, id)
      BY <1>9, <1>13, <2>1, <3>1 DEF Kids
    <3>3. ASSUME NEW k \in Kids(task_tree, id)
          PROVE  /\ k \in DOMAIN task_tree' /\ task_tree'[k].call.tool # "none" /\ Kin(id, k)
                 /\ task_tree'[id].status = "done" => task_tree'[k].status = "done"
      <4>1. /\ k \in DOMAIN task_tree /\ k \notin AddedIds(added)
            /\ task_tree[k].call.tool # "none" /\ Kin(id, k)
            /\ task_tree[id].status = "done" => task_tree[k].status = "done"
        BY <1>11, <2>5, <3>1, <3>2
      <4>2. k \in DOMAIN stored /\ stored[k].call.tool # "none"
        BY <1>3, <1>4, <1>6, <1>8, <4>1
      <4>3. task_tree'[k].call.tool # "none"
        BY <1>9, <4>2
      <4>4. ASSUME task_tree'[id].status = "done" PROVE task_tree'[k].status = "done"
        <5>1. CASE task_tree'[id] = stored[id]
          <6>1. task_tree[k].status = "done"
            BY <3>1, <4>1, <4>4, <5>1
          <6> QED BY <1>12, <4>1, <6>1
        <5>2. CASE task_tree'[id] # stored[id]
          <6>1. stored[k].status = "done"
            BY <1>10, <2>1, <3>2, <4>2, <4>4, <5>2
          <6>2. id = task.parent
            BY <1>1, <1>2, <2>1, <5>2, Evaluated
          <6>3. task_tree'[k] = stored[k] \/ k = id
            BY <1>1, <1>2, <4>2, <6>2, Evaluated
          <6> QED BY <4>4, <6>1, <6>3
        <5> QED BY <5>1, <5>2
      <4> QED BY <1>6, <4>1, <4>2, <4>3, <4>4
    <3>4. ASSUME task_tree'[id].status = "pending" PROVE task_tree'[id].children = <<>>
      <4>1. task_tree'[id] = task_tree[id]
        BY <1>10, <2>1, <3>1, <3>4
      <4> QED BY <3>1, <3>2, <3>4, <4>1 DEF Families, Family
    <3> QED BY <3>2, <3>3, <3>4
  <2> QED BY <2>3, <2>4, <2>5
<1>14. ASSUME NEW id \in DOMAIN task_tree', task_tree'[id].call.tool = "none",
              task_tree'[id].children = <<>>
       PROVE  DOMAIN task_tree' = {id}
  <2>1. id \in DOMAIN stored /\ id \notin AddedIds(added) /\ id \in DOMAIN task_tree
    BY <1>6, <1>7, <1>14 DEF NewTasks
  <2>2. stored[id].call.tool = "none" /\ stored[id].children = <<>>
    BY <1>9, <1>14, <2>1
  <2>3. id = cur
    <3> SUFFICES ASSUME id # cur PROVE FALSE
      OBVIOUS
    <3>1. stored[id] = task_tree[id]
      BY <1>8, <2>1
    <3>2. DOMAIN task_tree = {id}
      BY <2>1, <2>2, <3>1 DEF Families
    <3> QED BY <1>1, <3>2
  <2>4. u.children = <<>> /\ task.call.tool = "none"
    BY <1>4, <1>8, <2>1, <2>2, <2>3
  <2>5. ~Extended(u, added)
    <3>1. added # <<>> => Ids(added) # <<>>
      BY IdsType DEF NewTasks
    <3> QED BY <2>4, <3>1 DEF Extended
  <2>6. task.children = <<>> /\ added = <<>>
    BY <2>4, <2>5 DEF Retried, Closed
  <2>7. AddedIds(added) = {}
    BY <2>6 DEF AddedIds
  <2>8. DOMAIN task_tree = {id}
    BY <1>1, <1>3, <2>3, <2>4, <2>6 DEF Families
  <2> QED BY <1>6, <2>7, <2>8
<1> QED BY <1>13, <1>14 DEF Families

\* A node at work changes no family: the current task is nobody's done subtask.
LEMMA MarkedFamilies ==
    ASSUME LoopTypes, Families, Working, NEW u \in Tasks, Marked(u),
           Working' => current_task_id' = current_task_id
    PROVE  Families'
<1> DEFINE cur == current_task_id
<1>1. /\ DOMAIN task_tree' = DOMAIN task_tree /\ cur \in DOMAIN task_tree
      /\ task_tree'[cur] = u /\ task = task_tree[cur]
      /\ \A id \in DOMAIN task_tree \ {cur} : task_tree'[id] = task_tree[id]
  BY MarkedTree, CurrentTask DEF task
<1>2. /\ u.children = task.children /\ u.call.tool = task.call.tool
      /\ u.status \notin {"pending", "done"}
  BY DEF Marked, MarkStatus
<1> HIDE DEF cur
<1>3. \A id \in DOMAIN task_tree : /\ task_tree'[id].children = task_tree[id].children
                                   /\ task_tree'[id].call.tool = task_tree[id].call.tool
                                   /\ Kids(task_tree', id) = Kids(task_tree, id)
  BY <1>1, <1>2 DEF Kids
<1>4. ASSUME NEW id \in DOMAIN task_tree', task_tree'[id].call.tool # "none"
      PROVE  Family(id)'
  <2>1. Family(id) /\ id \in DOMAIN task_tree
    BY <1>1, <1>3, <1>4 DEF Families
  <2>2. SUFFICES /\ \A k \in Kids(task_tree', id) :
                       /\ k \in DOMAIN task_tree' /\ task_tree'[k].call.tool # "none" /\ Kin(id, k)
                       /\ task_tree'[id].status = "done" => task_tree'[k].status = "done"
                 /\ task_tree'[id].status = "pending" \/ (Working' /\ id = current_task_id') =>
                       task_tree'[id].children = <<>> /\ task_tree'[id].status # "done"
    BY DEF Family, Kids
  <2>3. CASE id = cur
    <3>1. task_tree[id].children = <<>>
      BY <2>1, <2>3 DEF Family, cur
    <3> QED BY <1>1, <1>2, <2>3, <3>1, NoKids
  <2>4. CASE id # cur
    <3>1. task_tree'[id] = task_tree[id] /\ ~(Working' /\ id = current_task_id')
      BY <1>1, <2>1, <2>4 DEF cur
    <3>2. ASSUME NEW k \in Kids(task_tree, id)
          PROVE  /\ k \in DOMAIN task_tree' /\ task_tree'[k].call.tool # "none" /\ Kin(id, k)
                 /\ task_tree'[id].status = "done" => task_tree'[k].status = "done"
      <4>1. /\ k \in DOMAIN task_tree /\ task_tree[k].call.tool # "none" /\ Kin(id, k)
            /\ task_tree[id].status = "done" => task_tree[k].status = "done"
        BY <2>1, <3>2 DEF Family
      <4>2. task_tree[k].status = "done" => k # cur
        BY <4>1 DEF Families, Family, cur
      <4> QED BY <1>1, <1>3, <3>1, <4>1, <4>2
    <3> QED BY <1>3, <2>1, <3>1, <3>2 DEF Family
  <2> QED BY <2>3, <2>4
<1>5. ASSUME NEW id \in DOMAIN task_tree', task_tree'[id].call.tool = "none",
             task_tree'[id].children = <<>>
      PROVE  DOMAIN task_tree' = {id}
  BY <1>1, <1>3, <1>5 DEF Families
<1> QED BY <1>4, <1>5 DEF Families

\* The planner expands the only task of the tree.
LEMMA ExpandedFamilies ==
    ASSUME LoopTypes, Families, PlannerExpands
    PROVE  Families'
<1>1. Working /\ current_task_id' = current_task_id /\ task.children = <<>>
      /\ task.call.tool = "none"
  BY ExpandShape
<1>2. PICK u \in Tasks, added \in Seq(NewTasks) :
          /\ u.id = task.id /\ u.call = task.call
          /\ added # <<>> /\ u.children = Ids(added)
          /\ task_tree' = Store(task_tree, <<u>> \o added)
  BY ExpandShape
<1>3. Stored(task_tree', task_tree, u, added) /\ current_task_id \in DOMAIN task_tree
      /\ u.id = current_task_id
  BY <1>1, <1>2, ExpandedTree
<1>4. DOMAIN task_tree = {current_task_id}
  BY <1>1, <1>3 DEF Families, task
<1>5. \A id \in DOMAIN task_tree' :
          \/ id \in AddedIds(added) /\ task_tree'[id] \in NewTasks
          \/ task_tree'[id] = u
  <2> TAKE id \in DOMAIN task_tree'
  <2>1. CASE id \in AddedIds(added)
    <3>1. PICK i \in DOMAIN added : task_tree'[id] = added[i]
      BY <1>3, <2>1 DEF Stored
    <3>2. added[i] \in NewTasks
      OBVIOUS
    <3> QED BY <2>1, <3>1, <3>2
  <2>2. CASE id \notin AddedIds(added)
    <3>1. id = current_task_id
      BY <1>3, <1>4, <2>2 DEF Stored
    <3> QED BY <1>3, <2>2, <3>1 DEF Stored
  <2> QED BY <2>1, <2>2
<1>6. u.children # <<>> /\ u.call.tool = "none"
  <2>1. added \in Seq(Tasks)
    BY DEF NewTasks
  <2> QED BY <1>1, <1>2, <2>1, IdsType
<1>7. ASSUME NEW id \in DOMAIN task_tree', task_tree'[id].call.tool # "none"
      PROVE  Family(id)'
  <2>1. task_tree'[id] \in NewTasks
    BY <1>5, <1>6, <1>7
  <2>2. task_tree'[id].children = <<>> /\ task_tree'[id].status = "pending"
    BY <2>1 DEF NewTasks
  <2>3. Kids(task_tree', id) = {}
    BY <2>2, NoKids
  <2> QED BY <2>2, <2>3 DEF Family, Kids
<1>8. \A id \in DOMAIN task_tree' :
          ~(task_tree'[id].call.tool = "none" /\ task_tree'[id].children = <<>>)
  BY <1>5, <1>6 DEF NewTasks
<1> QED BY <1>7, <1>8 DEF Families

LEMMA FamiliesHold == Spec => []Families
<1>1. Init => Families
  BY DEF Init, Families
<1>2. LoopTypes /\ LoopTypes' /\ Families /\ [Next]_vars => Families'
  <2> SUFFICES ASSUME LoopTypes, LoopTypes', Families, [Next]_vars PROVE Families'
    OBVIOUS
  <2>0. ASSUME UNCHANGED task_tree, Working' => Working /\ current_task_id' = current_task_id
        PROVE  Families'
    BY <2>0 DEF Families, Family, Kids
  <2>1. CASE UNCHANGED vars
    <3>1. UNCHANGED task_tree /\ (Working' => Working /\ current_task_id' = current_task_id)
      BY <2>1 DEF vars, Working
    <3> QED BY <2>0, <3>1
  <2>2. CASE SchedulerSelects \/ SchedulerFinishes
    <3>1. task_tree' = Tree /\ pc = "scheduler"
      BY <2>2 DEF SchedulerSelects, SchedulerFinishes, StepBegins
    <3>2. Working' => current_task_id' \in DOMAIN Tree /\ Tree[current_task_id'].status = "pending"
      <4>1. SchedulerFinishes => ~Working'
        BY DEF SchedulerFinishes, Goto, Working
      <4> QED BY <2>2, <4>1, SchedulerTakes
    <3>3. CASE DOMAIN task_tree = {}
      <4>1. DOMAIN task_tree' = {Root} /\ task_tree'[Root] = RootTask
        BY <3>1, <3>3, SchedulerTree
      <4>2. RootTask.call.tool = "none"
        BY DEF RootTask, NewTask, NoCall
      <4> QED BY <4>1, <4>2 DEF Families
    <3>4. CASE DOMAIN task_tree # {}
      <4>1. task_tree' = task_tree
        BY <3>1, <3>4, SchedulerTree
      <4>2. Working' => current_task_id' \in DOMAIN task_tree
                        /\ task_tree[current_task_id'].status = "pending"
        BY <3>1, <3>2, <4>1
      <4> QED BY <4>1, <4>2 DEF Families, Family, Kids
    <3> QED BY <3>3, <3>4
  <2>3. CASE PlannerExpands
    BY <2>3, ExpandedFamilies
  <2>4. CASE WorkSteps
    <3>1. Working /\ (Working' => current_task_id' = current_task_id)
          /\ (task_tree' = task_tree \/ Marking)
      BY <2>4, WorkShape DEF Working
    <3> QED BY <2>0, <3>1, MarkedFamilies DEF Marking
  <2>5. CASE CommitSteps
    <3>1. Working /\ ~Working' /\ Committing
      BY <2>5, CommitShape DEF Working
    <3> QED BY <3>1, CommittedFamilies DEF Committing
  <2>6. CASE MemoryAndReport
    <3>1. UNCHANGED task_tree /\ ~Working'
      BY <2>6 DEF MemoryAndReport, Goto, Working
    <3> QED BY <2>0, <3>1
  <2>7. CASE Rerun
    BY <2>7 DEF Rerun, Families
  <2> QED BY <2>1, <2>2, <2>3, <2>4, <2>5, <2>6, <2>7 DEF Next, Node, WorkSteps, CommitSteps
<1> QED BY <1>1, <1>2, LoopTypesHold, PTL DEF Spec

\* A write whose checks were scheduled is done only when all of them are, and no
\* later step reopens one of the checks of a done write.
THEOREM WritesWaitForTheirChecks == Spec => []ChecksBeforeDone
<1>1. TasksHonest /\ Families => ChecksBeforeDone
  <2> SUFFICES ASSUME TasksHonest, Families, NEW id \in DOMAIN task_tree,
                      task_tree[id].verification_scheduled, task_tree[id].status = "done",
                      NEW i \in DOMAIN task_tree[id].children
               PROVE  task_tree[task_tree[id].children[i]].status = "done"
    BY DEF ChecksBeforeDone
  <2>1. Family(id)
    BY DEF TasksHonest, Honest, Families
  <2>2. task_tree[id].children[i] \in Kids(task_tree, id)
    BY DEF Kids, ToSet
  <2> QED BY <2>1, <2>2 DEF Family
<1> QED BY <1>1, TasksHonestHolds, FamiliesHold, PTL
=============================================================================

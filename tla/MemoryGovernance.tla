-------------------------- MODULE MemoryGovernance --------------------------
(***************************************************************************)
(* One agent and what its runs learn from each other: the retriever shows  *)
(* records to a run and notes each use, the writer turns the notes into    *)
(* feedback, scores the new experience with the feedback and stores it     *)
(* (memory/nodes.py, retrieval.py, effectiveness.py, feedback.py,          *)
(* store.py).  The runs follow one another; a node that dies is run again  *)
(* from its start when the thread is resumed, or the thread is given up.   *)
(* After every task the compaction, and at any time the lifecycle job,     *)
(* puts one record in the place of several, whoever they are from          *)
(* (compaction.py, lifecycle.py).                                          *)
(*                                                                         *)
(* The decisions are those of MemoryScores; MemoryStore has the store      *)
(* under concurrent processes and the job's other passes, which only take  *)
(* records away from those a run may be shown.                             *)
(***************************************************************************)
EXTENDS MemoryScores, Subsequences, SequencesExt

CONSTANTS None,
          Identities,          \* [tenant, workspace, project, user] a run may have
          Experiences,         \* what the task committer may report, without `task`
          JudgeAnswers,        \* answers of the optional LLM judge; "off" if there is none
          PromotionThreshold,  \* MEMORY_PROMOTION_SUCCESS_THRESHOLD
          MaxRetrieved,        \* MAX_RETRIEVED_RECORDS
          MaxEvents,           \* MAX_MEMORY_USAGE_EVENTS and MAX_MEMORY_FEEDBACK_EVENTS
          JobIdentity,         \* the identity of the lifecycle job's own state
          MinCompactionGroup,  \* BEGINNER_AGENT_MEMORY_COMPACTION_MIN_GROUP_SIZE
          MinSummaryGroup,     \* BEGINNER_AGENT_MEMORY_LIFECYCLE_SUMMARY_MIN_GROUP_SIZE
          RunTasks,            \* bound: how many tasks each of the runs commits
          MaxCrashes,          \* bound: how often a node dies
          JobTimes,            \* bound: where in a run the lifecycle job's steps fall
          MaxMerges            \* bound: how many records are merged from others

VARIABLES
    memory,     \* the stored records
    aged,       \* ids of those whose expires_at has passed
    usage,      \* every usage event ever written; the file has the last MaxEvents
    feedback,   \* every feedback event, likewise
    run,        \* number of the current run
    identity,   \* for whom it is run
    at,         \* what it is doing
    tasks,      \* tasks it has committed
    context,    \* records in its memory_context
    todo,       \* ids the node still has to write an event for
    half,       \* the usage event of the first of them is written, its feedback not
    pending,    \* pending_memory; None if there is none
    outcome,    \* how the run counts for the records it used
    ended,      \* runs that came to their end
    blocked,    \* those of them that the checkpoint node stopped
    merges,     \* how many records were merged from others
    crashed,    \* runs in which a node died (history), one entry for each time
    succeeded   \* tool -> successful experiences committed (history)

runState == <<run, identity, at, tasks, context, todo, half, pending, outcome>>
vars == <<memory, aged, usage, feedback, runState, ended, blocked, merges, crashed, succeeded>>

ASSUME BoundsAssumption ==
    /\ PromotionThreshold \in Nat \ {0} /\ MaxRetrieved \in Nat \ {0} /\ MaxEvents \in Nat \ {0}
    /\ RunTasks \in Seq(Nat) /\ MaxCrashes \in Nat /\ MaxMerges \in Nat
    /\ MinCompactionGroup \in Nat \ {0} /\ MinSummaryGroup \in Nat \ {0, 1}
    /\ JobIdentity \in Identities

(* What a run is shown fits into the event file: 8 records, 3000 events.    *)
ASSUME EventsAssumption == MaxRetrieved <= MaxEvents

(* What the privacy scan may find in an experience.                         *)
ASSUME FindingsAssumption == \A e \in Experiences : e.findings \in {"none", "pii", "secret"}

(* A secret scan reports a status and findings, no evidence of success.     *)
ASSUME ScanAssumption == \A e \in Experiences : e.tool = "secret_scan" => ~e.evidence

(* The tool "none" is denied by the policy: it never succeeds.               *)
ASSUME NoToolAssumption == \A e \in Experiences : e.tool = "none" => e.result # "success"

(* The positions of the events a file still holds. *)
LastOf(events) == {i \in DOMAIN events : i > Len(events) - MaxEvents}

Init ==
    /\ memory = {} /\ aged = {}
    /\ usage = <<>> /\ feedback = <<>>
    /\ run = 0 /\ identity \in Identities /\ at = "idle" /\ tasks = 0
    /\ context = {} /\ todo = <<>> /\ half = FALSE
    /\ pending = None /\ outcome = None
    /\ ended = {} /\ blocked = {} /\ merges = 0 /\ crashed = <<>>
    /\ succeeded = [t \in {e.tool : e \in Experiences} |-> 0]

---------------------------------------------------------------------------
(* The retriever.                                                          *)

Retained(r) == r.policy = "pinned" \/ r.id \notin aged
Usable(r) == r.status = "active" /\ Retained(r)

(* The identity fields a reader must share with the owner. *)
SharedFields(visibility) ==
    CASE visibility = "public" -> {}
      [] visibility = "tenant" -> {"tenant"}
      [] visibility = "workspace" -> {"tenant", "workspace"}
      [] visibility \in {"project", "retrieval_only"} -> {"tenant", "workspace", "project"}
      [] visibility = "private" -> {"tenant", "workspace", "project", "user"}

\* Mutant: a project is known by its name alone.
VisibleByProject(r) == r.owner.project = identity.project

Visible(r) == \A f \in SharedFields(r.visibility) : r.owner[f] = identity[f]

PromptAllowed(r) ==
    r.prompt_allowed /\ r.visibility # "retrieval_only" /\ r.sensitivity \in {"public", "internal"}

Candidates == {r \in memory : Usable(r) /\ Visible(r)}

(* Whatever the scores: the reranker keeps the pinned ones and no more than *)
(* MaxRetrieved.                                                            *)
Reranked ==
    {hits \in SUBSET Candidates :
        /\ Cardinality(hits) <= MaxRetrieved
        /\ \/ Cardinality(hits) = MaxRetrieved
           \/ \A r \in Candidates : r.policy = "pinned" => r \in hits}

NeedsAudit(r) == ~(r.sensitivity \in {"public", "internal"} /\ PromptAllowed(r))

(* The audit of a sensitive hit calls _safe_memory_value, which the module  *)
(* does not import: the node fails with a NameError and the run with it.    *)
AuditFails(hits) == \E r \in hits : NeedsAudit(r)

StartRun ==
    /\ at \in {"idle", "failed"} /\ run < Len(RunTasks)
    /\ run' = run + 1
    /\ identity' \in Identities
    /\ at' = "retrieving"
    /\ tasks' = 0 /\ context' = {} /\ pending' = None /\ outcome' = None
    /\ UNCHANGED <<memory, aged, usage, feedback, todo, half, ended, blocked, merges, crashed,
                   succeeded>>

Retrieve ==
    /\ at = "retrieving"
    /\ \E hits \in Reranked :
        IF AuditFails(hits) THEN at' = "failed" /\ UNCHANGED <<context, todo>>
        ELSE /\ at' = "recording"
             /\ context' = {r \in hits : PromptAllowed(r)}
             /\ todo' = SetToSeq({r.id : r \in context'})
    /\ UNCHANGED <<memory, aged, usage, feedback, run, identity, tasks, half, pending,
                   outcome, ended, blocked, merges, crashed, succeeded>>

UsageEvent(id, o) == [run |-> run, id |-> id, outcome |-> o]

RecordUse ==
    /\ at = "recording" /\ todo # <<>>
    /\ usage' = Append(usage, UsageEvent(Head(todo), "pending"))
    /\ todo' = Tail(todo)
    /\ UNCHANGED <<memory, aged, feedback, run, identity, at, tasks, context, half, pending,
                   outcome, ended, blocked, merges, crashed, succeeded>>

RetrieverEnds ==
    /\ at = "recording" /\ todo = <<>>
    /\ at' = "working"
    /\ UNCHANGED <<memory, aged, usage, feedback, run, identity, tasks, context, todo, half,
                   pending, outcome, ended, blocked, merges, crashed, succeeded>>

---------------------------------------------------------------------------
(* The writer.                                                             *)

(* How the run stands when the first of its tasks is committed; the loop    *)
(* has not ended then (done), so no use is ever judged "helped".            *)
OutcomeFor(e, recovery, done) ==
    IF recovery \in {"retry", "replan"} THEN [usage |-> "hurt", signal |-> "not_useful"]
    ELSE IF done /\ e.result \in {"success", "none"} THEN [usage |-> "helped", signal |-> "useful"]
    ELSE IF e.result \in {"failed", "blocked"} THEN [usage |-> "neutral", signal |-> "not_useful"]
    ELSE [usage |-> "neutral", signal |-> "confirmed"]

(* The task committer: an experience, or none when the task is tried again, *)
(* expanded or rolled back.  Recovery follows what did not succeed.         *)
Commit ==
    /\ at = "working" /\ tasks < RunTasks[run]
    /\ \E e \in Experiences, kept \in BOOLEAN, recovery \in {"none", "replan"} :
        /\ e.result = "success" => recovery = "none"
        /\ outcome' = OutcomeFor(e, recovery, e.done)
        /\ pending' = IF kept THEN e ELSE None
        /\ succeeded' = IF kept /\ e.result = "success" THEN [succeeded EXCEPT ![e.tool] = @ + 1]
                        ELSE succeeded
    /\ tasks' = tasks + 1
    /\ at' = "closing"
    /\ UNCHANGED <<memory, aged, usage, feedback, run, identity, context, todo, half, ended,
                   blocked, merges, crashed>>

(* What the file knows of this run: uses noted, and records whose use was   *)
(* closed.                                                                 *)
Noted == {i \in LastOf(usage) : usage[i].run = run /\ usage[i].outcome = "pending"}
Closed ==
    {usage[i].id : i \in {i \in LastOf(usage) : usage[i].run = run /\ usage[i].outcome # "pending"}}

\* Mutant: what was closed before is closed again.
OpenUsesAll == Kept(usage, Noted)

\* Mutant: one closed use closes the run.
OpenUsesFirst == Kept(usage, {i \in Noted : Closed = {} /\ \A j \in Noted : i <= j})

OpenUses == Kept(usage, {i \in Noted : usage[i].id \notin Closed})

ReadUses ==
    /\ at = "closing"
    /\ todo' = [i \in DOMAIN OpenUses |-> OpenUses[i].id]
    /\ at' = "judging"
    /\ UNCHANGED <<memory, aged, usage, feedback, run, identity, tasks, context, half, pending,
                   outcome, ended, blocked, merges, crashed, succeeded>>

CloseUse ==
    /\ at = "judging" /\ todo # <<>> /\ ~half
    /\ usage' = Append(usage, UsageEvent(Head(todo), outcome.usage))
    /\ half' = TRUE
    /\ UNCHANGED <<memory, aged, feedback, run, identity, at, tasks, context, todo, pending,
                   outcome, ended, blocked, merges, crashed, succeeded>>

GiveFeedback ==
    /\ at = "judging" /\ half
    /\ feedback' = Append(feedback, [run |-> run, id |-> Head(todo), signal |-> outcome.signal])
    /\ todo' = Tail(todo)
    /\ half' = FALSE
    /\ UNCHANGED <<memory, aged, usage, run, identity, at, tasks, context, pending, outcome,
                   ended, blocked, merges, crashed, succeeded>>

FeedbackOf(id) ==
    LET given(signals) == Cardinality({i \in LastOf(feedback) : feedback[i].id = id
                                                             /\ feedback[i].signal \in signals})
    IN  [positive |-> given({"useful", "confirmed"}), negative |-> given({"not_useful"})]

(* The stable id: the same task under the same identity, with a result of   *)
(* the same kind.                                                           *)
RecordId(p) ==
    <<tasks, p.tool, Kind(p), p.decision, Visibility(p), identity>>

(* Earlier successes of the same kind on the same files; an older version   *)
(* of the record itself is one of them.                                     *)
MatchingSuccesses(p) ==
    {r \in memory : r.result = "success" /\ r.kind = Kind(p) /\ r.tool = p.tool
                    /\ r.paths \cap p.paths # {}}

\* Mutant: an off-by-one at the threshold.
RepeatedEarly(p) == Cardinality(MatchingSuccesses(p)) + 2 >= PromotionThreshold

Repeated(p) == Cardinality(MatchingSuccesses(p)) + 1 >= PromotionThreshold

RepairsKnown(p) == \E r \in memory : r.result = "success" /\ r.paths \cap p.paths # {}

MemoryRecord(p, judge) ==
    LET governed == Governed(p, FeedbackOf(RecordId(p)), judge, RepairsKnown(p), Repeated(p))
    IN  [id |-> RecordId(p), key |-> None, owner |-> identity, kind |-> Kind(p), tool |-> p.tool,
         result |-> p.result, paths |-> p.paths,
         pattern |-> IF HasFailureProfile(p) THEN p.failure ELSE None,
         sensitivity |-> Sensitivity(p), visibility |-> Visibility(p),
         prompt_allowed |-> p.findings = "none",
         source |-> "memory_writer_node",
         origins |-> {[findings |-> p.findings, tool |-> p.tool]}, summarized |-> FALSE,
         policy |-> governed.policy, value |-> governed.value, status |-> governed.status]

\* Mutant: the older version stays.
UpsertedBeside(new) == memory \cup {new}

Upserted(new) == {r \in memory : r.id # new.id} \cup {new}

WriteMemory ==
    /\ at = "judging" /\ todo = <<>>
    /\ IF pending = None \/ Discarded(pending) THEN UNCHANGED <<memory, aged>>
       ELSE \E judge \in JudgeAnswers :
                LET new == MemoryRecord(pending, judge)
                IN  /\ memory' = Upserted(new)
                    /\ aged' = aged \ {new.id}
    /\ at' = "written"
    /\ UNCHANGED <<usage, feedback, run, identity, tasks, context, todo, half, pending,
                   outcome, ended, blocked, merges, crashed, succeeded>>

WriterEnds ==
    /\ at = "written"
    /\ at' = "compacting"
    /\ pending' = None /\ outcome' = None
    /\ UNCHANGED <<memory, aged, usage, feedback, run, identity, tasks, context, todo, half,
                   ended, blocked, merges, crashed, succeeded>>

(* A run ends after a task, or when the checkpoint node, which follows the  *)
(* retriever, finds that its thread could not be resumed: then no writer    *)
(* ever closes what the retriever noted.                                    *)
EndRun ==
    /\ at = "working"
    /\ at' = "idle"
    /\ ended' = ended \cup {run}
    /\ blocked' = IF tasks = 0 THEN blocked \cup {run} ELSE blocked
    /\ UNCHANGED <<memory, aged, usage, feedback, run, identity, tasks, context, todo, half,
                   pending, outcome, merges, crashed, succeeded>>

---------------------------------------------------------------------------
(* One record for several.  `origins` and `summarized` are history: what    *)
(* texts the experiences in it came from, and whether a summary of the      *)
(* lifecycle job is, or went into, the record.                              *)

(* What may make a record one of a group: its failure pattern, its files,   *)
(* its stage of a project of that name, whoever owns it.                    *)
Stage(r) == <<"project_memory", r.owner.project, r.kind, r.tool, r.result>>
Topics(r) ==
    {<<"file_memory", f>> : f \in r.paths} \cup {Stage(r)}
        \cup ({<<"failure_pattern", r.pattern>>} \ {<<"failure_pattern", None>>})

Compactable ==
    {r \in memory : /\ r.status = "active" /\ r.policy # "pinned"
                    /\ r.source # "memory_compaction_node" /\ r.sensitivity # "secret"}

Summarizable ==
    {r \in memory : /\ r.status = "active"
                    /\ r.source \notin {"memory_compaction_node", "memory_lifecycle_job"}}

Strongest(group) ==
    LET some(level) == \E r \in group : r.sensitivity = level
    IN  IF some("secret") THEN "secret" ELSE IF some("confidential") THEN "confidential" ELSE "internal"

(* Nothing of a privacy scan is kept in it. *)
Merged(source, topic, task, owner, group, kind, sensitivity) ==
    LET paths == UNION {r.paths : r \in group}
    IN  [id |-> <<source, topic, task, paths, owner>>, key |-> <<source, topic>>, owner |-> owner,
         kind |-> kind, tool |-> "none", result |-> "success", paths |-> paths, pattern |-> None,
         sensitivity |-> sensitivity, visibility |-> "project", prompt_allowed |-> TRUE,
         source |-> source, origins |-> UNION {r.origins : r \in group},
         summarized |-> source = "memory_lifecycle_job" \/ \E r \in group : r.summarized,
         policy |-> "long_term", value |-> "mid", status |-> "active"]

(* The new record is stored, and with it the replaced ones and those with   *)
(* its contradiction key are superseded.                                    *)
Merge(new, replaced) ==
    /\ merges < MaxMerges
    /\ merges' = merges + 1
    /\ memory' = {new} \cup
           {[r EXCEPT !.status = IF r \in replaced \/ (r.key = new.key /\ @ = "active")
                                 THEN "superseded" ELSE @] : r \in {s \in memory : s.id # new.id}}
    /\ aged' = aged \ {new.id}

(* A group is what is left of a topic when the list was cut at its limit;   *)
(* which groups are taken depends on scores.                                *)
Compacted(task, owner) ==
    \E group \in SUBSET Compactable : \E topic \in UNION {Topics(r) : r \in group} :
        /\ Cardinality(group) >= MinCompactionGroup
        /\ \A r \in group : topic \in Topics(r)
        /\ Merge(Merged("memory_compaction_node", topic, task, owner, group,
                        IF topic[1] = "failure_pattern" THEN "failure" ELSE "project",
                        Strongest(group)), group)

Compact ==
    /\ at = "compacting"
    /\ Compacted("", identity)
    /\ UNCHANGED <<usage, feedback, runState, ended, blocked, crashed, succeeded>>

CompactionEnds ==
    /\ at = "compacting"
    /\ at' = "working"
    /\ UNCHANGED <<memory, aged, usage, feedback, run, identity, tasks, context, todo, half,
                   pending, outcome, ended, blocked, merges, crashed, succeeded>>

(* The summary names the newest of its group as its owner and replaces that *)
(* one alone; it is never sensitive.                                        *)
Summarize ==
    /\ at \in JobTimes
    /\ \E group \in SUBSET Summarizable : \E newest \in group :
        /\ Cardinality(group) >= MinSummaryGroup
        /\ \A r \in group : Stage(r) = Stage(newest)
        /\ Merge(Merged("memory_lifecycle_job", Stage(newest), "memory_lifecycle_job", newest.owner,
                        group, "project", "internal"), {newest})
    /\ UNCHANGED <<usage, feedback, runState, ended, blocked, crashed, succeeded>>

(* The job compacts with a state of its own. *)
JobCompacts ==
    /\ at \in JobTimes
    /\ Compacted("memory_lifecycle_job", JobIdentity)
    /\ UNCHANGED <<usage, feedback, runState, ended, blocked, crashed, succeeded>>

---------------------------------------------------------------------------
(* Around it.                                                              *)

(* The process dies inside a node; the thread is resumed at the node, with  *)
(* the state the node began with, or never again.                           *)
Crash ==
    /\ Len(crashed) < MaxCrashes /\ at \in {"recording", "judging", "written", "compacting"}
    /\ at' \in {IF at = "recording" THEN "retrieving"
               ELSE IF at = "compacting" THEN "compacting" ELSE "closing", "idle"}
    /\ crashed' = Append(crashed, run)
    /\ todo' = <<>> /\ half' = FALSE
    /\ UNCHANGED <<memory, aged, usage, feedback, run, identity, tasks, context, pending,
                   outcome, ended, blocked, merges, succeeded>>

(* Time passes between two runs. *)
Ages ==
    /\ at = "idle"
    /\ \E r \in memory :
        /\ r.policy = "ttl" /\ r.id \notin aged
        /\ aged' = aged \cup {r.id}
    /\ UNCHANGED <<memory, usage, feedback, runState, ended, blocked, merges, crashed, succeeded>>

Retriever == Retrieve \/ RecordUse \/ RetrieverEnds
Writer == ReadUses \/ CloseUse \/ GiveFeedback \/ WriteMemory \/ WriterEnds
Compaction == Compact \/ CompactionEnds
LifecycleJob == Summarize \/ JobCompacts

Next ==
    \/ StartRun \/ Retriever \/ Commit \/ Writer \/ Compaction \/ EndRun
    \/ LifecycleJob \/ Crash \/ Ages

Spec == Init /\ [][Next]_vars

---------------------------------------------------------------------------
(* Properties.                                                             *)

(* One record for each id; what a node still has to do, it has begun.       *)
TypeOK ==
    /\ \A r, s \in memory : r.id = s.id => r = s
    /\ todo # <<>> => at \in {"recording", "judging"}
    /\ half => at = "judging" /\ todo # <<>>
    /\ aged \subseteq {r.id : r \in memory}

(* What the writer stores is what the store's maintenance relies on, with   *)
(* any feedback, judge, repairs and repetitions: in particular a record     *)
(* that expires never scores so high that the lifecycle job would keep it,  *)
(* and a promoted one is never among those the job gives up.                *)
StoreGetsWhatItExpects ==
    \A r \in memory : r.source = "memory_writer_node" /\ r.status # "superseded" =>
        [policy |-> r.policy, value |-> r.value, status |-> r.status] \in Evaluations

(* A use of a record by a run gives at most one feedback for every time it  *)
(* was noted, although each task of the run closes the loop again and a     *)
(* node that died notes or closes a second time.                            *)
NotedUses(r, id)  == {i \in DOMAIN usage : usage[i].run = r /\ usage[i].id = id
                                              /\ usage[i].outcome = "pending"}
ClosedUses(r, id) == {i \in DOMAIN usage : usage[i].run = r /\ usage[i].id = id
                                              /\ usage[i].outcome # "pending"}
Answered(r, id)   == {i \in DOMAIN feedback : feedback[i].run = r /\ feedback[i].id = id}

CountedOnce(r, id) ==
    /\ Cardinality(ClosedUses(r, id)) <= Cardinality(NotedUses(r, id))
    /\ Cardinality(Answered(r, id)) <= Cardinality(ClosedUses(r, id))

UsesCountOnce == \A i \in DOMAIN usage : CountedOnce(usage[i].run, usage[i].id)

(* Every record a run was shown has its feedback when the run is over, if   *)
(* no node of the run died and the checkpoint node let the run begin.       *)
EndedRunsAreCounted ==
    \A i \in DOMAIN usage :
        usage[i].run \in ended \ blocked /\ ~Contains(crashed, usage[i].run) =>
            Answered(usage[i].run, usage[i].id) # {}

(* What a run is shown names the run's own tenant, workspace and project    *)
(* and has not expired; and nothing it was learned from had a secret or     *)
(* personal data in it, through any number of compactions, unless a summary *)
(* of the lifecycle job went into it.                                       *)
ContextIsGoverned ==
    at = "recording" =>
        \A r \in context :
            /\ \A f \in {"tenant", "workspace", "project"} : r.owner[f] = identity[f]
            /\ r.policy # "pinned" => r.id \notin aged
            /\ ~r.summarized =>
                   \A o \in r.origins : o.findings = "none" /\ o.tool # "secret_scan"

(* A record is pinned only after as many successes as the threshold asks    *)
(* for; a writer that died after its write and ran again counts one twice.  *)
PromotionIsEarned ==
    \A r \in memory : r.policy = "pinned" =>
        succeeded[r.tool] + Len(crashed) >= PromotionThreshold

(* Every sensitive hit leaves an audit event: the retriever never ends      *)
(* before it (retrieval.py:95).                                             *)
SensitiveHitsAreAudited == at # "failed"
=============================================================================

----------------------- MODULE MemoryGovernanceProofs -----------------------
(***************************************************************************)
(* What the memory guarantees for any identities, experiences, judges,     *)
(* budgets, crashes, compactions and summaries:                            *)
(*   - what a run is shown names its own project, has not expired, and     *)
(*     holds no secret or personal data but what a summary carried there;  *)
(*   - a use counts at most once, and exactly once in a run that no crash  *)
(*     disturbed and that was not blocked at its checkpoint;               *)
(*   - a record is pinned only after enough successes, and what the writer *)
(*     stores is what the lifecycle job relies on.                         *)
(***************************************************************************)
EXTENDS MemoryGovernance, SubsequencesProofs, TLAPS

(***************************************************************************)
(* What the state is made of.                                              *)
(***************************************************************************)
Tools    == {e.tool : e \in Experiences}
AllPaths == UNION {e.paths : e \in Experiences}
Projects == {i.project : i \in Identities}
Kinds    == {"failure", "patch", "eval", "project", "task"}
Results  == {e.result : e \in Experiences} \cup {"success"}
Patterns == {e.failure : e \in Experiences} \cup {None}

TopicSet ==
    {<<"file_memory", f>> : f \in AllPaths} \cup {<<"failure_pattern", c>> : c \in Patterns}
        \cup {<<"project_memory", j, k, t, o>> :
                 j \in Projects, k \in Kinds, t \in Tools \cup {"none"}, o \in Results}

PathSets  == SUBSET AllPaths
Mergers   == {"memory_compaction_node", "memory_lifecycle_job"}
MergedIds == Mergers \X TopicSet \X {"", "memory_lifecycle_job"} \X PathSets \X Identities
WriterIds ==
    {<<n, e.tool, Kind(e), e.decision, Visibility(e), i>> :
        n \in Nat, e \in Experiences, i \in Identities}
RecordIds == WriterIds \cup MergedIds

RecordFields ==
    {"id", "key", "owner", "kind", "tool", "result", "paths", "pattern", "sensitivity", "visibility",
     "prompt_allowed", "source", "origins", "summarized", "policy", "value", "status"}

\* A record is the writer's, of one of its tools, or was merged from others.
RecordShape(r) ==
    /\ DOMAIN r = RecordFields
    /\ r.id \in RecordIds /\ r.owner \in Identities
    /\ r.kind \in Kinds /\ r.result \in Results /\ r.paths \in SUBSET AllPaths /\ r.pattern \in Patterns
    /\ \/ r.source = "memory_writer_node" /\ r.tool \in Tools
       \/ r.source \in Mergers /\ r.tool = "none" /\ r.policy = "long_term"

UsageOutcomes  == {"helped", "hurt", "neutral"}
Signals        == {"useful", "not_useful", "confirmed"}
UsageEvents    == [run : Nat, id : RecordIds, outcome : UsageOutcomes \cup {"pending"}]
FeedbackEvents == [run : Nat, id : RecordIds, signal : Signals]

StateIsTyped ==
    /\ IsFiniteSet(memory) /\ \A r \in memory : RecordShape(r)
    /\ usage \in Seq(UsageEvents) /\ feedback \in Seq(FeedbackEvents)
    /\ run \in Nat /\ identity \in Identities /\ tasks \in Nat
    /\ todo \in Seq(RecordIds) /\ half \in BOOLEAN
    /\ at \in {"idle", "failed", "retrieving", "recording", "working", "closing", "judging",
              "written", "compacting"}
    /\ pending \in Experiences \cup {None}
    /\ at \in {"closing", "judging", "written"} =>
           outcome \in [usage : UsageOutcomes, signal : Signals]
    /\ crashed \in Seq(Nat)
    /\ succeeded \in [Tools -> Nat]

LEMMA SetToSeqElements ==
    ASSUME NEW S, IsFiniteSet(S)
    PROVE  SetToSeq(S) \in Seq(S) /\ Len(SetToSeq(S)) = Cardinality(S)
<1> DEFINE n == Cardinality(S)
<1>1. n \in Nat /\ ExistsBijection(1..n, S)
  BY FS_CardinalityType
<1>2. \E f \in [1..n -> S] : IsInjective(f)
  BY <1>1 DEF ExistsBijection, Bijection, Injection
<1>3. SetToSeq(S) \in [1..n -> S]
  BY <1>2 DEF SetToSeq
<1> HIDE DEF n
<1>4. SetToSeq(S) \in Seq(S) /\ Len(SetToSeq(S)) = n
  BY <1>1, <1>3
<1> QED BY <1>4 DEF n

\* The ids of finitely many records.
LEMMA IdsAreFinite ==
    ASSUME NEW R, IsFiniteSet(R)
    PROVE  /\ IsFiniteSet({r.id : r \in R})
           /\ Cardinality({r.id : r \in R}) <= Cardinality(R)
<1> DEFINE f == [r \in R |-> r.id]
<1>1. f \in Surjection(R, {r.id : r \in R})
  BY DEF Surjection
<1> HIDE DEF f
<1> QED BY <1>1, FS_Surjection

LEMMA KindOf == \A p : Kind(p) \in Kinds
BY DEF Kind, Kinds

LEMMA SensitivityOf ==
    ASSUME NEW p \in Experiences
    PROVE  /\ Sensitivity(p) \in {"internal", "confidential", "secret"}
           /\ Sensitivity(p) = "internal" => p.findings = "none" /\ p.tool # "secret_scan"
<1>1. p.findings \in {"none", "pii", "secret"}
  BY FindingsAssumption
<1>2. DOMAIN Levels = 1..4
  BY DEF Levels
<1>3. LevelOf("internal") = 2 /\ LevelOf("confidential") = 3 /\ LevelOf("secret") = 4
  <2>1. \A n \in 1..4 : /\ Levels[n] = "internal" <=> n = 2
                        /\ Levels[n] = "confidential" <=> n = 3
                        /\ Levels[n] = "secret" <=> n = 4
    BY DEF Levels
  <2> QED BY <1>2, <2>1 DEF LevelOf
<1>4. /\ StrongerSensitivity("internal", "internal") = "internal"
      /\ StrongerSensitivity("internal", "confidential") = "confidential"
      /\ StrongerSensitivity("internal", "secret") = "secret"
  BY <1>3 DEF StrongerSensitivity, AtLeast, Levels
<1> QED BY <1>1, <1>4 DEF Sensitivity, ScannedSensitivity

\* The record the writer makes.
LEMMA NewRecord ==
    ASSUME StateIsTyped, NEW p \in Experiences, NEW judge
    PROVE  LET new == MemoryRecord(p, judge)
           IN  /\ RecordShape(new) /\ new.source = "memory_writer_node"
               /\ new.tool = p.tool /\ new.result = p.result
               /\ new.kind = Kind(p) /\ new.paths = p.paths
               /\ new.sensitivity = Sensitivity(p) /\ new.visibility = Visibility(p)
               /\ new.origins = {[findings |-> p.findings, tool |-> p.tool]} /\ ~new.summarized
               /\ [policy |-> new.policy, value |-> new.value, status |-> new.status]
                     = Governed(p, FeedbackOf(RecordId(p)), judge, RepairsKnown(p), Repeated(p))
<1>0. tasks \in Nat /\ identity \in Identities
  BY DEF StateIsTyped
<1>1. RecordId(p) \in RecordIds
  BY <1>0 DEF RecordId, RecordIds, WriterIds
<1> DEFINE governed == Governed(p, FeedbackOf(RecordId(p)), judge, RepairsKnown(p), Repeated(p))
           pattern == IF HasFailureProfile(p) THEN p.failure ELSE None
           new == MemoryRecord(p, judge)
<1>2. new =
        [id |-> RecordId(p), key |-> None, owner |-> identity, kind |-> Kind(p), tool |-> p.tool,
         result |-> p.result, paths |-> p.paths, pattern |-> pattern,
         sensitivity |-> Sensitivity(p), visibility |-> Visibility(p),
         prompt_allowed |-> p.findings = "none", source |-> "memory_writer_node",
         origins |-> {[findings |-> p.findings, tool |-> p.tool]}, summarized |-> FALSE,
         policy |-> governed.policy, value |-> governed.value, status |-> governed.status]
  BY DEF MemoryRecord
<1>3. governed = [policy |-> governed.policy, value |-> governed.value, status |-> governed.status]
  BY DEF Governed
<1>4. pattern \in Patterns
  BY DEF Patterns
<1> HIDE DEF governed, pattern, new
<1>5. [policy |-> new.policy, value |-> new.value, status |-> new.status] = governed
  BY <1>2, <1>3
<1>6. /\ DOMAIN new = RecordFields /\ new.id = RecordId(p) /\ new.owner = identity
      /\ new.kind = Kind(p) /\ new.tool = p.tool /\ new.result = p.result /\ new.paths = p.paths
      /\ new.pattern = pattern /\ new.source = "memory_writer_node"
  BY <1>2 DEF RecordFields
<1>7. new.kind \in Kinds
  BY <1>6, KindOf
<1>8. new.result \in Results /\ new.paths \in SUBSET AllPaths /\ new.tool \in Tools
  BY <1>6 DEF Results, AllPaths, Tools
<1>9. RecordShape(new)
  BY <1>0, <1>1, <1>4, <1>6, <1>7, <1>8 DEF RecordShape
<1>10. /\ new.sensitivity = Sensitivity(p) /\ new.visibility = Visibility(p)
       /\ new.origins = {[findings |-> p.findings, tool |-> p.tool]} /\ ~new.summarized
  BY <1>2
<1> QED BY <1>5, <1>6, <1>9, <1>10 DEF new, governed

\* The writer stores one record or nothing.
Writes(new) ==
    /\ memory' = Upserted(new) /\ aged' = aged \ {new.id}
    /\ pending \in Experiences /\ \E judge \in JudgeAnswers : new = MemoryRecord(pending, judge)

LEMMA WriteShape ==
    ASSUME StateIsTyped, WriteMemory
    PROVE  /\ at = "judging" /\ todo = <<>> /\ at' = "written"
           /\ UNCHANGED <<usage, feedback, run, identity, tasks, context, todo, half, pending,
                          outcome, ended, blocked, crashed, succeeded>>
           /\ UNCHANGED <<memory, aged>> \/ \E new : Writes(new)
<1>1. CASE pending = None \/ Discarded(pending)
  BY <1>1 DEF WriteMemory
<1>2. CASE ~(pending = None \/ Discarded(pending))
  <2>1. pending \in Experiences
    BY <1>2 DEF StateIsTyped
  <2>2. PICK judge \in JudgeAnswers :
            /\ memory' = Upserted(MemoryRecord(pending, judge))
            /\ aged' = aged \ {MemoryRecord(pending, judge).id}
    BY <1>2 DEF WriteMemory
  <2>3. Writes(MemoryRecord(pending, judge))
    BY <2>1, <2>2 DEF Writes
  <2> QED BY <2>3 DEF WriteMemory
<1> QED BY <1>1, <1>2

(***************************************************************************)
(* One record for several.                                                 *)
(***************************************************************************)
Merges == Compact \/ LifecycleJob

\* What is said of the new record, and of the groups it may come from.
MergedFrom(new, group) ==
    /\ group \subseteq memory /\ RecordShape(new)
    /\ new.source \in Mergers /\ new.visibility = "project"
    /\ new.origins = UNION {r.origins : r \in group}
    /\ new.sensitivity \in {"internal", "confidential", "secret"}
    /\ ~new.summarized =>
           new.sensitivity = Strongest(group) /\ \A r \in group : ~r.summarized

LEMMA MergesKeepTheRest ==
    ASSUME Merges
    PROVE  UNCHANGED <<usage, feedback, run, identity, at, tasks, context, todo, half, pending,
                       outcome, ended, blocked, crashed, succeeded>>
BY DEF Merges, Compact, LifecycleJob, Summarize, JobCompacts, runState

LEMMA TopicsOf ==
    ASSUME NEW r, RecordShape(r)
    PROVE  Topics(r) \subseteq TopicSet /\ Stage(r) \in TopicSet
<1>1. Stage(r) \in TopicSet
  <2>1. r.owner.project \in Projects /\ r.kind \in Kinds /\ r.result \in Results
        /\ r.tool \in Tools \cup {"none"}
    BY DEF RecordShape, Projects
  <2> QED BY <2>1 DEF Stage, TopicSet
<1>2. \A f \in r.paths : <<"file_memory", f>> \in TopicSet
  BY DEF RecordShape, TopicSet
<1>3. <<"failure_pattern", r.pattern>> \in TopicSet
  BY DEF RecordShape, TopicSet
<1> QED BY <1>1, <1>2, <1>3 DEF Topics

LEMMA StrongestOf ==
    \A group : Strongest(group) \in {"internal", "confidential", "secret"}
BY DEF Strongest

LEMMA MergedShape ==
    ASSUME StateIsTyped, NEW source \in Mergers, NEW topic \in TopicSet,
           NEW task \in {"", "memory_lifecycle_job"}, NEW owner \in Identities,
           NEW group, group \subseteq memory, NEW kind \in {"project", "failure"}, NEW sensitivity,
           \/ sensitivity = Strongest(group)
           \/ source = "memory_lifecycle_job" /\ sensitivity = "internal"
    PROVE  MergedFrom(Merged(source, topic, task, owner, group, kind, sensitivity), group)
<1> DEFINE new == Merged(source, topic, task, owner, group, kind, sensitivity)
           paths == UNION {r.paths : r \in group}
           origins == UNION {r.origins : r \in group}
           summarized == source = "memory_lifecycle_job" \/ \E r \in group : r.summarized
<1>1. new =
        [id |-> <<source, topic, task, paths, owner>>, key |-> <<source, topic>>, owner |-> owner,
         kind |-> kind, tool |-> "none", result |-> "success", paths |-> paths, pattern |-> None,
         sensitivity |-> sensitivity, visibility |-> "project", prompt_allowed |-> TRUE,
         source |-> source, origins |-> origins, summarized |-> summarized,
         policy |-> "long_term", value |-> "mid", status |-> "active"]
  BY DEF Merged
<1>2. paths \in SUBSET AllPaths
  BY DEF StateIsTyped, RecordShape
<1>3. sensitivity \in {"internal", "confidential", "secret"}
  BY StrongestOf
<1>4. ~summarized => sensitivity = Strongest(group) /\ \A r \in group : ~r.summarized
  OBVIOUS
<1>11. new.summarized <=> summarized
  BY DEF Merged
<1> HIDE DEF new, paths, origins, summarized
<1>5. /\ DOMAIN new = RecordFields /\ new.id = <<source, topic, task, paths, owner>>
      /\ new.owner = owner /\ new.kind = kind /\ new.tool = "none" /\ new.result = "success"
      /\ new.paths = paths /\ new.pattern = None /\ new.source = source
      /\ new.policy = "long_term"
  BY <1>1 DEF RecordFields
<1>6. /\ new.visibility = "project" /\ new.origins = origins /\ new.sensitivity = sensitivity
  BY <1>1
<1>7. new.id \in RecordIds
  <2>1. paths \in PathSets
    BY <1>2 DEF PathSets
  <2>2. <<source, topic, task, paths, owner>> \in MergedIds
    BY <2>1 DEF MergedIds
  <2> QED BY <1>5, <2>2 DEF RecordIds
<1>8. new.kind \in Kinds /\ new.result \in Results /\ new.pattern \in Patterns
  BY <1>5 DEF Kinds, Results, Patterns
<1>9. RecordShape(new)
  BY <1>2, <1>5, <1>7, <1>8 DEF RecordShape
<1>10. new.origins = UNION {r.origins : r \in group}
  BY <1>6 DEF origins
<1> QED BY <1>3, <1>4, <1>5, <1>6, <1>9, <1>10, <1>11 DEF MergedFrom, new

LEMMA CompactedShape ==
    ASSUME StateIsTyped, NEW task \in {"", "memory_lifecycle_job"}, NEW owner \in Identities,
           Compacted(task, owner)
    PROVE  \E new, group, replaced : MergedFrom(new, group) /\ Merge(new, replaced)
<1>1. PICK group \in SUBSET Compactable : \E topic \in UNION {Topics(r) : r \in group} :
          Merge(Merged("memory_compaction_node", topic, task, owner, group,
                       IF topic[1] = "failure_pattern" THEN "failure" ELSE "project",
                       Strongest(group)), group)
  BY DEF Compacted
<1>2. PICK topic \in UNION {Topics(r) : r \in group} :
          Merge(Merged("memory_compaction_node", topic, task, owner, group,
                       IF topic[1] = "failure_pattern" THEN "failure" ELSE "project",
                       Strongest(group)), group)
  BY <1>1
<1> DEFINE kind == IF topic[1] = "failure_pattern" THEN "failure" ELSE "project"
           new == Merged("memory_compaction_node", topic, task, owner, group, kind, Strongest(group))
<1>3. group \subseteq memory
  BY DEF Compactable
<1>4. topic \in TopicSet
  <2>1. \A r \in group : RecordShape(r)
    BY <1>3 DEF StateIsTyped
  <2> QED BY <1>2, <2>1, TopicsOf
<1>5. kind \in {"project", "failure"} /\ "memory_compaction_node" \in Mergers
  BY DEF Mergers
<1> HIDE DEF kind
<1>6. MergedFrom(new, group)
  BY <1>3, <1>4, <1>5, MergedShape
<1>7. Merge(new, group)
  BY <1>2 DEF kind
<1> HIDE DEF new
<1> QED BY <1>6, <1>7

LEMMA MergesShape ==
    ASSUME StateIsTyped, Merges
    PROVE  \E new, group, replaced : MergedFrom(new, group) /\ Merge(new, replaced)
<1>1. identity \in Identities /\ JobIdentity \in Identities
  BY BoundsAssumption DEF StateIsTyped
<1>2. CASE Compact
  BY <1>1, <1>2, CompactedShape DEF Compact
<1>3. CASE JobCompacts
  BY <1>1, <1>3, CompactedShape DEF JobCompacts
<1>4. CASE Summarize
  <2>1. PICK group \in SUBSET Summarizable : \E newest \in group :
            Merge(Merged("memory_lifecycle_job", Stage(newest), "memory_lifecycle_job", newest.owner,
                         group, "project", "internal"), {newest})
    BY <1>4 DEF Summarize
  <2>2. PICK newest \in group :
            Merge(Merged("memory_lifecycle_job", Stage(newest), "memory_lifecycle_job", newest.owner,
                         group, "project", "internal"), {newest})
    BY <2>1
  <2>3. group \subseteq memory
    BY DEF Summarizable
  <2>4. Stage(newest) \in TopicSet /\ newest.owner \in Identities
    BY <2>3, TopicsOf DEF StateIsTyped, RecordShape
  <2>5. "memory_lifecycle_job" \in Mergers
    BY DEF Mergers
  <2>6. MergedFrom(Merged("memory_lifecycle_job", Stage(newest), "memory_lifecycle_job", newest.owner,
                          group, "project", "internal"), group)
    BY <2>3, <2>4, <2>5, MergedShape
  <2> QED BY <2>2, <2>6
<1> QED BY <1>2, <1>3, <1>4 DEF Merges, LifecycleJob

\* What becomes of another record: at most, it is superseded.
Marked(r, new, replaced) ==
    [r EXCEPT !.status = IF r \in replaced \/ (r.key = new.key /\ @ = "active")
                         THEN "superseded" ELSE @]

LEMMA MarkedFields ==
    ASSUME NEW r, RecordShape(r), NEW new, NEW replaced
    PROVE  LET s == Marked(r, new, replaced)
           IN  /\ RecordShape(s) /\ s.id = r.id /\ s.tool = r.tool /\ s.result = r.result
               /\ s.sensitivity = r.sensitivity /\ s.visibility = r.visibility /\ s.source = r.source
               /\ s.origins = r.origins /\ (s.summarized <=> r.summarized)
               /\ s.policy = r.policy /\ s.value = r.value /\ s.status \in {r.status, "superseded"}
<1> DEFINE s == Marked(r, new, replaced)
           v == IF r \in replaced \/ (r.key = new.key /\ r.status = "active")
                THEN "superseded" ELSE r.status
<1>1. DOMAIN r = RecordFields
  BY DEF RecordShape
<1>2. s = [r EXCEPT !["status"] = v]
  BY DEF Marked
<1>3. v \in {r.status, "superseded"}
  OBVIOUS
<1> HIDE DEF v, s
<1>4. DOMAIN s = RecordFields /\ \A f \in RecordFields : s[f] = IF f = "status" THEN v ELSE r[f]
  BY <1>1, <1>2
<1>5. /\ s.id = r.id /\ s.owner = r.owner /\ s.kind = r.kind /\ s.tool = r.tool
      /\ s.result = r.result /\ s.paths = r.paths /\ s.pattern = r.pattern
      /\ s.sensitivity = r.sensitivity /\ s.visibility = r.visibility /\ s.source = r.source
      /\ s.origins = r.origins /\ s.summarized = r.summarized
      /\ s.policy = r.policy /\ s.value = r.value /\ s.status = v
  BY <1>4 DEF RecordFields
<1>6. RecordShape(s)
  BY <1>4, <1>5 DEF RecordShape
<1> QED BY <1>3, <1>5, <1>6 DEF s

LEMMA MergedRecords ==
    ASSUME NEW new, NEW replaced, Merge(new, replaced)
    PROVE  /\ new \in memory' /\ aged' = aged \ {new.id}
           /\ \A s \in memory' : s = new \/ \E r \in memory :
                  r.id # new.id /\ s = Marked(r, new, replaced)
           /\ \A r \in memory : r.id # new.id => Marked(r, new, replaced) \in memory'
BY DEF Merge, Marked

LEMMA MergedIsFinite ==
    ASSUME NEW new, NEW replaced, Merge(new, replaced), IsFiniteSet(memory)
    PROVE  IsFiniteSet(memory')
<1> DEFINE f == [r \in memory |-> Marked(r, new, replaced)]
           T == {Marked(r, new, replaced) : r \in memory}
<1>1. f \in Surjection(memory, T)
  BY DEF Surjection
<1> HIDE DEF f
<1>2. IsFiniteSet(T)
  BY <1>1, FS_Surjection
<1>3. IsFiniteSet(T \cup {new})
  BY <1>2, FS_AddElement
<1>4. memory' \in SUBSET (T \cup {new})
  BY MergedRecords
<1> HIDE DEF T
<1> QED BY <1>3, <1>4, FS_Subset

\* Every other step leaves the records alone.
LEMMA OthersKeepRecords ==
    ASSUME [Next]_vars, ~WriteMemory, ~Merges
    PROVE  UNCHANGED memory
BY DEF Next, vars, StartRun, Retriever, Retrieve, RecordUse, RetrieverEnds, Commit, Writer, ReadUses,
       CloseUse, GiveFeedback, WriterEnds, Compaction, CompactionEnds, Merges, EndRun, Crash, Ages

LEMMA OutcomeType ==
    ASSUME NEW e, NEW recovery, NEW done
    PROVE  OutcomeFor(e, recovery, done) \in [usage : UsageOutcomes, signal : Signals]
BY DEF OutcomeFor, UsageOutcomes, Signals

\* What is retrieved: records of the store within the budget, none of them sensitive.
LEMMA RetrieveShape ==
    ASSUME StateIsTyped, Retrieve
    PROVE  \/ at' = "failed" /\ UNCHANGED <<context, todo>>
           \/ /\ at' = "recording"
              /\ context' \subseteq {r \in Candidates : PromptAllowed(r)}
              /\ todo' \in Seq(RecordIds) /\ Len(todo') \in Nat /\ Len(todo') <= MaxRetrieved
<1>1. PICK hits \in Reranked :
          IF AuditFails(hits) THEN at' = "failed" /\ UNCHANGED <<context, todo>>
          ELSE /\ at' = "recording"
               /\ context' = {r \in hits : PromptAllowed(r)}
               /\ todo' = SetToSeq({r.id : r \in context'})
  BY DEF Retrieve
<1>2. CASE AuditFails(hits)
  BY <1>1, <1>2
<1>3. CASE ~AuditFails(hits)
  <2>1. hits \subseteq Candidates /\ Cardinality(hits) <= MaxRetrieved
    BY DEF Reranked
  <2>2. IsFiniteSet(hits) /\ Cardinality(hits) \in Nat
    <3>1. hits \in SUBSET memory
      BY <2>1 DEF Candidates
    <3> QED BY <3>1, FS_Subset, FS_CardinalityType DEF StateIsTyped
  <2>3. /\ context' \in SUBSET hits /\ IsFiniteSet(context')
        /\ Cardinality(context') \in Nat /\ Cardinality(context') <= Cardinality(hits)
    <3>1. context' \in SUBSET hits
      BY <1>1, <1>3
    <3> QED BY <2>2, <3>1, FS_Subset, FS_CardinalityType
  <2> DEFINE ids == {r.id : r \in context'}
  <2>4. /\ IsFiniteSet(ids) /\ Cardinality(ids) \in Nat
        /\ Cardinality(ids) <= Cardinality(context')
    BY <2>3, IdsAreFinite, FS_CardinalityType
  <2>5. ids \subseteq RecordIds
    BY <2>1, <2>3 DEF Candidates, StateIsTyped, RecordShape
  <2>6. todo' = SetToSeq(ids)
    BY <1>1, <1>3
  <2> HIDE DEF ids
  <2>7. todo' \in Seq(ids) /\ Len(todo') = Cardinality(ids)
    BY <2>4, <2>6, SetToSeqElements
  <2>8. todo' \in Seq(RecordIds)
    BY <2>5, <2>7
  <2>9. Len(todo') <= MaxRetrieved
    BY <2>1, <2>2, <2>3, <2>4, <2>7, BoundsAssumption
  <2>10. context' \subseteq {r \in Candidates : PromptAllowed(r)}
    BY <1>1, <1>3, <2>1
  <2> QED BY <1>1, <1>3, <2>4, <2>7, <2>8, <2>9, <2>10
<1> QED BY <1>1, <1>2, <1>3

LEMMA StateIsTypedStep ==
    ASSUME StateIsTyped, TypeOK, [Next]_vars
    PROVE  StateIsTyped'
<1>1. CASE StartRun
  BY <1>1 DEF StartRun, StateIsTyped
<1>2. CASE Retrieve
  <2>1. todo' \in Seq(RecordIds) /\ at' \in {"failed", "recording"}
    BY <1>2, RetrieveShape DEF StateIsTyped
  <2> QED BY <1>2, <2>1 DEF Retrieve, StateIsTyped
<1>3. CASE RecordUse
  <2>1. Head(todo) \in RecordIds /\ Tail(todo) \in Seq(RecordIds)
    BY <1>3 DEF RecordUse, StateIsTyped
  <2>2. UsageEvent(Head(todo), "pending") \in UsageEvents
    BY <2>1 DEF UsageEvent, UsageEvents, StateIsTyped
  <2>3. usage' \in Seq(UsageEvents)
    BY <1>3, <2>2 DEF RecordUse, StateIsTyped
  <2> QED BY <1>3, <2>1, <2>3 DEF RecordUse, StateIsTyped
<1>4. CASE RetrieverEnds
  BY <1>4 DEF RetrieverEnds, StateIsTyped
<1>5. CASE Commit
  <2>1. PICK e \in Experiences, kept \in BOOLEAN, recovery \in {"none", "replan"} :
            /\ outcome' = OutcomeFor(e, recovery, e.done)
            /\ pending' = IF kept THEN e ELSE None
            /\ succeeded' = IF kept /\ e.result = "success"
                            THEN [succeeded EXCEPT ![e.tool] = @ + 1] ELSE succeeded
    BY <1>5 DEF Commit
  <2>2. outcome' \in [usage : UsageOutcomes, signal : Signals]
    BY <2>1, OutcomeType
  <2>3. succeeded' \in [Tools -> Nat] /\ pending' \in Experiences \cup {None}
    BY <2>1 DEF StateIsTyped, Tools
  <2> QED BY <1>5, <2>2, <2>3 DEF Commit, StateIsTyped
<1>6. CASE ReadUses
  <2>1. LastOf(usage) \subseteq DOMAIN usage
    BY DEF LastOf
  <2>2. OpenUses \in Seq(UsageEvents)
    BY <2>1, KeptElements DEF OpenUses, Noted, StateIsTyped
  <2> DEFINE uses == OpenUses
  <2> HIDE DEF uses
  <2>3. [i \in DOMAIN uses |-> uses[i].id] \in Seq(RecordIds)
    <3>1. uses \in Seq(UsageEvents) /\ Len(uses) \in Nat /\ DOMAIN uses = 1..Len(uses)
      BY <2>2 DEF uses
    <3>2. \A i \in 1..Len(uses) : uses[i] \in UsageEvents
      BY <3>1
    <3>3. \A i \in 1..Len(uses) : uses[i].id \in RecordIds
      BY <3>2 DEF UsageEvents
    <3> QED BY <3>1, <3>3
  <2>4. todo' \in Seq(RecordIds)
    BY <1>6, <2>3 DEF ReadUses, uses
  <2> QED BY <1>6, <2>4 DEF ReadUses, StateIsTyped
<1>7. CASE CloseUse
  <2>1. Head(todo) \in RecordIds /\ outcome.usage \in UsageOutcomes
    BY <1>7 DEF CloseUse, StateIsTyped
  <2>2. UsageEvent(Head(todo), outcome.usage) \in UsageEvents
    BY <2>1 DEF UsageEvent, UsageEvents, StateIsTyped
  <2>3. usage' \in Seq(UsageEvents)
    BY <1>7, <2>2 DEF CloseUse, StateIsTyped
  <2> QED BY <1>7, <2>3 DEF CloseUse, StateIsTyped
<1>8. CASE GiveFeedback /\ todo # <<>>
  <2>1. Head(todo) \in RecordIds /\ Tail(todo) \in Seq(RecordIds) /\ outcome.signal \in Signals
    BY <1>8 DEF GiveFeedback, StateIsTyped
  <2>2. [run |-> run, id |-> Head(todo), signal |-> outcome.signal] \in FeedbackEvents
    BY <2>1 DEF FeedbackEvents, StateIsTyped
  <2>3. feedback' \in Seq(FeedbackEvents)
    BY <1>8, <2>2 DEF GiveFeedback, StateIsTyped
  <2> QED BY <1>8, <2>1, <2>3 DEF GiveFeedback, StateIsTyped
<1>9. CASE WriteMemory
  <2>1. /\ UNCHANGED <<usage, feedback, run, identity, tasks, todo, half, pending, outcome,
                       crashed, succeeded>>
        /\ at = "judging"
        /\ UNCHANGED <<memory, aged>> \/ \E new : Writes(new)
    BY <1>9, WriteShape
  <2>2. ASSUME NEW new, Writes(new)
        PROVE  IsFiniteSet(memory') /\ \A r \in memory' : RecordShape(r)
    <3>1. RecordShape(new)
      BY <2>2, NewRecord DEF Writes
    <3>2. memory' = {r \in memory : r.id # new.id} \cup {new}
      BY <2>2 DEF Writes, Upserted
    <3>3. IsFiniteSet({r \in memory : r.id # new.id})
      BY FS_Subset DEF StateIsTyped
    <3> QED BY <3>1, <3>2, <3>3, FS_AddElement DEF StateIsTyped
  <2>3. at' = "written"
    BY <1>9, WriteShape
  <2>4. IsFiniteSet(memory') /\ \A r \in memory' : RecordShape(r)
    BY <2>1, <2>2 DEF StateIsTyped
  <2> QED BY <2>1, <2>3, <2>4 DEF StateIsTyped
<1>10. CASE WriterEnds
  BY <1>10 DEF WriterEnds, StateIsTyped
<1>11. CASE EndRun
  BY <1>11 DEF EndRun, StateIsTyped
<1>12. CASE Crash
  <2>1. crashed' \in Seq(Nat)
    BY <1>12 DEF Crash, StateIsTyped
  <2>2. /\ at' \in {"retrieving", "closing", "compacting", "idle"}
        /\ at' = "closing" => at \in {"judging", "written"}
    BY <1>12 DEF Crash
  <2>3. todo' = <<>> /\ half' = FALSE
        /\ UNCHANGED <<memory, usage, feedback, run, identity, tasks, pending, outcome, succeeded>>
    BY <1>12 DEF Crash
  <2>4. todo' \in Seq(RecordIds)
    BY <2>3
  <2> QED BY <2>1, <2>2, <2>3, <2>4 DEF StateIsTyped
<1>13. CASE Ages
  BY <1>13 DEF Ages, runState, StateIsTyped
<1>14. CASE UNCHANGED vars
  BY <1>14 DEF vars, runState, StateIsTyped
<1>15. GiveFeedback => todo # <<>>
  BY DEF GiveFeedback, TypeOK
<1>16. CASE CompactionEnds
  BY <1>16 DEF CompactionEnds, StateIsTyped
<1>17. CASE Merges
  <2>1. UNCHANGED <<usage, feedback, run, identity, at, tasks, todo, half, pending, outcome,
                    crashed, succeeded>>
    BY <1>17, MergesKeepTheRest
  <2>2. PICK new, group, replaced : MergedFrom(new, group) /\ Merge(new, replaced)
    BY <1>17, MergesShape
  <2>3. IsFiniteSet(memory')
    BY <2>2, MergedIsFinite DEF StateIsTyped
  <2>4. ASSUME NEW s \in memory' PROVE RecordShape(s)
    <3>1. CASE s = new
      BY <2>2, <3>1 DEF MergedFrom
    <3>2. CASE \E r \in memory : s = Marked(r, new, replaced)
      BY <3>2, MarkedFields DEF StateIsTyped
    <3> QED BY <2>2, <3>1, <3>2, MergedRecords
  <2> QED BY <2>1, <2>3, <2>4 DEF StateIsTyped
<1> QED BY <1>1, <1>2, <1>3, <1>4, <1>5, <1>6, <1>7, <1>8, <1>9, <1>10, <1>11, <1>12, <1>13, <1>14,
           <1>15, <1>16, <1>17
        DEF Next, Retriever, Writer, Compaction, Merges

LEMMA TypeStep ==
    ASSUME StateIsTyped, TypeOK, [Next]_vars
    PROVE  TypeOK'
<1>1. ASSUME UNCHANGED <<memory, aged, todo, half>>,
             todo # <<>> => at' \in {"recording", "judging"},
             half => at' = "judging"
      PROVE  TypeOK'
  BY <1>1 DEF TypeOK
<1>2. CASE Retrieve
  <2>1. todo = <<>> /\ ~half
    BY <1>2 DEF Retrieve, TypeOK
  <2>2. UNCHANGED <<memory, aged, half>> /\ (at' = "recording" \/ UNCHANGED todo)
    BY <1>2, RetrieveShape DEF Retrieve
  <2> QED BY <2>1, <2>2 DEF TypeOK
<1>3. CASE RecordUse
  BY <1>3 DEF RecordUse, TypeOK
<1>4. CASE ReadUses
  BY <1>4 DEF ReadUses, TypeOK
<1>5. CASE CloseUse
  BY <1>5 DEF CloseUse, TypeOK
<1>6. CASE GiveFeedback
  BY <1>6 DEF GiveFeedback, TypeOK
<1>7. CASE WriteMemory
  <2>1. CASE UNCHANGED <<memory, aged>>
    BY <1>7, <2>1, WriteShape DEF TypeOK
  <2>2. CASE \E new : Writes(new)
    <3>1. PICK new : /\ memory' = {r \in memory : r.id # new.id} \cup {new}
                     /\ aged' = aged \ {new.id}
      BY <2>2 DEF Writes, Upserted
    <3>2. \A r, s \in memory' : r.id = s.id => r = s
      BY <3>1 DEF TypeOK
    <3>3. aged' \subseteq {r.id : r \in memory'}
      BY <3>1 DEF TypeOK
    <3> QED BY <1>7, <3>2, <3>3, WriteShape DEF TypeOK
  <2> QED BY <1>7, <2>1, <2>2, WriteShape
<1>8. CASE Crash
  BY <1>8 DEF Crash, TypeOK
<1>9. CASE Ages
  BY <1>9 DEF Ages, runState, TypeOK
<1>10. CASE StartRun
  BY <1>1, <1>10 DEF StartRun, TypeOK
<1>11. CASE RetrieverEnds
  BY <1>1, <1>11 DEF RetrieverEnds, TypeOK
<1>12. CASE Commit
  BY <1>1, <1>12 DEF Commit, TypeOK
<1>13. CASE WriterEnds
  BY <1>1, <1>13 DEF WriterEnds, TypeOK
<1>14. CASE EndRun
  BY <1>1, <1>14 DEF EndRun, TypeOK
<1>15. CASE UNCHANGED vars
  BY <1>15 DEF vars, runState, TypeOK
<1>16. CASE CompactionEnds
  BY <1>1, <1>16 DEF CompactionEnds, TypeOK
<1>17. CASE Merges
  <2>1. UNCHANGED <<at, todo, half>>
    BY <1>17, MergesKeepTheRest
  <2>2. PICK new, replaced : Merge(new, replaced)
    BY <1>17, MergesShape
  <2>3. \A r \in memory : Marked(r, new, replaced).id = r.id
    BY MarkedFields DEF StateIsTyped
  <2>4. ASSUME NEW r \in memory', NEW s \in memory', r.id = s.id PROVE r = s
    BY <2>2, <2>3, <2>4, MergedRecords DEF TypeOK
  <2>5. ASSUME NEW id \in aged' PROVE id \in {r.id : r \in memory'}
    <3>1. id \in aged /\ id # new.id
      BY <2>2, MergedRecords
    <3>2. PICK r \in memory : r.id = id
      BY <3>1 DEF TypeOK
    <3> QED BY <2>2, <2>3, <3>1, <3>2, MergedRecords
  <2> QED BY <2>1, <2>4, <2>5 DEF TypeOK
<1> QED BY <1>2, <1>3, <1>4, <1>5, <1>6, <1>7, <1>8, <1>9, <1>10, <1>11, <1>12, <1>13, <1>14, <1>15,
           <1>16, <1>17
        DEF Next, Retriever, Writer, Compaction, Merges

LEMMA InitialState == Init => StateIsTyped /\ TypeOK
<1> SUFFICES ASSUME Init PROVE StateIsTyped /\ TypeOK
  OBVIOUS
<1>1. IsFiniteSet(memory) /\ \A r \in memory : RecordShape(r)
  BY FS_EmptySet DEF Init
<1>2. usage \in Seq(UsageEvents) /\ feedback \in Seq(FeedbackEvents) /\ todo \in Seq(RecordIds)
  BY DEF Init
<1>3. crashed \in Seq(Nat)
  BY DEF Init
<1>4. succeeded \in [Tools -> Nat]
  BY DEF Init, Tools
<1>5. StateIsTyped
  BY <1>1, <1>2, <1>3, <1>4 DEF Init, StateIsTyped
<1>6. TypeOK
  BY DEF Init, TypeOK
<1> QED BY <1>5, <1>6

Typed == StateIsTyped /\ TypeOK

LEMMA TypedHolds == Spec => []Typed
<1>1. Typed /\ [Next]_vars => Typed'
  BY StateIsTypedStep, TypeStep DEF Typed
<1>2. Init => Typed
  BY InitialState DEF Typed
<1> QED BY <1>1, <1>2, PTL DEF Spec

(***************************************************************************)
(* THEOREM: one record for each id, and the node in flight has begun what  *)
(* it still has to do.                                                     *)
(***************************************************************************)
THEOREM TypeCorrect == Spec => []TypeOK
<1>1. Typed => TypeOK
  BY DEF Typed
<1> QED BY <1>1, TypedHolds, PTL

(***************************************************************************)
(* What a run is shown.  The labels the writer gave the records decide it. *)
(***************************************************************************)
Clean(r) == \A o \in r.origins : o.findings = "none" /\ o.tool # "secret_scan"

RecordsAreLabelled ==
    \A r \in memory :
        /\ r.sensitivity \in {"internal", "confidential", "secret"}
        /\ ~r.summarized /\ r.sensitivity = "internal" => Clean(r)
        /\ r.visibility \in {"project", "retrieval_only"}

LEMMA LabelledStep ==
    ASSUME Typed, RecordsAreLabelled, [Next]_vars
    PROVE  RecordsAreLabelled'
<1>1. CASE UNCHANGED memory
  BY <1>1 DEF RecordsAreLabelled, Clean
<1>2. CASE WriteMemory /\ ~UNCHANGED memory
  <2>1. PICK new : Writes(new)
    BY <1>2, WriteShape DEF Typed
  <2>2. PICK judge \in JudgeAnswers : new = MemoryRecord(pending, judge)
    BY <2>1 DEF Writes
  <2>3. pending \in Experiences /\ StateIsTyped
    BY <2>1 DEF Writes, Typed
  <2>4. /\ new.origins = {[findings |-> pending.findings, tool |-> pending.tool]}
        /\ new.sensitivity = Sensitivity(pending) /\ new.visibility = Visibility(pending)
    BY ONLY <2>2, <2>3, NewRecord
  <2>5. /\ new.sensitivity \in {"internal", "confidential", "secret"}
        /\ new.sensitivity = "internal" => Clean(new)
    BY <2>3, <2>4, SensitivityOf DEF Clean
  <2>6. new.visibility \in {"project", "retrieval_only"}
    BY <2>4 DEF Visibility
  <2> QED BY <2>1, <2>5, <2>6 DEF Writes, Upserted, RecordsAreLabelled
<1>3. CASE Merges
  <2>1. PICK new, group, replaced : MergedFrom(new, group) /\ Merge(new, replaced)
    BY <1>3, MergesShape DEF Typed
  <2>2. /\ group \subseteq memory /\ new.origins = UNION {r.origins : r \in group}
        /\ new.sensitivity \in {"internal", "confidential", "secret"}
        /\ ~new.summarized => new.sensitivity = Strongest(group) /\ \A r \in group : ~r.summarized
        /\ new.visibility = "project"
    BY <2>1 DEF MergedFrom
  <2>3. ASSUME ~new.summarized, new.sensitivity = "internal" PROVE Clean(new)
    <3>1. \A r \in group : r.sensitivity \notin {"secret", "confidential"}
      BY <2>2, <2>3 DEF Strongest
    <3>2. \A r \in group : Clean(r)
      BY <2>2, <2>3, <3>1 DEF RecordsAreLabelled
    <3> QED BY <2>2, <3>2 DEF Clean
  <2>4. ASSUME NEW s \in memory', s # new
        PROVE  \E r \in memory : /\ s.sensitivity = r.sensitivity /\ s.visibility = r.visibility
                                 /\ s.origins = r.origins /\ (s.summarized <=> r.summarized)
    <3>1. PICK r \in memory : s = Marked(r, new, replaced)
      BY <2>1, <2>4, MergedRecords
    <3>2. /\ s.sensitivity = r.sensitivity /\ s.visibility = r.visibility /\ s.origins = r.origins
          /\ s.summarized <=> r.summarized
      BY <3>1, MarkedFields DEF Typed, StateIsTyped
    <3> QED BY <3>2, Zenon
  <2>5. ASSUME NEW s \in memory'
        PROVE  /\ s.sensitivity \in {"internal", "confidential", "secret"}
               /\ ~s.summarized /\ s.sensitivity = "internal" => Clean(s)
               /\ s.visibility \in {"project", "retrieval_only"}
    <3>1. CASE s = new
      BY <2>2, <2>3, <3>1
    <3>2. CASE s # new
      BY <2>4, <3>2 DEF RecordsAreLabelled, Clean
    <3> QED BY <3>1, <3>2
  <2> QED BY <2>5 DEF RecordsAreLabelled
<1> QED BY <1>1, <1>2, <1>3, OthersKeepRecords

LEMMA GovernedStep ==
    ASSUME Typed, RecordsAreLabelled, ContextIsGoverned, [Next]_vars
    PROVE  ContextIsGoverned'
<1>1. CASE Retrieve
  <2> SUFFICES ASSUME at' = "recording", NEW r \in context'
               PROVE  /\ \A f \in {"tenant", "workspace", "project"} : r.owner[f] = identity[f]
                      /\ r.policy # "pinned" => r.id \notin aged
                      /\ ~r.summarized => Clean(r)
    BY <1>1 DEF ContextIsGoverned, Retrieve, Clean
  <2>1. r \in memory /\ Usable(r) /\ Visible(r) /\ PromptAllowed(r)
    BY <1>1, RetrieveShape DEF Candidates, Typed
  <2>2. r.sensitivity = "internal" /\ r.visibility = "project"
    BY <2>1 DEF RecordsAreLabelled, PromptAllowed
  <2>3. ~r.summarized => Clean(r)
    BY <2>1, <2>2 DEF RecordsAreLabelled
  <2>4. SharedFields(r.visibility) = {"tenant", "workspace", "project"}
    BY <2>2 DEF SharedFields
  <2>5. \A f \in {"tenant", "workspace", "project"} : r.owner[f] = identity[f]
    BY <2>1, <2>4 DEF Visible
  <2> QED BY <2>1, <2>3, <2>5 DEF Usable, Retained
<1>2. ASSUME at' = "recording" =>
                 at = "recording" /\ UNCHANGED <<context, identity>> /\ aged' \subseteq aged
      PROVE  ContextIsGoverned'
  BY <1>2 DEF ContextIsGoverned
<1>3. CASE WriteMemory
  BY <1>2, <1>3, WriteShape DEF Typed
<1>4. CASE Merges
  <2>1. UNCHANGED <<at, context, identity>>
    BY <1>4, MergesKeepTheRest
  <2>2. aged' \subseteq aged
    BY <1>4, MergesShape, MergedRecords DEF Typed
  <2> QED BY <1>2, <2>1, <2>2
<1>5. CASE [Next]_vars /\ ~Retrieve /\ ~WriteMemory /\ ~Merges
  <2>1. at' = "recording" => at = "recording" /\ UNCHANGED <<context, identity, aged>>
    BY <1>5 DEF Next, vars, runState, StartRun, Retriever, RecordUse, RetrieverEnds, Commit,
                Writer, ReadUses, CloseUse, GiveFeedback, WriterEnds, Compaction, CompactionEnds,
                Merges, EndRun, Crash, Ages
  <2> QED BY <1>2, <2>1
<1> QED BY <1>1, <1>3, <1>4, <1>5

(***************************************************************************)
(* THEOREM: whatever is compacted and summarised, a run is shown only      *)
(* records that name its own tenant, workspace and project and have not    *)
(* expired; and no text of an experience with a secret or personal data in *)
(* it is in them, unless a summary of the lifecycle job carried it there.  *)
(***************************************************************************)
THEOREM RunsSeeOnlyWhatTheyMay == Spec => []ContextIsGoverned
<1> DEFINE Inv == RecordsAreLabelled /\ ContextIsGoverned
<1>1. Init => Inv
  BY DEF Init, RecordsAreLabelled, ContextIsGoverned
<1>2. Typed /\ Inv /\ [Next]_vars => Inv'
  BY LabelledStep, GovernedStep
<1>3. Inv => ContextIsGoverned
  OBVIOUS
<1> HIDE DEF Inv
<1> QED BY <1>1, <1>2, <1>3, TypedHolds, PTL DEF Spec

(***************************************************************************)
(* The scores.                                                             *)
(***************************************************************************)
LEMMA Hundredths ==
    ASSUME NEW n \in Int, NEW low \in Int, NEW high \in Int, 100 * low <= n, n <= 100 * high + 99
    PROVE  n \div 100 \in Int /\ low <= n \div 100 /\ n \div 100 <= high
OBVIOUS

LEMMA ClampedBounds ==
    ASSUME NEW x \in Int, NEW low \in 0..10000, NEW high \in 0..10000, low <= x, x <= high
    PROVE  Clamped(x) \in Int /\ low <= Clamped(x) /\ Clamped(x) <= high
BY DEF Clamped

LEMMA ClampedRange ==
    ASSUME NEW x \in Int
    PROVE  Clamped(x) \in Int /\ 0 <= Clamped(x) /\ Clamped(x) <= 10000
BY DEF Clamped

LEMMA RetentionOf ==
    ASSUME NEW p, p.tool = "secret_scan" => ~p.evidence
    PROVE  /\ Retention(p).policy \in {"ttl", "long_term"}
           /\ Retention(p).importance \in Int
           /\ 5000 <= Retention(p).importance /\ Retention(p).importance <= 9000
           /\ Retention(p).policy = "ttl" => /\ Retention(p).importance <= 7500
                                            /\ ~(p.result = "success" /\ p.evidence)
BY DEF Retention, Keep, BadResults

LEMMA DecayOf ==
    ASSUME NEW p
    PROVE  Decay(p) \in Int /\ 0 <= Decay(p) /\ Decay(p) <= 2500 /\ (Retention(p).policy = "ttl" => Decay(p) >= 1000)
BY DEF Decay

LEMMA PointsOf ==
    ASSUME NEW condition \in BOOLEAN, NEW points \in Int
    PROVE  /\ Points(condition, points) \in Int
           /\ condition => Points(condition, points) = points
           /\ ~condition => Points(condition, points) = 0
BY DEF Points

LEMMA AccurateOf ==
    ASSUME NEW p
    PROVE  /\ Accurate(p) \in Int /\ 4500 <= Accurate(p) /\ Accurate(p) <= 9600
           /\ p.result = "success" => Accurate(p) >= 7200
           /\ ~(p.result = "success" /\ p.evidence) => Accurate(p) <= 8400
<1> DEFINE s == Points(p.result = "success", 1200)
           e == Points(p.evidence, 1200)
           r == Points(~p.reason, 1200)
           f == Points(p.result \in {"failed", "blocked"} /\ ~p.data, 1500)
<1>1. s \in {0, 1200} /\ (p.result = "success" => s = 1200) /\ (p.result # "success" => s = 0)
  BY DEF Points
<1>2. e \in {0, 1200} /\ (~p.evidence => e = 0)
  BY DEF Points
<1>3. r \in {0, 1200}
  BY DEF Points
<1>4. f \in {0, 1500} /\ (p.result = "success" => f = 0)
  BY DEF Points
<1>5. Accurate(p) = Clamped(7200 + s + e - r - f)
  BY DEF Accurate
<1> HIDE DEF s, e, r, f
<1> DEFINE sum == 7200 + s + e - r - f
<1>6. /\ sum \in Int /\ 4500 <= sum /\ sum <= 9600
      /\ p.result = "success" => sum >= 7200
      /\ ~(p.result = "success" /\ p.evidence) => sum <= 8400
  BY <1>1, <1>2, <1>3, <1>4
<1> HIDE DEF sum
<1>7. Clamped(sum) = sum
  BY <1>6 DEF Clamped
<1> QED BY <1>5, <1>6, <1>7 DEF sum

LEMMA QualityOf ==
    ASSUME NEW p
    PROVE  /\ Quality(p) \in Int /\ 3600 <= Quality(p) /\ Quality(p) <= 10000
           /\ ~(p.result = "success" /\ p.evidence) => Quality(p) <= 9030
           /\ p.result = "success" => Quality(p) >= 4400
<1> DEFINE a == 22 * Accurate(p)
           d == 10 * (10000 - Decay(p))
           w == (16 + 16) * WordScore(p)
           e == 12 * (IF p.evidence THEN 10000 ELSE 3500)
           v == 10 * Proven(p)
           sum == a + d + w + 14 * 8500 + e + v
<1>1. /\ a \in Int /\ 99000 <= a /\ a <= 211200
      /\ p.result = "success" => a >= 158400
      /\ ~(p.result = "success" /\ p.evidence) => a <= 184800
  <2>1. /\ Accurate(p) \in Int /\ 4500 <= Accurate(p) /\ Accurate(p) <= 9600
        /\ p.result = "success" => Accurate(p) >= 7200
        /\ ~(p.result = "success" /\ p.evidence) => Accurate(p) <= 8400
    BY AccurateOf
  <2> QED BY <2>1
<1>2. d \in Int /\ 75000 <= d /\ d <= 100000
  <2>1. Decay(p) \in Int /\ 0 <= Decay(p) /\ Decay(p) <= 2500
    BY DecayOf
  <2> QED BY <2>1
<1>3. w \in Int /\ 0 <= w /\ w <= 320000
  BY DEF WordScore
<1>4. e \in Int /\ 42000 <= e /\ e <= 120000
  OBVIOUS
<1>5. /\ v \in Int /\ 25000 <= v /\ v <= 100000
      /\ p.result = "success" => v >= 55000
      /\ ~(p.result = "success" /\ p.evidence) => v <= 55000
  BY DEF Proven, BadResults
<1>6. Quality(p) = Clamped(sum \div 100)
  BY DEF Quality
<1> HIDE DEF a, d, w, e, v
<1>7. /\ sum \in Int /\ 360000 <= sum /\ sum <= 1000000
      /\ ~(p.result = "success" /\ p.evidence) => sum <= 903099
      /\ p.result = "success" => sum >= 440000
  BY <1>1, <1>2, <1>3, <1>4, <1>5
<1> HIDE DEF sum
<1>8. /\ sum \div 100 \in Int /\ 3600 <= sum \div 100 /\ sum \div 100 <= 10000
      /\ ~(p.result = "success" /\ p.evidence) => sum \div 100 <= 9030
      /\ p.result = "success" => sum \div 100 >= 4400
  BY <1>7
<1>9. Clamped(sum \div 100) = sum \div 100
  BY <1>8 DEF Clamped
<1> QED BY <1>6, <1>8, <1>9

LEMMA TrustOf ==
    ASSUME NEW p, p.tool = "secret_scan" => ~p.evidence,
           NEW uses, uses.positive \in Nat, uses.negative \in Nat
    PROVE  /\ Trust(p, uses) \in Int /\ 0 <= Trust(p, uses) /\ Trust(p, uses) <= 10000
           /\ Retention(p).policy = "ttl" => Trust(p, uses) <= 9150
           /\ p.result = "success" => Trust(p, uses) >= 2000
<1> DEFINE i == Retention(p).importance
           base == (45 * Confidence(p) + 20 * i) \div 100
           result == Points(p.result = "success", 1800) - Points(p.result \in BadResults, 800)
           evidence == Points(p.evidence, 1800)
           privacy == Points(Sensitivity(p) \in {"confidential", "secret"}, 500)
           good == AtMost(1800, 600 * uses.positive)
           bad == AtMost(2500, 800 * uses.negative)
<1>1. i \in Int /\ 5000 <= i /\ i <= 9000 /\ (Retention(p).policy = "ttl" => i <= 7500)
  BY RetentionOf
<1>2. /\ p.result = "success" => Confidence(p) = 9000
      /\ p.result # "success" => Confidence(p) = 6500
  BY DEF Confidence
<1> HIDE DEF i
<1>3. /\ base \in Int /\ 3925 <= base /\ base <= 5850
      /\ p.result # "success" => base <= 4725
      /\ p.result = "success" => base >= 5050
      /\ i <= 7500 => base <= 5550
  BY <1>1, <1>2
<1>4. /\ result \in Int /\ -800 <= result /\ result <= 1800
      /\ p.result = "success" => result = 1800
      /\ p.result # "success" => result <= 0
  BY DEF Points, BadResults
<1>5. evidence \in Int /\ 0 <= evidence /\ evidence <= 1800 /\ (~p.evidence => evidence = 0)
  BY DEF Points
<1>6. privacy \in Int /\ 0 <= privacy /\ privacy <= 500
  BY DEF Points
<1>7. good \in Int /\ 0 <= good /\ good <= 1800
  BY DEF AtMost
<1>8. bad \in Int /\ 0 <= bad /\ bad <= 2500
  BY DEF AtMost
<1>9. Trust(p, uses) = Clamped(base + result + evidence - privacy + good - bad)
  <2>1. Trust(p, uses) =
          Clamped(base + Points(p.result = "success", 1800) - Points(p.result \in BadResults, 800)
                    + evidence - privacy + good - bad)
    BY DEF Trust, i
  <2>2. Points(p.result = "success", 1800) \in Int /\ Points(p.result \in BadResults, 800) \in Int
    BY DEF Points
  <2> HIDE DEF base, evidence, privacy, good, bad
  <2> QED BY <1>3, <1>5, <1>6, <1>7, <1>8, <2>1, <2>2
<1>10. Retention(p).policy = "ttl" => ~(p.result = "success" /\ p.evidence)
  BY RetentionOf
<1> HIDE DEF base, result, evidence, privacy, good, bad
<1> QED BY <1>1, <1>3, <1>4, <1>5, <1>6, <1>7, <1>8, <1>9, <1>10 DEF Clamped

LEMMA ImportanceOf ==
    ASSUME NEW p, p.tool = "secret_scan" => ~p.evidence, NEW judge, NEW repairs,
           NEW uses, uses.positive \in Nat, uses.negative \in Nat
    PROVE  LET importance == ProfiledImportance(p, AdjustedImportance(p, uses, judge), repairs)
           IN  /\ importance \in Int /\ importance <= 10000
               /\ Retention(p).policy = "ttl" => importance <= 9384
<1> DEFINE i == Retention(p).importance
           mixed == Clamped((55 * i + 30 * Quality(p) + 15 * (10000 - Decay(p))) \div 100)
           praised == Clamped(mixed + AtMost(1200, 400 * uses.positive))
           blamed == Clamped(praised - AtMost(1800, 600 * uses.negative))
           adjusted == AdjustedImportance(p, uses, judge)
<1>1. i \in Int /\ 5000 <= i /\ i <= 9000 /\ (Retention(p).policy = "ttl" => i <= 7500)
  BY RetentionOf
<1>2. /\ Quality(p) \in Int /\ 3600 <= Quality(p) /\ Quality(p) <= 10000
      /\ Retention(p).policy = "ttl" => Quality(p) <= 9030
  BY QualityOf, RetentionOf
<1>3. /\ Decay(p) \in Int /\ 0 <= Decay(p) /\ Decay(p) <= 2500
      /\ Retention(p).policy = "ttl" => Decay(p) >= 1000
  BY DecayOf
<1>4. adjusted = Capped(p, judge, blamed)
  BY DEF AdjustedImportance
<1> HIDE DEF i
<1>5. mixed \in Int /\ 0 <= mixed /\ mixed <= 10000 /\ (Retention(p).policy = "ttl" => mixed <= 8184)
  <2> DEFINE sum == 55 * i + 30 * Quality(p) + 15 * (10000 - Decay(p))
  <2>1. /\ sum \in Int /\ 0 <= sum /\ sum <= 1000000
        /\ Retention(p).policy = "ttl" => sum <= 818400
    BY <1>1, <1>2, <1>3
  <2> HIDE DEF sum
  <2>2. /\ sum \div 100 \in Int /\ 0 <= sum \div 100 /\ sum \div 100 <= 10000
        /\ Retention(p).policy = "ttl" => sum \div 100 <= 8184
    BY <2>1
  <2>3. Clamped(sum \div 100) = sum \div 100
    BY <2>2 DEF Clamped
  <2> QED BY <2>2, <2>3 DEF sum
<1> HIDE DEF mixed
<1>6. praised \in Int /\ 0 <= praised /\ praised <= 10000 /\ (Retention(p).policy = "ttl" => praised <= 9384)
  <2> DEFINE bonus == AtMost(1200, 400 * uses.positive)
  <2>1. bonus \in Int /\ 0 <= bonus /\ bonus <= 1200
    BY DEF AtMost
  <2> HIDE DEF bonus
  <2>2. mixed + bonus \in Int /\ (Retention(p).policy = "ttl" => mixed + bonus <= 9384) /\ 0 <= mixed + bonus
    BY <1>5, <2>1
  <2> DEFINE sum == mixed + bonus
  <2> HIDE DEF sum
  <2>3. Clamped(sum) \in Int /\ 0 <= Clamped(sum) /\ Clamped(sum) <= 10000 /\ (Retention(p).policy = "ttl" => Clamped(sum) <= 9384)
    BY <2>2 DEF Clamped, sum
  <2> QED BY <2>3 DEF sum, bonus
<1> HIDE DEF praised
<1>7. blamed \in Int /\ 0 <= blamed /\ blamed <= 10000 /\ blamed <= praised
  <2> DEFINE malus == AtMost(1800, 600 * uses.negative)
  <2>1. malus \in Int /\ 0 <= malus
    BY DEF AtMost
  <2> HIDE DEF malus
  <2> DEFINE rest == praised - malus
  <2>2. rest \in Int /\ rest <= praised
    BY <1>6, <2>1
  <2> HIDE DEF rest
  <2>3. Clamped(rest) \in Int /\ 0 <= Clamped(rest) /\ Clamped(rest) <= 10000 /\ Clamped(rest) <= praised
    BY <1>6, <2>2 DEF Clamped
  <2> QED BY <2>3 DEF rest, malus
<1> HIDE DEF blamed, adjusted
<1>8. adjusted \in Int /\ adjusted <= blamed
  <2> DEFINE judged == CASE judge = "reject" -> AtMost(blamed, 2500)
                         [] judge = "deprioritize" -> AtMost(blamed, 4500)
                         [] OTHER -> blamed
  <2>1. judged \in Int /\ judged <= blamed
    BY <1>7 DEF AtMost
  <2>2. adjusted = CASE QualityDecision(p) = "reject" -> AtMost(judged, 2000)
                     [] QualityDecision(p) = "deprioritize" -> AtMost(judged, 4500)
                     [] OTHER -> judged
    BY <1>4 DEF Capped
  <2> HIDE DEF judged
  <2> QED BY <1>7, <2>1, <2>2 DEF AtMost
<1>9. /\ adjusted \in Int /\ adjusted <= 10000
      /\ Retention(p).policy = "ttl" => adjusted <= 9384
  BY <1>6, <1>7, <1>8
<1> DEFINE importance == ProfiledImportance(p, adjusted, repairs)
<1>10. importance \in {adjusted, AtLeast(adjusted, 8800), AtLeast(adjusted, 7800)}
  BY DEF ProfiledImportance
<1> HIDE DEF importance
<1>11. /\ importance \in Int /\ importance <= 10000
       /\ Retention(p).policy = "ttl" => importance <= 9384
  BY <1>9, <1>10 DEF AtLeast
<1> QED BY <1>11 DEF importance, adjusted

LEMMA LifecycleValueOf ==
    ASSUME NEW i \in Int, NEW q \in Int, NEW t \in Int, NEW d \in Int, NEW pinned \in BOOLEAN,
           0 <= d, d <= 2500, q <= 10000, t <= 10000
    PROVE  /\ LifecycleValue(i, q, t, d, pinned) \in {"low", "mid", "high"}
           /\ i <= 9384 /\ q <= 9030 /\ t <= 9150 /\ 1000 <= d /\ ~pinned =>
                  LifecycleValue(i, q, t, d, pinned) # "high"
           /\ 9500 <= i /\ 4400 <= q /\ 2000 <= t /\ pinned =>
                  LifecycleValue(i, q, t, d, pinned) # "low"
<1> DEFINE sum == 35 * i + 30 * q + 30 * t - 25 * d
           bonus == Points(pinned, 1000)
<1>1. /\ sum \in Int
      /\ i <= 9384 /\ q <= 9030 /\ t <= 9150 /\ 1000 <= d => sum <= 848840
      /\ 9500 <= i /\ 4400 <= q /\ 2000 <= t => sum >= 462000
  OBVIOUS
<1>2. bonus \in Int /\ (pinned => bonus = 1000) /\ (~pinned => bonus = 0)
  BY DEF Points
<1>3. LifecycleValue(i, q, t, d, pinned) =
        IF sum \div 100 + bonus <= 2800 THEN "low"
        ELSE IF sum \div 100 + bonus >= 8600 THEN "high" ELSE "mid"
  BY DEF LifecycleValue
<1> HIDE DEF sum, bonus
<1>4. /\ sum \div 100 \in Int
      /\ sum <= 848840 => sum \div 100 <= 8488
      /\ sum >= 462000 => sum \div 100 >= 4620
  BY <1>1
<1> DEFINE score == sum \div 100
<1> HIDE DEF score
<1>5. /\ score \in Int
      /\ sum <= 848840 => score <= 8488
      /\ sum >= 462000 => score >= 4620
  BY <1>4 DEF score
<1>6. LifecycleValue(i, q, t, d, pinned) =
        IF score + bonus <= 2800 THEN "low" ELSE IF score + bonus >= 8600 THEN "high" ELSE "mid"
  BY <1>3 DEF score
<1> QED BY <1>1, <1>2, <1>5, <1>6

\* Every decision about a record is one the store expects.
LEMMA GovernedIsExpected ==
    ASSUME NEW p, p.tool = "secret_scan" => ~p.evidence, NEW judge, NEW repairs, NEW repeated,
           NEW uses, uses.positive \in Nat, uses.negative \in Nat
    PROVE  Governed(p, uses, judge, repairs, repeated) \in Evaluations
<1> DEFINE promoted == p.result = "success" /\ repeated
           own == ProfiledImportance(p, AdjustedImportance(p, uses, judge), repairs)
           importance == IF promoted THEN AtLeast(Retention(p).importance, 9500) ELSE own
           policy == IF promoted THEN "pinned" ELSE Retention(p).policy
           value == LifecycleValue(importance, Quality(p), Trust(p, uses), Decay(p), promoted)
<1>1. /\ own \in Int
      /\ Retention(p).policy = "ttl" => own <= 9384
  BY ImportanceOf
<1>2. /\ Retention(p).policy \in {"ttl", "long_term"} /\ Retention(p).importance \in Int
      /\ Retention(p).policy = "ttl" => ~(p.result = "success" /\ p.evidence)
  BY RetentionOf
<1>3. /\ Quality(p) \in Int /\ 3600 <= Quality(p) /\ Quality(p) <= 10000
      /\ ~(p.result = "success" /\ p.evidence) => Quality(p) <= 9030
      /\ p.result = "success" => Quality(p) >= 4400
  BY QualityOf
<1>4. /\ Trust(p, uses) \in Int /\ Trust(p, uses) <= 10000
      /\ Retention(p).policy = "ttl" => Trust(p, uses) <= 9150
      /\ p.result = "success" => Trust(p, uses) >= 2000
  BY TrustOf
<1>5. /\ Decay(p) \in Int /\ 0 <= Decay(p) /\ Decay(p) <= 2500
      /\ Retention(p).policy = "ttl" => Decay(p) >= 1000
  BY DecayOf
<1>6. QualityDecision(p) # "reject"
  BY <1>3 DEF QualityDecision
<1>7. Governed(p, uses, judge, repairs, repeated) =
        [policy |-> policy, value |-> value, status |-> "active"]
  BY <1>6 DEF Governed
<1> HIDE DEF own
<1>8. /\ importance \in Int
      /\ promoted => importance >= 9500
      /\ ~promoted => importance = own
  BY <1>1, <1>2 DEF AtLeast
<1>9. promoted \in BOOLEAN /\ (promoted => p.result = "success")
  OBVIOUS
<1> HIDE DEF importance, promoted
<1>10. /\ value \in {"low", "mid", "high"}
       /\ ~promoted /\ Retention(p).policy = "ttl" => value # "high"
       /\ promoted => value # "low"
  BY <1>1, <1>2, <1>3, <1>4, <1>5, <1>8, <1>9, LifecycleValueOf
<1>11. policy \in {"ttl", "long_term", "pinned"}
       /\ (policy = "ttl" => ~promoted /\ Retention(p).policy = "ttl")
       /\ (policy = "pinned" => promoted)
  BY <1>2
<1> HIDE DEF value, policy
<1> QED BY <1>7, <1>10, <1>11 DEF Evaluations

LEMMA FeedbackIsCounted ==
    ASSUME StateIsTyped, NEW id
    PROVE  FeedbackOf(id).positive \in Nat /\ FeedbackOf(id).negative \in Nat
<1>1. IsFiniteSet(LastOf(feedback))
  <2>1. LastOf(feedback) \in SUBSET (1..Len(feedback)) /\ Len(feedback) \in Nat
    BY DEF LastOf, StateIsTyped
  <2>2. IsFiniteSet(1..Len(feedback))
    BY <2>1, FS_Interval
  <2> QED BY <2>1, <2>2, FS_Subset
<1> DEFINE given(signals) == {i \in LastOf(feedback) : feedback[i].id = id
                                                    /\ feedback[i].signal \in signals}
<1>2. \A signals : Cardinality(given(signals)) \in Nat
  BY <1>1, FS_Subset, FS_CardinalityType
<1>3. FeedbackOf(id) = [positive |-> Cardinality(given({"useful", "confirmed"})),
                        negative |-> Cardinality(given({"not_useful"}))]
  BY DEF FeedbackOf
<1> HIDE DEF given
<1> QED BY <1>2, <1>3

LEMMA ExpectedStep ==
    ASSUME Typed, StoreGetsWhatItExpects, [Next]_vars
    PROVE  StoreGetsWhatItExpects'
<1>1. CASE UNCHANGED memory
  BY <1>1 DEF StoreGetsWhatItExpects
<1>2. CASE WriteMemory /\ ~UNCHANGED memory
  <2>1. PICK new : Writes(new)
    BY <1>2, WriteShape DEF Typed
  <2>2. PICK judge \in JudgeAnswers : new = MemoryRecord(pending, judge)
    BY <2>1 DEF Writes
  <2>3. pending \in Experiences /\ StateIsTyped
    BY <2>1 DEF Writes, Typed
  <2>4. [policy |-> new.policy, value |-> new.value, status |-> new.status]
          = Governed(pending, FeedbackOf(RecordId(pending)), judge, RepairsKnown(pending),
                     Repeated(pending))
    BY ONLY <2>2, <2>3, NewRecord
  <2>5. pending.tool = "secret_scan" => ~pending.evidence
    BY <2>3, ScanAssumption
  <2>6. [policy |-> new.policy, value |-> new.value, status |-> new.status] \in Evaluations
    BY <2>3, <2>4, <2>5, GovernedIsExpected, FeedbackIsCounted
  <2> QED BY <2>1, <2>6 DEF Writes, Upserted, StoreGetsWhatItExpects
<1>3. CASE Merges
  <2> SUFFICES ASSUME NEW s \in memory', s.source = "memory_writer_node", s.status # "superseded"
               PROVE  [policy |-> s.policy, value |-> s.value, status |-> s.status] \in Evaluations
    BY DEF StoreGetsWhatItExpects
  <2>1. PICK new, group, replaced : MergedFrom(new, group) /\ Merge(new, replaced)
    BY <1>3, MergesShape DEF Typed
  <2>2. s # new
    BY <2>1 DEF MergedFrom, Mergers
  <2>3. PICK r \in memory : s = Marked(r, new, replaced)
    BY <2>1, <2>2, MergedRecords
  <2>4. /\ s.source = r.source /\ s.policy = r.policy /\ s.value = r.value
        /\ s.status \in {r.status, "superseded"}
    BY <2>3, MarkedFields DEF Typed, StateIsTyped
  <2> QED BY <2>4 DEF StoreGetsWhatItExpects
<1> QED BY <1>1, <1>2, <1>3, OthersKeepRecords

(***************************************************************************)
(* THEOREM: whatever the feedback, the judge, the repairs and the          *)
(* repetitions, the writer stores only records the lifecycle job treats as *)
(* their policy says.                                                      *)
(***************************************************************************)
THEOREM TheStoreGetsWhatItExpects == Spec => []StoreGetsWhatItExpects
<1>1. Init => StoreGetsWhatItExpects
  BY DEF Init, StoreGetsWhatItExpects
<1>2. Typed /\ StoreGetsWhatItExpects /\ [Next]_vars => StoreGetsWhatItExpects'
  BY ExpectedStep
<1> QED BY <1>1, <1>2, TypedHolds, PTL DEF Spec

(***************************************************************************)
(* Promotion.  The successes stored for a tool, and the one a writer still *)
(* has in hand, are successes the tool had, or a writer that died wrote    *)
(* twice.                                                                  *)
(***************************************************************************)
Successes(t) ==
    {r \in memory : r.source = "memory_writer_node" /\ r.result = "success" /\ r.tool = t}
InHand(t) ==
    /\ at \in {"closing", "judging"}
    /\ pending # None /\ pending.tool = t /\ pending.result = "success"

SuccessesWereHad ==
    \A t \in Tools :
        Cardinality(Successes(t)) + (IF InHand(t) THEN 1 ELSE 0) <= succeeded[t] + Len(crashed)

LEMMA SuccessesAreFinite ==
    ASSUME StateIsTyped, NEW t
    PROVE  IsFiniteSet(Successes(t)) /\ Cardinality(Successes(t)) \in Nat
<1>1. Successes(t) \in SUBSET memory
  BY DEF Successes
<1> QED BY <1>1, FS_Subset, FS_CardinalityType DEF StateIsTyped

\* The writer's record adds at most one success, the one it had in hand.
LEMMA WriteAddsOne ==
    ASSUME Typed, NEW new, Writes(new), at = "judging", pending # None, NEW t \in Tools
    PROVE  /\ Cardinality(Successes(t)') \in Nat
           /\ Cardinality(Successes(t)') <= Cardinality(Successes(t)) + (IF InHand(t) THEN 1 ELSE 0)
<1>1. new.tool = pending.tool /\ new.result = pending.result
  <2>1. PICK judge \in JudgeAnswers : new = MemoryRecord(pending, judge)
    BY DEF Writes
  <2>2. pending \in Experiences /\ StateIsTyped
    BY DEF Writes, Typed
  <2> QED BY ONLY <2>1, <2>2, NewRecord
<1>2. memory' = {r \in memory : r.id # new.id} \cup {new}
  BY DEF Writes, Upserted
<1>3. IsFiniteSet(Successes(t)) /\ Cardinality(Successes(t)) \in Nat
  BY SuccessesAreFinite DEF Typed
<1>4. CASE InHand(t)
  <2>1. Successes(t)' \in SUBSET (Successes(t) \cup {new})
    BY <1>2 DEF Successes
  <2>2. /\ IsFiniteSet(Successes(t) \cup {new})
        /\ Cardinality(Successes(t) \cup {new}) \in Nat
        /\ Cardinality(Successes(t) \cup {new}) <= Cardinality(Successes(t)) + 1
    BY <1>3, FS_AddElement, FS_CardinalityType
  <2> QED BY <1>3, <1>4, <2>1, <2>2, FS_Subset, FS_CardinalityType
<1>5. CASE ~InHand(t)
  <2>1. Successes(t)' \in SUBSET Successes(t)
    BY <1>1, <1>2, <1>5 DEF Successes, InHand
  <2> QED BY <1>3, <1>5, <2>1, FS_Subset, FS_CardinalityType
<1> QED BY <1>4, <1>5

\* A merge adds none: its record is not the writer's.
LEMMA MergeAddsNone ==
    ASSUME Typed, Merges, NEW t
    PROVE  /\ Cardinality(Successes(t)') \in Nat
           /\ Cardinality(Successes(t)') <= Cardinality(Successes(t))
<1>1. PICK new, group, replaced : MergedFrom(new, group) /\ Merge(new, replaced)
  BY MergesShape DEF Typed
<1> DEFINE S == Successes(t)
           T == {Marked(r, new, replaced) : r \in S}
           f == [r \in S |-> Marked(r, new, replaced)]
<1>2. IsFiniteSet(S) /\ Cardinality(S) \in Nat
  BY SuccessesAreFinite DEF Typed
<1>3. Successes(t)' \in SUBSET T
  <2> SUFFICES ASSUME NEW s \in Successes(t)' PROVE s \in T
    OBVIOUS
  <2>1. s \in memory' /\ s.source = "memory_writer_node" /\ s.result = "success" /\ s.tool = t
    BY DEF Successes
  <2>2. s # new
    BY <1>1, <2>1 DEF MergedFrom, Mergers
  <2>3. PICK r \in memory : s = Marked(r, new, replaced)
    BY <1>1, <2>1, <2>2, MergedRecords
  <2>4. s.source = r.source /\ s.result = r.result /\ s.tool = r.tool
    BY <2>3, MarkedFields DEF Typed, StateIsTyped
  <2>5. r \in S
    BY <2>1, <2>4 DEF Successes
  <2> HIDE DEF S
  <2> QED BY <2>3, <2>5
<1> HIDE DEF S
<1>4. f \in Surjection(S, T)
  BY DEF Surjection
<1> HIDE DEF f
<1>5. IsFiniteSet(T) /\ Cardinality(T) <= Cardinality(S)
  BY <1>2, <1>4, FS_Surjection
<1>6. Cardinality(T) \in Nat
  BY <1>5, FS_CardinalityType
<1> HIDE DEF T
<1>7. /\ IsFiniteSet(Successes(t)') /\ Cardinality(Successes(t)') <= Cardinality(T)
  BY <1>3, <1>5, FS_Subset
<1>8. Cardinality(Successes(t)') \in Nat
  BY <1>7, FS_CardinalityType
<1> QED BY <1>2, <1>5, <1>6, <1>7, <1>8 DEF S

LEMMA HadStep ==
    ASSUME Typed, SuccessesWereHad, [Next]_vars
    PROVE  SuccessesWereHad'
<1> SUFFICES ASSUME NEW t \in Tools
             PROVE  Cardinality(Successes(t)') + (IF InHand(t)' THEN 1 ELSE 0)
                      <= succeeded'[t] + Len(crashed')
  BY DEF SuccessesWereHad
<1> DEFINE n == Cardinality(Successes(t))
<1>1. /\ n \in Nat /\ succeeded[t] \in Nat /\ Len(crashed) \in Nat
      /\ n + (IF InHand(t) THEN 1 ELSE 0) <= succeeded[t] + Len(crashed)
  BY SuccessesAreFinite DEF Typed, StateIsTyped, SuccessesWereHad
<1>2. UNCHANGED memory => Cardinality(Successes(t)') = n
  BY DEF Successes
<1> HIDE DEF n
<1>3. CASE Commit
  <2>1. PICK e \in Experiences, kept \in BOOLEAN :
            /\ pending' = IF kept THEN e ELSE None
            /\ succeeded' = IF kept /\ e.result = "success"
                            THEN [succeeded EXCEPT ![e.tool] = @ + 1] ELSE succeeded
    BY <1>3 DEF Commit
  <2>2. ~InHand(t) /\ UNCHANGED <<memory, crashed>>
    BY <1>3 DEF Commit, InHand
  <2>3. InHand(t)' => kept /\ e.result = "success" /\ e.tool = t
    BY <2>1 DEF InHand
  <2>4. /\ succeeded'[t] \in Nat /\ succeeded'[t] >= succeeded[t]
        /\ InHand(t)' => succeeded'[t] = succeeded[t] + 1
    BY <1>1, <2>1, <2>3 DEF Typed, StateIsTyped
  <2> QED BY <1>1, <1>2, <2>2, <2>4
<1>4. CASE WriteMemory
  <2>1. /\ at = "judging" /\ ~InHand(t)' /\ UNCHANGED <<succeeded, crashed>>
        /\ UNCHANGED memory \/ (pending # None /\ \E new : Writes(new))
    BY <1>4, WriteShape DEF Typed, InHand, WriteMemory
  <2>2. CASE UNCHANGED memory
    BY <1>1, <1>2, <2>1, <2>2
  <2>3. CASE pending # None /\ \E new : Writes(new)
    <3>1. /\ Cardinality(Successes(t)') \in Nat
          /\ Cardinality(Successes(t)') <= n + (IF InHand(t) THEN 1 ELSE 0)
      BY <2>1, <2>3, WriteAddsOne DEF n
    <3> QED BY <1>1, <2>1, <3>1
  <2> QED BY <2>1, <2>2, <2>3
<1>5. CASE Crash
  <2>1. UNCHANGED <<memory, succeeded>> /\ crashed' = Append(crashed, run)
    BY <1>5 DEF Crash
  <2>2. Len(crashed') = Len(crashed) + 1
    BY <2>1 DEF Typed, StateIsTyped
  <2> QED BY <1>1, <1>2, <2>1, <2>2
<1>7. CASE Merges
  <2>1. UNCHANGED <<at, pending, succeeded, crashed>>
    BY <1>7, MergesKeepTheRest
  <2>2. (InHand(t)' => InHand(t)) /\ UNCHANGED <<succeeded, crashed>>
    BY <2>1 DEF InHand
  <2>3. Cardinality(Successes(t)') \in Nat /\ Cardinality(Successes(t)') <= n
    BY <1>7, MergeAddsNone DEF n
  <2> QED BY <1>1, <2>2, <2>3
<1>6. CASE ~Commit /\ ~WriteMemory /\ ~Crash /\ ~Merges
  <2>1. /\ UNCHANGED <<memory, succeeded, crashed>>
        /\ at' \in {"closing", "judging"} => at \in {"closing", "judging"} /\ UNCHANGED pending
    BY <1>6 DEF Next, vars, runState, StartRun, Retriever, Retrieve, RecordUse, RetrieverEnds, Writer,
                ReadUses, CloseUse, GiveFeedback, WriterEnds, Compaction, CompactionEnds, Merges,
                EndRun, Ages
  <2>2. InHand(t)' => InHand(t)
    BY <2>1 DEF InHand
  <2> QED BY <1>1, <1>2, <2>1, <2>2
<1> QED BY <1>3, <1>4, <1>5, <1>6, <1>7

LEMMA EarnedStep ==
    ASSUME Typed, SuccessesWereHad, PromotionIsEarned, [Next]_vars
    PROVE  PromotionIsEarned'
<1> SUFFICES ASSUME NEW r \in memory', r.policy = "pinned"
             PROVE  succeeded'[r.tool] + Len(crashed') >= PromotionThreshold
  BY DEF PromotionIsEarned
<1>1. \A t \in Tools : /\ succeeded[t] \in Nat /\ succeeded'[t] \in Nat
                       /\ succeeded[t] <= succeeded'[t]
  <2>1. succeeded \in [Tools -> Nat]
    BY DEF Typed, StateIsTyped
  <2>2. CASE UNCHANGED succeeded
    BY <2>1, <2>2
  <2>3. CASE \E t \in Tools : succeeded' = [succeeded EXCEPT ![t] = @ + 1]
    BY <2>1, <2>3
  <2>4. UNCHANGED succeeded \/ \E t \in Tools : succeeded' = [succeeded EXCEPT ![t] = @ + 1]
    <3>1. CASE Commit
      BY <3>1 DEF Commit, Tools
    <3>2. CASE WriteMemory
      BY <3>2, WriteShape DEF Typed
    <3>3. CASE Merges
      BY <3>3, MergesKeepTheRest
    <3>4. CASE ~Commit /\ ~WriteMemory /\ ~Merges
      BY <3>4 DEF Next, vars, StartRun, Retriever, Retrieve, RecordUse, RetrieverEnds, Writer,
                  ReadUses, CloseUse, GiveFeedback, WriterEnds, Compaction, CompactionEnds, Merges,
                  EndRun, Crash, Ages
    <3> QED BY <3>1, <3>2, <3>3, <3>4
  <2> QED BY <2>2, <2>3, <2>4
<1>2. Len(crashed) \in Nat /\ Len(crashed') \in Nat /\ Len(crashed) <= Len(crashed')
  <2>1. CASE Crash
    BY <2>1 DEF Crash, Typed, StateIsTyped
  <2>2. CASE WriteMemory
    BY <2>2, WriteShape DEF Typed, StateIsTyped
  <2>3. CASE ~Crash /\ ~WriteMemory
    <3>1. CASE Merges
      BY <3>1, MergesKeepTheRest DEF Typed, StateIsTyped
    <3>2. CASE ~Merges
      <4>1. UNCHANGED crashed
        BY <2>3, <3>2 DEF Next, vars, StartRun, Retriever, Retrieve, RecordUse, RetrieverEnds, Commit,
                    Writer, ReadUses, CloseUse, GiveFeedback, WriterEnds, Compaction,
                    CompactionEnds, Merges, EndRun, Ages
      <4> QED BY <4>1 DEF Typed, StateIsTyped
    <3> QED BY <3>1, <3>2
  <2> QED BY <2>1, <2>2, <2>3
<1>3. PromotionThreshold \in Nat
  BY BoundsAssumption
<1>4. CASE \E s \in memory : s.policy = "pinned" /\ s.tool = r.tool
  <2>1. PICK s \in memory : s.policy = "pinned" /\ s.tool = r.tool
    BY <1>4
  <2>2. r.tool \in Tools /\ succeeded[r.tool] + Len(crashed) >= PromotionThreshold
    BY <2>1 DEF Typed, StateIsTyped, RecordShape, PromotionIsEarned
  <2> QED BY <1>1, <1>2, <1>3, <2>2
<1>6. CASE Merges
  <2>1. PICK new, group, replaced : MergedFrom(new, group) /\ Merge(new, replaced)
    BY <1>6, MergesShape DEF Typed
  <2>2. r # new
    BY <2>1 DEF MergedFrom, RecordShape, Mergers
  <2>3. PICK s \in memory : r = Marked(s, new, replaced)
    BY <2>1, <2>2, MergedRecords
  <2>4. s.policy = "pinned" /\ s.tool = r.tool
    BY <2>3, MarkedFields DEF Typed, StateIsTyped
  <2> QED BY <1>4, <2>4
<1>5. CASE r \notin memory /\ ~Merges
  <2>1. WriteMemory
    BY <1>5, OthersKeepRecords
  <2>2. PICK new : Writes(new)
    BY <1>5, <2>1, WriteShape DEF Typed
  <2>3. new = r
    BY <1>5, <2>2 DEF Writes, Upserted
  <2>4. PICK judge \in JudgeAnswers : r = MemoryRecord(pending, judge)
    BY <2>2, <2>3 DEF Writes
  <2>5. pending \in Experiences /\ StateIsTyped
    BY <2>2 DEF Writes, Typed
  <2>6. /\ r.tool = pending.tool
        /\ [policy |-> r.policy, value |-> r.value, status |-> r.status]
              = Governed(pending, FeedbackOf(RecordId(pending)), judge, RepairsKnown(pending),
                         Repeated(pending))
    BY ONLY <2>4, <2>5, NewRecord
  <2>7. pending.result = "success" /\ Repeated(pending)
    <3>1. Retention(pending).policy # "pinned"
      BY DEF Retention, Keep
    <3>2. r.policy = IF pending.result = "success" /\ Repeated(pending) THEN "pinned"
                     ELSE Retention(pending).policy
      BY <2>6 DEF Governed
    <3> QED BY <3>1, <3>2
  <2> DEFINE t == pending.tool
             n == Cardinality(Successes(t))
             m == Cardinality(MatchingSuccesses(pending))
  <2>8. t \in Tools
    BY <2>5 DEF Tools
  <2>9. m \in Nat /\ n \in Nat /\ m <= n /\ m + 1 >= PromotionThreshold
    <3>1. MatchingSuccesses(pending) \in SUBSET Successes(t)
      <4>1. t # "none"
        BY <2>5, <2>7, NoToolAssumption
      <4>2. \A s \in memory : s.tool = t => s.source = "memory_writer_node"
        BY <2>5, <4>1 DEF StateIsTyped, RecordShape
      <4> QED BY <2>7, <4>2 DEF MatchingSuccesses, Successes
    <3>2. IsFiniteSet(Successes(t)) /\ Cardinality(Successes(t)) \in Nat
      BY <2>5, SuccessesAreFinite
    <3> QED BY <2>7, <3>1, <3>2, FS_Subset, FS_CardinalityType DEF Repeated
  <2>10. n + 1 <= succeeded[t] + Len(crashed)
    <3>1. InHand(t)
      BY <1>5, <2>1, <2>2, <2>7 DEF InHand, WriteMemory
    <3> QED BY <2>8, <3>1 DEF SuccessesWereHad
  <2> HIDE DEF n, m
  <2>11. r.tool = t
    BY <2>6
  <2> HIDE DEF t
  <2> QED BY <1>1, <1>2, <1>3, <2>8, <2>9, <2>10, <2>11
<1>7. r \in memory => \E s \in memory : s.policy = "pinned" /\ s.tool = r.tool
  OBVIOUS
<1> QED BY <1>4, <1>5, <1>6, <1>7

(***************************************************************************)
(* THEOREM: a pinned record stands on as many successes of its tool as the *)
(* threshold asks for, but for the successes a writer that died counted    *)
(* twice.                                                                  *)
(***************************************************************************)
THEOREM PinnedRecordsAreEarned == Spec => []PromotionIsEarned
<1> DEFINE Inv == SuccessesWereHad /\ PromotionIsEarned
<1>1. Init => Inv
  <2> SUFFICES ASSUME Init PROVE Inv
    OBVIOUS
  <2>1. PromotionIsEarned
    BY DEF Init, PromotionIsEarned
  <2>2. ASSUME NEW t \in Tools
        PROVE  Cardinality(Successes(t)) = 0 /\ ~InHand(t) /\ succeeded[t] = 0 /\ Len(crashed) = 0
    BY FS_EmptySet DEF Init, Successes, InHand, Tools
  <2> QED BY <2>1, <2>2 DEF SuccessesWereHad
<1>2. Typed /\ Inv /\ [Next]_vars => Inv'
  BY HadStep, EarnedStep
<1>3. Inv => PromotionIsEarned
  OBVIOUS
<1> HIDE DEF Inv
<1> QED BY <1>1, <1>2, <1>3, TypedHolds, PTL DEF Spec

(***************************************************************************)
(* The events of a run.  Only the current run writes, and it notes every   *)
(* use before it closes one.                                               *)
(***************************************************************************)
NotesComeFirst ==
    /\ \A i \in DOMAIN usage : usage[i].run <= run
    /\ \A i, j \in DOMAIN usage :
           usage[i].run = usage[j].run /\ usage[i].outcome # "pending" /\ usage[j].outcome = "pending"
               => j < i
    /\ at \in {"retrieving", "recording"} =>
           \A i \in DOMAIN usage : usage[i].run = run => usage[i].outcome = "pending"

\* One more event at the end.
LEMMA Appended ==
    ASSUME NEW T, NEW s \in Seq(T), NEW x \in T
    PROVE  /\ Len(s) \in Nat /\ DOMAIN s = 1..Len(s)
           /\ DOMAIN Append(s, x) = 1..(Len(s) + 1)
           /\ Append(s, x)[Len(s) + 1] = x
           /\ \A i \in 1..Len(s) : Append(s, x)[i] = s[i]
OBVIOUS

\* What the two writers of usage events do.
LEMMA UsageShape ==
    ASSUME Typed, [Next]_vars
    PROVE  \/ UNCHANGED usage
           \/ /\ at = "recording" /\ at' = at /\ run' = run /\ todo # <<>>
              /\ UsageEvent(Head(todo), "pending") \in UsageEvents
              /\ usage' = Append(usage, UsageEvent(Head(todo), "pending"))
           \/ /\ at = "judging" /\ at' = at /\ run' = run /\ todo # <<>>
              /\ outcome.usage # "pending"
              /\ UsageEvent(Head(todo), outcome.usage) \in UsageEvents
              /\ usage' = Append(usage, UsageEvent(Head(todo), outcome.usage))
<1>1. CASE RecordUse
  <2>1. Head(todo) \in RecordIds
    BY <1>1 DEF RecordUse, Typed, StateIsTyped
  <2> QED BY <1>1, <2>1 DEF RecordUse, UsageEvent, UsageEvents, Typed, StateIsTyped
<1>2. CASE CloseUse
  <2>1. Head(todo) \in RecordIds /\ outcome.usage \in UsageOutcomes
    BY <1>2 DEF CloseUse, Typed, StateIsTyped
  <2> QED BY <1>2, <2>1 DEF CloseUse, UsageEvent, UsageEvents, UsageOutcomes, Typed, StateIsTyped
<1>3. CASE WriteMemory
  BY <1>3, WriteShape DEF Typed
<1>4. CASE Merges
  BY <1>4, MergesKeepTheRest
<1>5. CASE ~RecordUse /\ ~CloseUse /\ ~WriteMemory /\ ~Merges
  BY <1>5 DEF Next, vars, StartRun, Retriever, Retrieve, RetrieverEnds, Commit, Writer,
              ReadUses, GiveFeedback, WriterEnds, Compaction, CompactionEnds, Merges, EndRun,
              Crash, Ages
<1> QED BY <1>1, <1>2, <1>3, <1>4, <1>5

\* The run a step is in, and when it may be at the retriever.
LEMMA RunShape ==
    ASSUME Typed, [Next]_vars
    PROVE  \/ StartRun
           \/ /\ run' = run
              /\ at' \in {"retrieving", "recording"} => at \in {"retrieving", "recording"}
<1>1. CASE WriteMemory
  BY <1>1, WriteShape DEF Typed
<1>2. CASE Merges
  BY <1>2, MergesKeepTheRest
<1>3. CASE ~WriteMemory /\ ~Merges
  BY <1>3 DEF Next, vars, runState, Retriever, Retrieve, RecordUse, RetrieverEnds, Commit, Writer,
              ReadUses, CloseUse, GiveFeedback, WriterEnds, Compaction, CompactionEnds, Merges,
              EndRun, Crash, Ages
<1> QED BY <1>1, <1>2, <1>3

LEMMA NotesStep ==
    ASSUME Typed, NotesComeFirst, [Next]_vars
    PROVE  NotesComeFirst'
<1>1. usage \in Seq(UsageEvents) /\ run \in Nat /\ \A i \in DOMAIN usage : usage[i].run \in Nat
  <2>1. usage \in Seq(UsageEvents) /\ run \in Nat
    BY DEF Typed, StateIsTyped
  <2>2. \A i \in DOMAIN usage : usage[i] \in UsageEvents
    BY <2>1
  <2> QED BY <2>1, <2>2 DEF UsageEvents
<1>2. CASE StartRun
  <2>1. UNCHANGED usage /\ run' = run + 1
    BY <1>2 DEF StartRun
  <2> QED BY <1>1, <2>1 DEF NotesComeFirst
<1>3. CASE UNCHANGED usage /\ ~StartRun
  BY <1>3, RunShape DEF NotesComeFirst
<1>4. ASSUME NEW o, UsageEvent(Head(todo), o) \in UsageEvents,
             usage' = Append(usage, UsageEvent(Head(todo), o)), run' = run, at' = at,
             \/ at = "recording" /\ o = "pending"
             \/ at = "judging" /\ o # "pending"
      PROVE  NotesComeFirst'
  <2> DEFINE n == Len(usage)
             e == UsageEvent(Head(todo), o)
  <2>1. /\ n \in Nat /\ DOMAIN usage = 1..n /\ DOMAIN usage' = 1..(n + 1)
        /\ usage'[n + 1] = e /\ \A i \in 1..n : usage'[i] = usage[i]
    BY <1>1, <1>4, Appended
  <2>2. e.run = run /\ e.outcome = o
    BY DEF UsageEvent
  <2> HIDE DEF n, e
  <2>3. \A i \in 1..(n + 1) : i \in 1..n \/ i = n + 1
    BY <2>1
  <2>4. \A i \in DOMAIN usage' : usage'[i].run <= run'
    BY <1>1, <1>4, <2>1, <2>2, <2>3 DEF NotesComeFirst
  <2>5. ASSUME NEW i \in DOMAIN usage', NEW j \in DOMAIN usage',
               usage'[i].run = usage'[j].run, usage'[i].outcome # "pending", usage'[j].outcome = "pending"
        PROVE  j < i
    <3>1. CASE i \in 1..n /\ j \in 1..n
      BY <2>1, <2>5, <3>1 DEF NotesComeFirst
    <3>2. CASE i = n + 1
      <4>1. j # n + 1
        BY <2>5, <3>2
      <4> QED BY <2>1, <2>3, <3>2, <4>1
    <3>3. CASE i \in 1..n /\ j = n + 1
      <4>1. at = "recording" /\ usage[i].run = run
        BY <1>4, <2>1, <2>2, <2>5, <3>3
      <4> QED BY <2>1, <2>5, <3>3, <4>1 DEF NotesComeFirst
    <3> QED BY <2>1, <2>3, <3>1, <3>2, <3>3
  <2>6. at' \in {"retrieving", "recording"} =>
            \A i \in DOMAIN usage' : usage'[i].run = run' => usage'[i].outcome = "pending"
    BY <1>4, <2>1, <2>2, <2>3 DEF NotesComeFirst
  <2> QED BY <2>4, <2>5, <2>6 DEF NotesComeFirst
<1> QED BY <1>2, <1>3, <1>4, UsageShape

(***************************************************************************)
(* The uses and answers of a record in a run.                              *)
(***************************************************************************)
Notes(r, id)   == {e \in UsageEvents : e.run = r /\ e.id = id /\ e.outcome = "pending"}
Closes(r, id)  == {e \in UsageEvents : e.run = r /\ e.id = id /\ e.outcome # "pending"}
Answers(r, id) == {e \in FeedbackEvents : e.run = r /\ e.id = id}

LEMMA UsesArePlaces ==
    ASSUME NEW u \in Seq(UsageEvents), NEW r, NEW id
    PROVE  /\ {i \in DOMAIN u : u[i].run = r /\ u[i].id = id /\ u[i].outcome = "pending"}
                 = Places(u, Notes(r, id))
           /\ {i \in DOMAIN u : u[i].run = r /\ u[i].id = id /\ u[i].outcome # "pending"}
                 = Places(u, Closes(r, id))
<1>1. \A i \in DOMAIN u : u[i] \in UsageEvents
  OBVIOUS
<1> QED BY <1>1 DEF Places, Notes, Closes

LEMMA AnswersArePlaces ==
    ASSUME NEW f \in Seq(FeedbackEvents), NEW r, NEW id
    PROVE  {i \in DOMAIN f : f[i].run = r /\ f[i].id = id} = Places(f, Answers(r, id))
<1>1. \A i \in DOMAIN f : f[i] \in FeedbackEvents
  OBVIOUS
<1> QED BY <1>1 DEF Places, Answers

NotedCount(r, id)    == Cardinality(NotedUses(r, id))
ClosedCount(r, id)   == Cardinality(ClosedUses(r, id))
AnsweredCount(r, id) == Cardinality(Answered(r, id))
TodoCount(id)        == Cardinality(Places(todo, {id}))

LEMMA CountTypes ==
    ASSUME StateIsTyped, NEW r, NEW id
    PROVE  /\ NotedCount(r, id) \in Nat /\ ClosedCount(r, id) \in Nat
           /\ AnsweredCount(r, id) \in Nat /\ TodoCount(id) \in Nat
           /\ IsFiniteSet(NotedUses(r, id)) /\ IsFiniteSet(ClosedUses(r, id))
<1>1. usage \in Seq(UsageEvents) /\ feedback \in Seq(FeedbackEvents) /\ todo \in Seq(RecordIds)
  BY DEF StateIsTyped
<1>2. /\ NotedUses(r, id) = Places(usage, Notes(r, id))
      /\ ClosedUses(r, id) = Places(usage, Closes(r, id))
      /\ Answered(r, id) = Places(feedback, Answers(r, id))
  BY <1>1, UsesArePlaces, AnswersArePlaces DEF NotedUses, ClosedUses, Answered
<1> QED BY <1>1, <1>2, PlacesAreFinite DEF NotedCount, ClosedCount, AnsweredCount, TodoCount

LEMMA UsageAppended ==
    ASSUME StateIsTyped, NEW e \in UsageEvents, usage' = Append(usage, e), NEW r, NEW id
    PROVE  /\ NotedCount(r, id)' = NotedCount(r, id)
                 + (IF e.run = r /\ e.id = id /\ e.outcome = "pending" THEN 1 ELSE 0)
           /\ ClosedCount(r, id)' = ClosedCount(r, id)
                 + (IF e.run = r /\ e.id = id /\ e.outcome # "pending" THEN 1 ELSE 0)
<1>1. usage \in Seq(UsageEvents) /\ usage' \in Seq(UsageEvents)
  BY DEF StateIsTyped
<1>2. /\ NotedUses(r, id) = Places(usage, Notes(r, id))
      /\ ClosedUses(r, id) = Places(usage, Closes(r, id))
  BY <1>1, UsesArePlaces DEF NotedUses, ClosedUses
<1>3. /\ NotedUses(r, id)' = Places(usage', Notes(r, id))
      /\ ClosedUses(r, id)' = Places(usage', Closes(r, id))
  <2>1. \A u \in Seq(UsageEvents) :
           /\ {i \in DOMAIN u : u[i].run = r /\ u[i].id = id /\ u[i].outcome = "pending"}
                 = Places(u, Notes(r, id))
           /\ {i \in DOMAIN u : u[i].run = r /\ u[i].id = id /\ u[i].outcome # "pending"}
                 = Places(u, Closes(r, id))
    BY UsesArePlaces
  <2> QED BY <1>1, <2>1 DEF NotedUses, ClosedUses
<1>4. /\ e \in Notes(r, id) <=> e.run = r /\ e.id = id /\ e.outcome = "pending"
      /\ e \in Closes(r, id) <=> e.run = r /\ e.id = id /\ e.outcome # "pending"
  BY DEF Notes, Closes
<1>5. Cardinality(Places(Append(usage, e), Notes(r, id)))
        = Cardinality(Places(usage, Notes(r, id))) + (IF e \in Notes(r, id) THEN 1 ELSE 0)
  BY <1>1, PlacesAfterAppend
<1>6. Cardinality(Places(Append(usage, e), Closes(r, id)))
        = Cardinality(Places(usage, Closes(r, id))) + (IF e \in Closes(r, id) THEN 1 ELSE 0)
  BY <1>1, PlacesAfterAppend
<1>7. NotedCount(r, id)' = NotedCount(r, id) + (IF e \in Notes(r, id) THEN 1 ELSE 0)
  <2>1. NotedCount(r, id)' = Cardinality(Places(Append(usage, e), Notes(r, id)))
    BY <1>3 DEF NotedCount
  <2>2. NotedCount(r, id) = Cardinality(Places(usage, Notes(r, id)))
    BY <1>2 DEF NotedCount
  <2> QED BY ONLY <1>5, <2>1, <2>2
<1>8. ClosedCount(r, id)' = ClosedCount(r, id) + (IF e \in Closes(r, id) THEN 1 ELSE 0)
  <2>1. ClosedCount(r, id)' = Cardinality(Places(Append(usage, e), Closes(r, id)))
    BY <1>3 DEF ClosedCount
  <2>2. ClosedCount(r, id) = Cardinality(Places(usage, Closes(r, id)))
    BY <1>2 DEF ClosedCount
  <2> QED BY ONLY <1>6, <2>1, <2>2
<1> QED BY <1>4, <1>7, <1>8

LEMMA FeedbackAppended ==
    ASSUME StateIsTyped, NEW e \in FeedbackEvents, feedback' = Append(feedback, e), NEW r, NEW id
    PROVE  AnsweredCount(r, id)' = AnsweredCount(r, id) + (IF e.run = r /\ e.id = id THEN 1 ELSE 0)
<1>1. feedback \in Seq(FeedbackEvents) /\ feedback' \in Seq(FeedbackEvents)
  BY DEF StateIsTyped
<1>2. Answered(r, id) = Places(feedback, Answers(r, id))
  BY <1>1, AnswersArePlaces DEF Answered
<1>3. Answered(r, id)' = Places(feedback', Answers(r, id))
  <2>1. \A f \in Seq(FeedbackEvents) :
            {i \in DOMAIN f : f[i].run = r /\ f[i].id = id} = Places(f, Answers(r, id))
    BY AnswersArePlaces
  <2> QED BY <1>1, <2>1 DEF Answered
<1>4. e \in Answers(r, id) <=> e.run = r /\ e.id = id
  BY DEF Answers
<1>5. Cardinality(Places(Append(feedback, e), Answers(r, id)))
        = Cardinality(Places(feedback, Answers(r, id))) + (IF e \in Answers(r, id) THEN 1 ELSE 0)
  BY <1>1, PlacesAfterAppend
<1>6. AnsweredCount(r, id)' = AnsweredCount(r, id) + (IF e \in Answers(r, id) THEN 1 ELSE 0)
  <2>1. AnsweredCount(r, id)' = Cardinality(Places(Append(feedback, e), Answers(r, id)))
    BY <1>3 DEF AnsweredCount
  <2>2. AnsweredCount(r, id) = Cardinality(Places(feedback, Answers(r, id)))
    BY <1>2 DEF AnsweredCount
  <2> QED BY ONLY <1>5, <2>1, <2>2
<1> QED BY <1>4, <1>6

UsesAreOwed ==
    /\ \A r \in Nat, id \in RecordIds :
           ClosedCount(r, id) <= NotedCount(r, id) /\ AnsweredCount(r, id) <= ClosedCount(r, id)
    /\ at = "judging" =>
           \A id \in RecordIds :
               ClosedCount(run, id) + TodoCount(id)
                 <= NotedCount(run, id) + (IF half /\ Head(todo) = id THEN 1 ELSE 0)
    /\ half => AnsweredCount(run, Head(todo)) < ClosedCount(run, Head(todo))

\* The writer takes up a use only where the file shows no closed one; and it
\* cannot have lost that one, which is younger than the note.
LEMMA OpenUsesAreNotClosed ==
    ASSUME Typed, NotesComeFirst, NEW i \in Noted, usage[i].id \notin Closed
    PROVE  ClosedUses(run, usage[i].id) = {}
<1> SUFFICES ASSUME NEW j \in ClosedUses(run, usage[i].id) PROVE FALSE
  OBVIOUS
<1>1. /\ j \in DOMAIN usage /\ usage[j].run = run /\ usage[j].id = usage[i].id
      /\ usage[j].outcome # "pending"
  BY DEF ClosedUses
<1>2. i \in DOMAIN usage /\ i > Len(usage) - MaxEvents /\ usage[i].run = run
      /\ usage[i].outcome = "pending"
  BY DEF Noted, LastOf
<1>3. i < j
  BY <1>1, <1>2 DEF NotesComeFirst
<1>4. Len(usage) \in Nat /\ DOMAIN usage = 1..Len(usage) /\ MaxEvents \in Nat
  BY BoundsAssumption DEF Typed, StateIsTyped
<1>5. j > Len(usage) - MaxEvents
  BY <1>1, <1>2, <1>3, <1>4
<1>6. j \in LastOf(usage)
  BY <1>1, <1>5 DEF LastOf
<1> QED BY <1>1, <1>6 DEF Closed

LEMMA ReadUsesOwes ==
    ASSUME Typed, NotesComeFirst, UsesAreOwed, ReadUses, NEW id \in RecordIds
    PROVE  ClosedCount(run, id) + TodoCount(id)' <= NotedCount(run, id)
<1> DEFINE I == {i \in Noted : usage[i].id \notin Closed}
           P == Places(todo', {id})
<1>1. usage \in Seq(UsageEvents) /\ I \in SUBSET DOMAIN usage
  BY DEF Typed, StateIsTyped, Noted, LastOf
<1>2. OpenUses = Kept(usage, I)
  BY DEF OpenUses
<1>3. PICK f \in [DOMAIN OpenUses -> I] :
          /\ \A k \in DOMAIN OpenUses : OpenUses[k] = usage[f[k]]
          /\ \A k, l \in DOMAIN OpenUses : f[k] = f[l] => k = l
  <2> HIDE DEF I
  <2> QED BY <1>1, <1>2, KeptPositions
<1>4. P = {k \in DOMAIN OpenUses : OpenUses[k].id = id}
  BY DEF ReadUses, Places
<1> DEFINE uses == OpenUses
<1> HIDE DEF uses
<1>5. \A k \in P : k \in DOMAIN uses /\ f[k] \in I /\ usage[f[k]].id = id
  BY <1>3, <1>4 DEF uses
<1>6. /\ ClosedCount(run, id) \in Nat /\ NotedCount(run, id) \in Nat
      /\ IsFiniteSet(NotedUses(run, id)) /\ ClosedCount(run, id) <= NotedCount(run, id)
  BY CountTypes DEF Typed, StateIsTyped, UsesAreOwed
<1>7. CASE P = {}
  <2>1. TodoCount(id)' = 0
    BY <1>7, FS_EmptySet DEF TodoCount
  <2> QED BY <1>6, <2>1
<1>8. CASE P # {}
  <2>1. ClosedUses(run, id) = {}
    <3>1. PICK k \in P : TRUE
      BY <1>8
    <3>2. f[k] \in Noted /\ usage[f[k]].id \notin Closed /\ usage[f[k]].id = id
      BY <1>5
    <3> QED BY <3>2, OpenUsesAreNotClosed
  <2>2. ClosedCount(run, id) = 0
    BY <2>1, FS_EmptySet DEF ClosedCount
  <2> DEFINE g == [k \in P |-> f[k]]
  <2>3. g \in Injection(P, NotedUses(run, id))
    <3>1. \A k \in P : f[k] \in NotedUses(run, id)
      BY <1>1, <1>5 DEF Noted, NotedUses
    <3>2. \A k, l \in P : f[k] = f[l] => k = l
      BY <1>3, <1>5 DEF uses
    <3> HIDE DEF P
    <3> QED BY <3>1, <3>2 DEF Injection, IsInjective
  <2> HIDE DEF g
  <2>4. IsFiniteSet(P) /\ Cardinality(P) <= NotedCount(run, id)
    BY <1>6, <2>3, FS_Injection DEF NotedCount
  <2>5. Cardinality(P) \in Nat /\ TodoCount(id)' = Cardinality(P)
    BY <2>4, FS_CardinalityType DEF TodoCount
  <2> HIDE DEF P
  <2> QED BY <1>6, <2>2, <2>4, <2>5
<1> QED BY <1>7, <1>8

LEMMA OwedStep ==
    ASSUME Typed, NotesComeFirst, UsesAreOwed, [Next]_vars
    PROVE  UsesAreOwed'
<1>1. \A r, id : /\ NotedCount(r, id) \in Nat /\ ClosedCount(r, id) \in Nat
                /\ AnsweredCount(r, id) \in Nat /\ TodoCount(id) \in Nat
  BY CountTypes DEF Typed
<1>2. UNCHANGED usage =>
          \A r, id : NotedCount(r, id)' = NotedCount(r, id) /\ ClosedCount(r, id)' = ClosedCount(r, id)
  BY DEF NotedCount, ClosedCount, NotedUses, ClosedUses
<1>3. UNCHANGED feedback => \A r, id : AnsweredCount(r, id)' = AnsweredCount(r, id)
  BY DEF AnsweredCount, Answered
<1>4. UNCHANGED todo => \A id : TodoCount(id)' = TodoCount(id)
  BY DEF TodoCount
<1>5. run \in Nat /\ todo \in Seq(RecordIds) /\ feedback \in Seq(FeedbackEvents)
  BY DEF Typed, StateIsTyped
<1>6. CASE RecordUse
  <2> DEFINE x == Head(todo)
             e == UsageEvent(x, "pending")
  <2>1. e \in UsageEvents /\ usage' = Append(usage, e) /\ e.run = run /\ e.id = x /\ e.outcome = "pending"
    BY <1>6, UsageShape DEF RecordUse, UsageEvent
  <2>2. UNCHANGED <<feedback, run, at, half>> /\ at = "recording" /\ ~half
    BY <1>6 DEF RecordUse, Typed, TypeOK
  <2> HIDE DEF e
  <2>3. \A r, id : /\ NotedCount(r, id)' >= NotedCount(r, id) /\ NotedCount(r, id)' \in Nat
                  /\ ClosedCount(r, id)' = ClosedCount(r, id)
    <3> TAKE r, id
    <3>1. /\ NotedCount(r, id)' = NotedCount(r, id) + (IF e.run = r /\ e.id = id THEN 1 ELSE 0)
          /\ ClosedCount(r, id)' = ClosedCount(r, id) + 0
      BY <2>1, UsageAppended DEF Typed
    <3> QED BY <1>1, <3>1
  <2>4. \A r \in Nat, id \in RecordIds :
            /\ ClosedCount(r, id)' <= NotedCount(r, id)'
            /\ AnsweredCount(r, id)' <= ClosedCount(r, id)'
    BY <1>1, <1>3, <2>2, <2>3 DEF UsesAreOwed
  <2> QED BY <2>2, <2>4 DEF UsesAreOwed
<1>7. CASE CloseUse
  <2>0. PICK x \in RecordIds : x = Head(todo)
    BY <1>7 DEF CloseUse, Typed, StateIsTyped
  <2> DEFINE e == UsageEvent(x, outcome.usage)
  <2>1. /\ e \in UsageEvents /\ usage' = Append(usage, e) /\ e.run = run /\ e.id = x
        /\ e.outcome # "pending"
    BY <1>7, <2>0, UsageShape DEF CloseUse, UsageEvent
  <2>2. /\ UNCHANGED <<feedback, run, at, todo>> /\ at = "judging" /\ ~half /\ half' = TRUE
        /\ todo # <<>> /\ Head(todo) = x /\ Tail(todo) \in Seq(RecordIds)
    BY <1>5, <1>7, <2>0 DEF CloseUse
  <2> HIDE DEF e
  <2>3. \A r, id : /\ NotedCount(r, id)' = NotedCount(r, id)
                  /\ ClosedCount(r, id)' =
                       IF r = run /\ id = x THEN ClosedCount(r, id) + 1 ELSE ClosedCount(r, id)
    <3> TAKE r, id
    <3>1. /\ NotedCount(r, id)' = NotedCount(r, id) + 0
          /\ ClosedCount(r, id)' = ClosedCount(r, id) + (IF e.run = r /\ e.id = id THEN 1 ELSE 0)
      BY <2>1, UsageAppended DEF Typed
    <3> QED BY <1>1, <2>1, <3>1
  <2>4. TodoCount(x) >= 1
    <3>1. Cardinality(Places(Tail(todo), {x})) + (IF Head(todo) \in {x} THEN 1 ELSE 0) <= TodoCount(x)
      BY <1>5, <2>2, PlacesInTail DEF TodoCount
    <3>2. Cardinality(Places(Tail(todo), {x})) \in Nat
      BY <1>5, <2>2, PlacesAreFinite
    <3>3. Head(todo) \in {x}
      BY <2>2
    <3> QED BY <1>1, <3>1, <3>2, <3>3
  <2>5. \A id \in RecordIds : ClosedCount(run, id) + TodoCount(id) <= NotedCount(run, id)
    <3>1. \A id \in RecordIds : ClosedCount(run, id) + TodoCount(id) <= NotedCount(run, id) + 0
      BY <2>2 DEF UsesAreOwed
    <3> QED BY <1>1, <3>1
  <2>6. \A r \in Nat, id \in RecordIds :
            /\ ClosedCount(r, id)' <= NotedCount(r, id)'
            /\ AnsweredCount(r, id)' <= ClosedCount(r, id)'
    <3> TAKE r \in Nat, id \in RecordIds
    <3>1. ClosedCount(r, id) <= NotedCount(r, id) /\ AnsweredCount(r, id) <= ClosedCount(r, id)
      BY DEF UsesAreOwed
    <3>2. AnsweredCount(r, id)' = AnsweredCount(r, id)
      BY <1>3, <2>2
    <3>3. CASE r = run /\ id = x
      BY <1>1, <2>3, <2>4, <2>5, <3>1, <3>2, <3>3
    <3>4. CASE ~(r = run /\ id = x)
      BY <2>3, <3>1, <3>2, <3>4
    <3> QED BY <3>3, <3>4
  <2>7. \A id \in RecordIds :
            ClosedCount(run, id)' + TodoCount(id)'
              <= NotedCount(run, id)' + (IF x = id THEN 1 ELSE 0)
    <3> TAKE id \in RecordIds
    <3>1. TodoCount(id)' = TodoCount(id) /\ NotedCount(run, id)' = NotedCount(run, id)
      BY <1>4, <2>2, <2>3
    <3>2. ClosedCount(run, id)' = IF id = x THEN ClosedCount(run, id) + 1 ELSE ClosedCount(run, id)
      BY <2>2, <2>3
    <3>3. ClosedCount(run, id) + TodoCount(id) <= NotedCount(run, id)
      BY <2>5
    <3> QED BY <1>1, <3>1, <3>2, <3>3
  <2>8. AnsweredCount(run, x)' < ClosedCount(run, x)'
    <3>1. AnsweredCount(run, x) <= ClosedCount(run, x)
      BY <1>5, <2>2 DEF UsesAreOwed
    <3>2. ClosedCount(run, x)' = ClosedCount(run, x) + 1
      BY <2>2, <2>3
    <3>3. AnsweredCount(run, x)' = AnsweredCount(run, x)
      BY <1>3, <2>2
    <3> QED BY <1>1, <3>1, <3>2, <3>3
  <2>9. Head(todo') = x /\ run' = run /\ at' = "judging" /\ half' = TRUE
    BY <2>2
  <2> QED BY <2>6, <2>7, <2>8, <2>9 DEF UsesAreOwed
<1>8. CASE GiveFeedback
  <2>0. PICK x \in RecordIds : x = Head(todo)
    BY <1>8 DEF GiveFeedback, Typed, TypeOK, StateIsTyped
  <2> DEFINE e == [run |-> run, id |-> x, signal |-> outcome.signal]
  <2>1. /\ at = "judging" /\ half /\ half' = FALSE /\ todo # <<>> /\ x = Head(todo)
        /\ outcome.signal \in Signals /\ Tail(todo) \in Seq(RecordIds)
        /\ feedback' = Append(feedback, e) /\ todo' = Tail(todo) /\ UNCHANGED <<usage, run, at>>
    BY <1>8, <2>0 DEF GiveFeedback, Typed, TypeOK, StateIsTyped
  <2>2. e \in FeedbackEvents /\ e.run = run /\ e.id = x
    BY <1>5, <2>1 DEF FeedbackEvents
  <2> HIDE DEF e
  <2>3. \A r, id : AnsweredCount(r, id)' = IF r = run /\ id = x THEN AnsweredCount(r, id) + 1
                                          ELSE AnsweredCount(r, id)
    <3> TAKE r, id
    <3>1. AnsweredCount(r, id)' = AnsweredCount(r, id) + (IF e.run = r /\ e.id = id THEN 1 ELSE 0)
      BY <2>1, <2>2, FeedbackAppended DEF Typed
    <3> QED BY <1>1, <2>2, <3>1
  <2>4. \A id : /\ TodoCount(id)' \in Nat
               /\ TodoCount(id)' + (IF x = id THEN 1 ELSE 0) <= TodoCount(id)
    <3> TAKE id
    <3>1. Cardinality(Places(Tail(todo), {id})) + (IF Head(todo) \in {id} THEN 1 ELSE 0) <= TodoCount(id)
      BY <1>5, <2>1, PlacesInTail DEF TodoCount
    <3>2. Cardinality(Places(Tail(todo), {id})) \in Nat
      BY <1>5, <2>1, PlacesAreFinite
    <3>3. TodoCount(id)' = Cardinality(Places(Tail(todo), {id}))
      BY <2>1 DEF TodoCount
    <3> QED BY <2>1, <3>1, <3>2, <3>3
  <2>5. AnsweredCount(run, x) < ClosedCount(run, x)
    BY <2>1 DEF UsesAreOwed
  <2>6. \A id \in RecordIds :
            ClosedCount(run, id) + TodoCount(id) <= NotedCount(run, id) + (IF x = id THEN 1 ELSE 0)
    BY <2>1 DEF UsesAreOwed
  <2>7. \A r \in Nat, id \in RecordIds :
            ClosedCount(r, id)' <= NotedCount(r, id)' /\ AnsweredCount(r, id)' <= ClosedCount(r, id)'
    <3> TAKE r \in Nat, id \in RecordIds
    <3>1. ClosedCount(r, id) <= NotedCount(r, id) /\ AnsweredCount(r, id) <= ClosedCount(r, id)
      BY DEF UsesAreOwed
    <3>2. ClosedCount(r, id)' = ClosedCount(r, id) /\ NotedCount(r, id)' = NotedCount(r, id)
      BY <1>2, <2>1
    <3>3. CASE r = run /\ id = x
      BY <1>1, <2>3, <2>5, <3>1, <3>2, <3>3
    <3>4. CASE ~(r = run /\ id = x)
      BY <2>3, <3>1, <3>2, <3>4
    <3> QED BY <3>3, <3>4
  <2>8. \A id \in RecordIds : ClosedCount(run, id)' + TodoCount(id)' <= NotedCount(run, id)'
    <3> TAKE id \in RecordIds
    <3>1. ClosedCount(run, id)' = ClosedCount(run, id) /\ NotedCount(run, id)' = NotedCount(run, id)
      BY <1>2, <2>1
    <3>2. CASE id = x
      BY <1>1, <2>4, <2>6, <3>1, <3>2
    <3>3. CASE id # x
      BY <1>1, <2>4, <2>6, <3>1, <3>3
    <3> QED BY <3>2, <3>3
  <2>9. \A id \in RecordIds :
            ClosedCount(run, id)' + TodoCount(id)'
              <= NotedCount(run, id)' + (IF half' /\ Head(todo') = id THEN 1 ELSE 0)
    <3> TAKE id \in RecordIds
    <3>1. NotedCount(run, id)' = NotedCount(run, id)
      BY <1>2, <2>1
    <3> QED BY <1>1, <2>1, <2>8, <3>1
  <2> QED BY <2>1, <2>7, <2>9 DEF UsesAreOwed
<1>9. CASE ReadUses
  <2>1. /\ at' = "judging" /\ ~half' /\ UNCHANGED <<usage, feedback, run>>
    BY <1>9 DEF ReadUses, Typed, TypeOK
  <2>2. \A r \in Nat, id \in RecordIds :
            ClosedCount(r, id)' <= NotedCount(r, id)' /\ AnsweredCount(r, id)' <= ClosedCount(r, id)'
    BY <1>2, <1>3, <2>1 DEF UsesAreOwed
  <2>3. \A id \in RecordIds :
            ClosedCount(run, id)' + TodoCount(id)'
              <= NotedCount(run, id)' + (IF half' /\ Head(todo') = id THEN 1 ELSE 0)
    <3> TAKE id \in RecordIds
    <3>1. ClosedCount(run, id) + TodoCount(id)' <= NotedCount(run, id)
      BY <1>9, ReadUsesOwes
    <3>2. ClosedCount(run, id)' = ClosedCount(run, id) /\ NotedCount(run, id)' = NotedCount(run, id)
      BY <1>2, <2>1
    <3> QED BY <1>1, <2>1, <3>1, <3>2
  <2> QED BY <2>1, <2>2, <2>3 DEF UsesAreOwed
<1>10. ASSUME UNCHANGED <<usage, feedback>>,
              \/ at' # "judging" /\ ~half'
              \/ UNCHANGED <<at, todo, half, run>>
       PROVE  UsesAreOwed'
  <2>1. \A r \in Nat, id \in RecordIds :
            ClosedCount(r, id)' <= NotedCount(r, id)' /\ AnsweredCount(r, id)' <= ClosedCount(r, id)'
    BY <1>2, <1>3, <1>10 DEF UsesAreOwed
  <2>2. CASE at' # "judging" /\ ~half'
    BY <2>1, <2>2 DEF UsesAreOwed
  <2>3. CASE UNCHANGED <<at, todo, half, run>>
    <3>1. \A id : /\ ClosedCount(run, id)' = ClosedCount(run, id)
                 /\ NotedCount(run, id)' = NotedCount(run, id)
                 /\ AnsweredCount(run, id)' = AnsweredCount(run, id)
                 /\ TodoCount(id)' = TodoCount(id)
      BY <1>2, <1>3, <1>4, <1>10, <2>3
    <3> QED BY <2>1, <2>3, <3>1 DEF UsesAreOwed
  <2> QED BY <1>10, <2>2, <2>3
<1>11. CASE WriteMemory
  <2>1. UNCHANGED <<usage, feedback, half>> /\ at' = "written" /\ ~half
    BY <1>11, WriteShape DEF Typed, TypeOK
  <2> QED BY <1>10, <2>1
<1>12. CASE ~RecordUse /\ ~CloseUse /\ ~GiveFeedback /\ ~ReadUses /\ ~WriteMemory
  <2>0. half => at = "judging"
    BY DEF Typed, TypeOK
  <2>1. /\ UNCHANGED <<usage, feedback>>
        /\ \/ at' # "judging" /\ ~half'
           \/ UNCHANGED <<at, todo, half, run>>
    <3>1. CASE StartRun \/ Retrieve \/ RetrieverEnds \/ Commit \/ WriterEnds \/ CompactionEnds
                 \/ EndRun \/ Crash
      <4>1. UNCHANGED <<usage, feedback>> /\ at' # "judging"
        BY <3>1 DEF StartRun, Retrieve, RetrieverEnds, Commit, WriterEnds, CompactionEnds, EndRun,
                    Crash
      <4>2. ~half'
        BY <2>0, <3>1 DEF StartRun, Retrieve, RetrieverEnds, Commit, WriterEnds, CompactionEnds,
                          EndRun, Crash
      <4> QED BY <4>1, <4>2
    <3>3. CASE Merges
      BY <3>3, MergesKeepTheRest
    <3>2. CASE Ages \/ UNCHANGED vars
      BY <3>2 DEF Ages, vars, runState
    <3> QED BY <1>12, <3>1, <3>2, <3>3 DEF Next, Retriever, Writer, Compaction, Merges
  <2> QED BY <1>10, <2>1
<1> QED BY <1>6, <1>7, <1>8, <1>9, <1>11, <1>12

(***************************************************************************)
(* THEOREM: a use a run noted counts for its record at most once.          *)
(***************************************************************************)
Owing == NotesComeFirst /\ UsesAreOwed

LEMMA OwingHolds == Spec => []Owing
<1>1. Init => Owing
  <2> SUFFICES ASSUME Init PROVE Owing
    OBVIOUS
  <2>1. usage = <<>> /\ feedback = <<>> /\ at = "idle" /\ ~half
    BY DEF Init
  <2>2. NotesComeFirst
    BY <2>1 DEF NotesComeFirst
  <2>3. \A r, id : NotedCount(r, id) = 0 /\ ClosedCount(r, id) = 0 /\ AnsweredCount(r, id) = 0
    <3>1. \A r, id : NotedUses(r, id) = {} /\ ClosedUses(r, id) = {} /\ Answered(r, id) = {}
      BY <2>1 DEF NotedUses, ClosedUses, Answered
    <3> QED BY <3>1, FS_EmptySet DEF NotedCount, ClosedCount, AnsweredCount
  <2> QED BY <2>1, <2>2, <2>3 DEF UsesAreOwed, Owing
<1>2. Typed /\ Owing /\ [Next]_vars => Owing'
  BY NotesStep, OwedStep DEF Owing
<1> QED BY <1>1, <1>2, TypedHolds, PTL DEF Spec

THEOREM NoUseCountsTwice == Spec => []UsesCountOnce
<1>1. Typed /\ Owing => UsesCountOnce
  <2> SUFFICES ASSUME Typed, Owing, NEW i \in DOMAIN usage
               PROVE  CountedOnce(usage[i].run, usage[i].id)
    BY DEF UsesCountOnce
  <2>1. usage[i] \in UsageEvents
    BY DEF Typed, StateIsTyped
  <2>2. usage[i].run \in Nat /\ usage[i].id \in RecordIds
    BY <2>1 DEF UsageEvents
  <2> QED BY <2>2 DEF Owing, UsesAreOwed, CountedOnce, NotedCount, ClosedCount, AnsweredCount
<1> QED BY <1>1, TypedHolds, OwingHolds, PTL

(***************************************************************************)
(* What becomes of a use in a run that no crash disturbs: the file still   *)
(* has it when the writer reads, and the writer answers it.                *)
(***************************************************************************)
IsAnswered(i) == Answered(usage[i].run, usage[i].id) # {}
Waiting(i) == i \in Noted /\ usage[i].id \notin Closed

Handled(i) ==
    /\ at # "retrieving"
    /\ at = "recording" => i > Len(usage) + Len(todo) - MaxRetrieved
    /\ at = "working" => IsAnswered(i) \/ (tasks = 0 /\ Waiting(i))
    /\ at = "closing" => IsAnswered(i) \/ Waiting(i)
    /\ at = "judging" => IsAnswered(i) \/ \E k \in DOMAIN todo : todo[k] = usage[i].id
    /\ at \in {"written", "compacting"} => IsAnswered(i)

RunsEndAtRest ==
    /\ \A r \in ended : r \in Nat /\ r <= run
    /\ run \in ended => at = "idle"
    /\ at \in {"retrieving", "recording"} => tasks = 0
    /\ at = "recording" => Len(todo) <= MaxRetrieved

UsesAreHandled ==
    ~Contains(crashed, run) => \A i \in DOMAIN usage : usage[i].run = run => Handled(i)

LEMMA RestStep ==
    ASSUME Typed, RunsEndAtRest, [Next]_vars
    PROVE  RunsEndAtRest'
<1>1. run \in Nat /\ todo \in Seq(RecordIds) /\ MaxRetrieved \in Nat
  BY BoundsAssumption DEF Typed, StateIsTyped
<1>2. CASE StartRun
  BY <1>1, <1>2 DEF StartRun, RunsEndAtRest
<1>3. CASE Retrieve
  <2>1. at' = "recording" => Len(todo') <= MaxRetrieved
    BY <1>3, RetrieveShape DEF Typed, Retrieve
  <2>2. at = "retrieving" /\ UNCHANGED <<run, ended, tasks>>
    BY <1>3 DEF Retrieve
  <2> QED BY <2>1, <2>2 DEF RunsEndAtRest
<1>4. CASE RecordUse
  <2>1. Len(todo') = Len(todo) - 1 /\ Len(todo) \in Nat
    BY <1>1, <1>4 DEF RecordUse
  <2> QED BY <1>1, <1>4, <2>1 DEF RecordUse, RunsEndAtRest
<1>5. CASE EndRun
  BY <1>1, <1>5 DEF EndRun, RunsEndAtRest
<1>6. CASE WriteMemory
  BY <1>6, WriteShape DEF Typed, RunsEndAtRest
<1>7. CASE RetrieverEnds \/ Commit \/ ReadUses \/ CloseUse \/ GiveFeedback \/ WriterEnds
             \/ CompactionEnds
  <2>1. UNCHANGED <<run, ended>> /\ at' \notin {"retrieving", "recording"} /\ at # "idle"
    BY <1>7 DEF RetrieverEnds, Commit, ReadUses, CloseUse, GiveFeedback, WriterEnds, CompactionEnds
  <2> QED BY <2>1 DEF RunsEndAtRest
<1>8. CASE Crash
  <2>1. /\ UNCHANGED <<run, ended, tasks>> /\ at' # "recording" /\ at # "idle"
        /\ at' = "retrieving" => at = "recording"
    BY <1>8 DEF Crash
  <2> QED BY <2>1 DEF RunsEndAtRest
<1>9. CASE Ages \/ UNCHANGED vars
  BY <1>9 DEF Ages, vars, runState, RunsEndAtRest
<1>10. CASE Merges
  BY <1>10, MergesKeepTheRest DEF RunsEndAtRest
<1> QED BY <1>2, <1>3, <1>4, <1>5, <1>6, <1>7, <1>8, <1>9, <1>10
        DEF Next, Retriever, Writer, Compaction, Merges

\* No answer is taken back, and no crash.
LEMMA AnswersStay ==
    ASSUME Typed, [Next]_vars
    PROVE  /\ \A r, id : Answered(r, id) # {} => Answered(r, id)' # {}
           /\ \A r : Contains(crashed, r) => Contains(crashed', r)
           /\ GiveFeedback => \A r, id : r = run /\ id = Head(todo) => Answered(r, id)' # {}
<1>1. crashed \in Seq(Nat) /\ run \in Nat /\ feedback \in Seq(FeedbackEvents)
  BY DEF Typed, StateIsTyped
<1>2. CASE GiveFeedback
  <2>1. PICK e : feedback' = Append(feedback, e) /\ e.run = run /\ e.id = Head(todo)
    BY <1>2 DEF GiveFeedback
  <2> DEFINE n == Len(feedback)
  <2>2. /\ n \in Nat /\ DOMAIN feedback = 1..n /\ DOMAIN feedback' = 1..(n + 1)
        /\ feedback'[n + 1] = e /\ \A i \in 1..n : feedback'[i] = feedback[i]
    BY <1>1, <2>1
  <2> HIDE DEF n
  <2>3. \A r, id : Answered(r, id) # {} => Answered(r, id)' # {}
    <3> SUFFICES ASSUME NEW r, NEW id, NEW i \in Answered(r, id) PROVE i \in Answered(r, id)'
      OBVIOUS
    <3> QED BY <2>2 DEF Answered
  <2>4. \A r, id : r = run /\ id = Head(todo) => n + 1 \in Answered(r, id)'
    BY <2>1, <2>2 DEF Answered
  <2>5. UNCHANGED crashed
    BY <1>2 DEF GiveFeedback
  <2> QED BY <2>3, <2>4, <2>5
<1>3. CASE ~GiveFeedback
  <2>1. UNCHANGED feedback /\ (UNCHANGED crashed \/ crashed' = Append(crashed, run))
    <3>1. CASE WriteMemory
      BY <3>1, WriteShape DEF Typed
    <3>2. CASE Merges
      BY <3>2, MergesKeepTheRest
    <3>3. CASE ~WriteMemory /\ ~Merges
      BY <1>3, <3>3 DEF Next, vars, StartRun, Retriever, Retrieve, RecordUse, RetrieverEnds, Commit,
                  Writer, ReadUses, CloseUse, WriterEnds, Compaction, CompactionEnds, Merges, EndRun,
                  Crash, Ages
    <3> QED BY <3>1, <3>2, <3>3
  <2>2. \A r, id : Answered(r, id) # {} => Answered(r, id)' # {}
    BY <2>1 DEF Answered
  <2>3. \A r : Contains(crashed, r) => Contains(crashed', r)
    <3>1. CASE UNCHANGED crashed
      BY <3>1
    <3>2. CASE crashed' = Append(crashed, run)
      <4>1. /\ Len(crashed) \in Nat /\ Len(crashed') = Len(crashed) + 1
            /\ \A j \in 1..Len(crashed) : crashed'[j] = crashed[j]
        BY <1>1, <3>2
      <4> QED BY <4>1 DEF Contains
    <3> QED BY <2>1, <3>1, <3>2
  <2> QED BY <1>3, <2>2, <2>3
<1> QED BY <1>2, <1>3

\* A crash leaves its mark on the run.
LEMMA CrashIsRemembered ==
    ASSUME Typed, Crash
    PROVE  Contains(crashed', run')
<1>1. crashed \in Seq(Nat) /\ run \in Nat /\ run' = run /\ crashed' = Append(crashed, run)
  BY DEF Typed, StateIsTyped, Crash
<1>2. Len(crashed') = Len(crashed) + 1 /\ Len(crashed) \in Nat /\ crashed'[Len(crashed) + 1] = run
  BY <1>1
<1> QED BY <1>1, <1>2 DEF Contains

\* Every use that waits is taken up.
LEMMA WaitingIsRead ==
    ASSUME Typed, ReadUses, NEW i \in DOMAIN usage, Waiting(i)
    PROVE  \E k \in DOMAIN todo' : todo'[k] = usage[i].id
<1> DEFINE I == {j \in Noted : usage[j].id \notin Closed}
           uses == OpenUses
<1>1. usage \in Seq(UsageEvents) /\ I \in SUBSET DOMAIN usage /\ i \in I
  BY DEF Typed, StateIsTyped, Noted, LastOf, Waiting
<1>2. uses = Kept(usage, I)
  BY DEF OpenUses
<1> HIDE DEF I
<1>3. PICK k \in DOMAIN uses : uses[k] = usage[i]
  BY <1>1, <1>2, KeptElements
<1>4. todo' = [j \in DOMAIN uses |-> uses[j].id]
  BY DEF ReadUses
<1> HIDE DEF uses
<1> QED BY <1>3, <1>4

LEMMA HandledStep ==
    ASSUME Typed, NotesComeFirst, RunsEndAtRest, UsesAreHandled, [Next]_vars
    PROVE  UsesAreHandled'
<1> SUFFICES ASSUME ~Contains(crashed', run'), NEW i \in DOMAIN usage', usage'[i].run = run'
             PROVE  Handled(i)'
  BY DEF UsesAreHandled
<1> DEFINE n == Len(usage)
<1>1. /\ usage \in Seq(UsageEvents) /\ n \in Nat /\ DOMAIN usage = 1..n /\ run \in Nat
      /\ todo \in Seq(RecordIds) /\ Len(todo) \in Nat
      /\ MaxRetrieved \in Nat /\ MaxEvents \in Nat /\ MaxRetrieved <= MaxEvents
  BY BoundsAssumption, EventsAssumption DEF Typed, StateIsTyped
<1>2. ASSUME UNCHANGED <<usage, run>> PROVE Handled(i) /\ i \in DOMAIN usage /\ usage[i].run = run
  BY <1>2, AnswersStay DEF UsesAreHandled
<1>3. ASSUME UNCHANGED usage PROVE IsAnswered(i) => IsAnswered(i)'
  BY <1>3, AnswersStay DEF IsAnswered
<1>4. ASSUME UNCHANGED <<usage, run>> PROVE Waiting(i) => Waiting(i)'
  BY <1>4 DEF Waiting, Noted, Closed, LastOf
<1>5. CASE StartRun
  BY <1>1, <1>5 DEF StartRun, NotesComeFirst, Typed, StateIsTyped
<1>6. CASE Retrieve
  BY <1>2, <1>6 DEF Retrieve, Handled
<1>7. CASE RecordUse
  <2>1. usage' = Append(usage, UsageEvent(Head(todo), "pending")) /\ todo' = Tail(todo) /\ todo # <<>>
        /\ at = "recording" /\ UNCHANGED <<run, at, crashed>>
    BY <1>7 DEF RecordUse
  <2>2. /\ Len(usage') = n + 1 /\ DOMAIN usage' = 1..(n + 1) /\ Len(todo') = Len(todo) - 1
        /\ \A j \in 1..n : usage'[j] = usage[j]
    BY <1>1, <2>1
  <2>3. Len(usage') + Len(todo') = n + Len(todo)
    BY <1>1, <2>2
  <2>4. Len(todo) <= MaxRetrieved
    BY <2>1 DEF RunsEndAtRest
  <2>5. i > n + Len(todo) - MaxRetrieved
    <3>1. CASE i \in 1..n
      BY <1>1, <2>1, <2>2, <3>1 DEF UsesAreHandled, Handled
    <3>2. CASE i = n + 1
      BY <1>1, <2>4, <3>2
    <3> QED BY <1>1, <2>2, <3>1, <3>2
  <2>6. i > Len(usage') + Len(todo') - MaxRetrieved
    BY <1>1, <2>2, <2>3, <2>5
  <2>7. at' = "recording"
    BY <2>1
  <2> QED BY <2>6, <2>7 DEF Handled
<1>8. CASE RetrieverEnds
  <2>1. /\ UNCHANGED <<usage, run, tasks>> /\ at = "recording" /\ at' = "working" /\ todo = <<>>
    BY <1>8 DEF RetrieverEnds
  <2>2. i > n + Len(todo) - MaxRetrieved /\ i \in DOMAIN usage /\ usage[i].run = run
    BY <1>2, <2>1 DEF Handled
  <2>3. i > n - MaxEvents
    BY <1>1, <2>1, <2>2
  <2>4. \A j \in DOMAIN usage : usage[j].run = run => usage[j].outcome = "pending"
    BY <2>1 DEF NotesComeFirst
  <2>5. Waiting(i)
    BY <2>2, <2>3, <2>4 DEF Waiting, Noted, Closed, LastOf
  <2> QED BY <1>4, <2>1, <2>5 DEF Handled, RunsEndAtRest
<1>9. CASE Commit
  <2>1. UNCHANGED <<usage, run>> /\ at = "working" /\ at' = "closing"
    BY <1>9 DEF Commit
  <2>2. IsAnswered(i) \/ Waiting(i)
    BY <1>2, <2>1 DEF Handled
  <2> QED BY <1>3, <1>4, <2>1, <2>2 DEF Handled
<1>10. CASE ReadUses
  <2>1. UNCHANGED <<usage, run>> /\ at = "closing" /\ at' = "judging"
    BY <1>10 DEF ReadUses
  <2>2. i \in DOMAIN usage /\ (IsAnswered(i) \/ Waiting(i))
    BY <1>2, <2>1 DEF Handled
  <2>3. Waiting(i) => \E k \in DOMAIN todo' : todo'[k] = usage'[i].id
    BY <1>10, <2>1, <2>2, WaitingIsRead
  <2> QED BY <1>3, <2>1, <2>2, <2>3 DEF Handled
<1>11. CASE CloseUse
  <2>1. /\ usage' = Append(usage, UsageEvent(Head(todo), outcome.usage)) /\ todo # <<>>
        /\ at = "judging" /\ UNCHANGED <<run, at, todo, crashed, feedback>>
    BY <1>11 DEF CloseUse
  <2>2. /\ DOMAIN usage' = 1..(n + 1) /\ \A j \in 1..n : usage'[j] = usage[j]
        /\ usage'[n + 1].id = Head(todo)
    BY <1>1, <2>1 DEF UsageEvent
  <2>3. CASE i \in 1..n
    <3>1. IsAnswered(i) \/ \E k \in DOMAIN todo : todo[k] = usage[i].id
      BY <1>1, <2>1, <2>2, <2>3 DEF UsesAreHandled, Handled
    <3>2. IsAnswered(i) => IsAnswered(i)'
      BY <2>1, <2>2, <2>3 DEF IsAnswered, Answered
    <3> QED BY <2>1, <2>2, <2>3, <3>1, <3>2 DEF Handled
  <2>4. CASE i = n + 1
    <3>1. 1 \in DOMAIN todo' /\ todo'[1] = usage'[i].id
      BY <1>1, <2>1, <2>2, <2>4
    <3> QED BY <2>1, <3>1 DEF Handled
  <2> QED BY <1>1, <2>2, <2>3, <2>4
<1>12. CASE GiveFeedback
  <2>1. UNCHANGED <<usage, run, at>> /\ at = "judging" /\ todo' = Tail(todo) /\ todo # <<>>
    BY <1>12 DEF GiveFeedback, Typed, TypeOK
  <2>2. usage[i].run = run /\ (IsAnswered(i) \/ \E k \in DOMAIN todo : todo[k] = usage[i].id)
    BY <1>2, <2>1 DEF Handled
  <2>3. IsAnswered(i) => IsAnswered(i)'
    BY <2>1, AnswersStay DEF IsAnswered
  <2>4. ASSUME NEW k \in DOMAIN todo, todo[k] = usage[i].id
        PROVE  IsAnswered(i)' \/ \E l \in DOMAIN todo' : todo'[l] = usage'[i].id
    <3>1. CASE k = 1
      <4>1. usage[i].id = Head(todo)
        BY <1>1, <2>1, <2>4, <3>1
      <4>2. usage'[i].run = run /\ usage'[i].id = Head(todo)
        BY <2>1, <2>2, <4>1
      <4> QED BY <1>12, <4>2, AnswersStay DEF IsAnswered
    <3>2. CASE k # 1
      <4>1. k - 1 \in DOMAIN todo' /\ todo'[k - 1] = todo[k]
        BY <1>1, <2>1, <3>2
      <4> QED BY <2>1, <2>4, <4>1
    <3> QED BY <3>1, <3>2
  <2> QED BY <2>1, <2>2, <2>3, <2>4 DEF Handled
<1>13. CASE WriteMemory
  <2>1. UNCHANGED <<usage, run>> /\ at = "judging" /\ at' = "written" /\ todo = <<>>
    BY <1>13, WriteShape DEF Typed
  <2>2. IsAnswered(i)
    BY <1>2, <2>1 DEF Handled
  <2> QED BY <1>3, <2>1, <2>2 DEF Handled
<1>14. CASE WriterEnds \/ CompactionEnds
  <2>1. /\ UNCHANGED <<usage, run>> /\ at \in {"written", "compacting"}
        /\ at' \in {"compacting", "working"}
    BY <1>14 DEF WriterEnds, CompactionEnds
  <2>2. IsAnswered(i)
    BY <1>2, <2>1 DEF Handled
  <2> QED BY <1>3, <2>1, <2>2 DEF Handled
<1>15. CASE EndRun \/ Ages
  <2>1. at' = "idle"
    BY <1>15 DEF EndRun, Ages, runState
  <2> QED BY <2>1 DEF Handled
<1>16. CASE Crash
  BY <1>16, CrashIsRemembered
<1>17. CASE Merges \/ UNCHANGED vars
  <2>1. UNCHANGED <<usage, feedback, run, at, todo, tasks, crashed>>
    BY <1>17, MergesKeepTheRest DEF vars, runState
  <2> QED BY <1>2, <1>3, <1>4, <2>1 DEF Handled
<1> QED BY <1>5, <1>6, <1>7, <1>8, <1>9, <1>10, <1>11, <1>12, <1>13, <1>14, <1>15, <1>16, <1>17
        DEF Next, Retriever, Writer, Compaction, Merges

LEMMA CountedStep ==
    ASSUME Typed, RunsEndAtRest, UsesAreHandled, EndedRunsAreCounted, [Next]_vars
    PROVE  EndedRunsAreCounted'
<1> SUFFICES ASSUME NEW i \in DOMAIN usage', NEW r, NEW id, r = usage'[i].run, id = usage'[i].id,
                    r \in ended' \ blocked', ~Contains(crashed', r)
             PROVE  Answered(r, id)' # {}
  BY DEF EndedRunsAreCounted, Answered
<1>1. CASE EndRun
  <2>1. /\ UNCHANGED <<usage, run, crashed>> /\ at = "working" /\ ended' = ended \cup {run}
        /\ blocked' = IF tasks = 0 THEN blocked \cup {run} ELSE blocked
    BY <1>1 DEF EndRun
  <2>2. r \notin blocked /\ (r = run => tasks # 0)
    BY <2>1
  <2>3. usage[i].run = run => IsAnswered(i)
    BY <2>1, <2>2 DEF UsesAreHandled, Handled
  <2>4. Answered(r, id) # {}
    BY <2>1, <2>2, <2>3 DEF IsAnswered, EndedRunsAreCounted
  <2> QED BY <2>4, AnswersStay
<1>2. CASE ~EndRun
  <2>1. UNCHANGED <<ended, blocked>>
    <3>1. CASE WriteMemory
      BY <3>1, WriteShape DEF Typed
    <3>2. CASE Merges
      BY <3>2, MergesKeepTheRest
    <3>3. CASE ~WriteMemory /\ ~Merges
      BY <1>2, <3>3 DEF Next, vars, StartRun, Retriever, Retrieve, RecordUse, RetrieverEnds, Commit,
                  Writer, ReadUses, CloseUse, GiveFeedback, WriterEnds, Compaction, CompactionEnds,
                  Merges, Crash, Ages
    <3> QED BY <3>1, <3>2, <3>3
  <2>2. i \in DOMAIN usage /\ usage'[i] = usage[i]
    <3>1. CASE UNCHANGED usage
      BY <3>1
    <3>2. CASE \E e \in UsageEvents : usage' = Append(usage, e) /\ e.run = run /\ at # "idle"
      <4>1. PICK e \in UsageEvents : usage' = Append(usage, e) /\ e.run = run /\ at # "idle"
        BY <3>2
      <4>2. /\ Len(usage) \in Nat /\ DOMAIN usage = 1..Len(usage) /\ DOMAIN usage' = 1..(Len(usage) + 1)
            /\ usage'[Len(usage) + 1] = e /\ \A j \in 1..Len(usage) : usage'[j] = usage[j]
        BY <4>1, Appended DEF Typed, StateIsTyped
      <4>3. i # Len(usage) + 1
        BY <2>1, <4>1, <4>2 DEF RunsEndAtRest
      <4> QED BY <4>2, <4>3
    <3> QED BY <3>1, <3>2, UsageShape DEF UsageEvent
  <2>3. Answered(r, id) # {}
    BY <2>1, <2>2, AnswersStay DEF EndedRunsAreCounted
  <2> QED BY <2>3, AnswersStay
<1> QED BY <1>1, <1>2

(***************************************************************************)
(* THEOREM: when a run in which no node died is over, every record it was  *)
(* shown has its feedback, unless the checkpoint node ended the run before *)
(* its first task.                                                         *)
(***************************************************************************)
THEOREM NoUseIsForgotten == Spec => []EndedRunsAreCounted
<1> DEFINE Inv == RunsEndAtRest /\ UsesAreHandled /\ EndedRunsAreCounted
<1>1. Init => Inv
  <2> SUFFICES ASSUME Init PROVE Inv
    OBVIOUS
  <2>1. usage = <<>> /\ ended = {} /\ at = "idle"
    BY DEF Init
  <2> QED BY <2>1 DEF RunsEndAtRest, UsesAreHandled, EndedRunsAreCounted
<1>2. Typed /\ Owing /\ Inv /\ [Next]_vars => Inv'
  BY RestStep, HandledStep, CountedStep DEF Owing
<1>3. Inv => EndedRunsAreCounted
  OBVIOUS
<1> HIDE DEF Inv
<1> QED BY <1>1, <1>2, <1>3, TypedHolds, OwingHolds, PTL DEF Spec
=============================================================================

---------------------------- MODULE MemoryPlans ----------------------------
(***************************************************************************)
(* What the maintenance of the memory decides from the records it has      *)
(* listed: the passes of the lifecycle job (memory/lifecycle.py) and the   *)
(* grouping of the compaction (memory/compaction.py).  Both work on a list *)
(* read once, so a decision is a sequence of store calls that are made     *)
(* later, whatever has happened to the store in between.                   *)
(*                                                                         *)
(* A table is the sequence of its records by created_at, oldest first.     *)
(***************************************************************************)
EXTENDS Naturals, SequencesExt, Subsequences

CONSTANTS None,                 \* an absent key, pattern, id or call
          MinSummaryGroup,      \* BEGINNER_AGENT_MEMORY_LIFECYCLE_SUMMARY_MIN_GROUP_SIZE
          MinCompactionGroup,   \* BEGINNER_AGENT_MEMORY_COMPACTION_MIN_GROUP_SIZE
          MaxCompactionGroups   \* BEGINNER_AGENT_MEMORY_COMPACTION_MAX_GROUPS_PER_RUN

ASSUME GroupSizesAssumption ==
    /\ MinSummaryGroup \in Nat /\ MinSummaryGroup >= 2
    /\ MinCompactionGroup \in Nat \ {0}
    /\ MaxCompactionGroups \in Nat \ {0}

Ids(table) == {table[i].id : i \in DOMAIN table}
Records(table) == {table[i] : i \in DOMAIN table}
IsActive(r) == r.status = "active"
ActiveRecords(table) == Kept(table, {i \in DOMAIN table : IsActive(table[i])})

(* A record: id, key (contradiction_key), group (project, kind, tool and    *)
(* result: the stage of the project), pattern (of a failure), paths,        *)
(* plain (neither secret nor without a summary), source, status             *)
(* (validity_status), pinned, policy (retention_policy),                    *)
(* expires (it has an expires_at), value (its lifecycle score: below        *)
(* LOW_VALUE_THRESHOLD, above HIGH_VALUE_THRESHOLD or between), supersedes, *)
(* by (metadata.compaction.superseded_by).                                  *)

(* Store calls.  `fresh` tells a record with a new created_at from the      *)
(* rewriting of a listed one, which keeps its place.                        *)
Upsert(r, isFresh) == [call |-> "upsert", record |-> r, fresh |-> isFresh]
Mark(marked, newStatus, supersededBy) ==
    [call |-> "mark", ids |-> marked, status |-> newStatus, by |-> supersededBy]

---------------------------------------------------------------------------
(* The lifecycle job: four passes over one list of active records.         *)

Deprioritizations(listed) ==
    LET low == Kept(listed, {i \in DOMAIN listed : ~listed[i].pinned /\ listed[i].value = "low"})
    IN  [i \in DOMAIN low |-> Upsert([low[i] EXCEPT !.status = "deprecated"], FALSE)]

Promotions(listed) ==
    LET high == Kept(listed, {i \in DOMAIN listed : ~listed[i].pinned /\ listed[i].value = "high"})
    IN  [i \in DOMAIN high |-> Upsert([high[i] EXCEPT !.policy = "long_term"], FALSE)]

Keys(listed) == {r.key : r \in Records(listed)} \ {None}
KeyGroup(listed, k) == Kept(listed, {i \in DOMAIN listed : listed[i].key = k})

(* Of the listed records with one contradiction key the newest wins. *)
Fixes(listed, contested) ==
    [i \in DOMAIN contested |->
        LET g == KeyGroup(listed, contested[i])
        IN  Mark(Ids(Front(g)), "superseded", Last(g).id)]

\* Mutant: a pair is not a contradiction.
ContradictionFixesOfThree(listed) ==
    Fixes(listed, SetToSeq({k \in Keys(listed) : Len(KeyGroup(listed, k)) > 2}))

ContradictionFixes(listed) ==
    Fixes(listed, SetToSeq({k \in Keys(listed) : Len(KeyGroup(listed, k)) >= 2}))

SummaryGroup(listed, g) ==
    Kept(listed, {i \in DOMAIN listed :
        listed[i].group = g /\ listed[i].source \notin {"compaction", "lifecycle"}})

SummaryRecord(g, members) ==
    LET paths == UNION {r.paths : r \in Records(members)}
    IN  [id |-> <<"summary", g, paths>>, key |-> <<"summary", g>>, group |-> "summaries",
         pattern |-> None, paths |-> paths, plain |-> TRUE, source |-> "lifecycle",
         status |-> "active", pinned |-> FALSE, policy |-> "long_term", expires |-> FALSE, value |-> "mid",
         supersedes |-> Last(members).id, by |-> None]

(* One summary for each group that is large enough; it supersedes the       *)
(* newest record of its group.                                              *)
Summaries(listed) ==
    LET groups == SetToSeq({g \in {r.group : r \in Records(listed)} :
                               Len(SummaryGroup(listed, g)) >= MinSummaryGroup})
    IN  [i \in DOMAIN groups |->
            Upsert(SummaryRecord(groups[i], SummaryGroup(listed, groups[i])), TRUE)]

LifecyclePlan(listed) ==
    Deprioritizations(listed) \o Promotions(listed)
        \o ContradictionFixes(listed) \o Summaries(listed)

---------------------------------------------------------------------------
(* Compaction: groups of similar records, none of them in two groups.      *)

Compactable(table) ==
    {r \in Records(table) : IsActive(r) /\ ~r.pinned /\ r.source # "compaction" /\ r.plain}

(* The groups a record belongs to: its failure pattern, its files and its   *)
(* stage of the project.                                                    *)
GroupsOf(r) ==
    ({<<"failure", r.pattern>>} \ {<<"failure", None>>})
        \cup {<<"file", p>> : p \in r.paths} \cup {<<"project", r.group>>}

MembersOf(table, g) == {r \in Compactable(table) : g \in GroupsOf(r)}

Candidates(table) ==
    {g \in UNION {GroupsOf(r) : r \in Compactable(table)} :
        Cardinality(MembersOf(table, g)) >= MinCompactionGroup}

(* The outcomes of the greedy selection by score, for any scores. *)
Selections(table) ==
    LET overlap(g, h) == MembersOf(table, g) \cap MembersOf(table, h) # {}
    IN  {s \in SUBSET Candidates(table) :
            /\ Cardinality(s) <= MaxCompactionGroups
            /\ \A g, h \in s : g # h => ~overlap(g, h)
            /\ \/ Cardinality(s) = MaxCompactionGroups
               \/ \A g \in Candidates(table) \ s : \E h \in s : overlap(g, h)}

CompactedRecord(g, members) ==
    LET paths == UNION {r.paths : r \in members}
    IN  [id |-> <<"compact", g, paths>>, key |-> <<"compact", g>>, group |-> "compactions",
         pattern |-> None, paths |-> paths, plain |-> TRUE, source |-> "compaction",
         status |-> "active", pinned |-> FALSE, policy |-> "long_term", expires |-> FALSE,
         value |-> IF \A r \in members : r.value = "high" THEN "high" ELSE "mid",
         supersedes |-> (CHOOSE r \in members : TRUE).id, by |-> None]

\* Mutant: the sources are given up first.
CompactionCallsMarkFirst(table, g) ==
    LET members == MembersOf(table, g)
        compacted == CompactedRecord(g, members)
    IN  <<Mark({r.id : r \in members}, "superseded", compacted.id), Upsert(compacted, TRUE)>>

(* For each selected group: write the compacted record, then mark its       *)
(* sources.                                                                 *)
CompactionCalls(table, g) ==
    LET members == MembersOf(table, g)
        compacted == CompactedRecord(g, members)
    IN  <<Upsert(compacted, TRUE), Mark({r.id : r \in members}, "superseded", compacted.id)>>

CompactionPlan(table, groups) ==
    [i \in 1..(2 * Len(groups)) |->
        CompactionCalls(table, groups[(i + 1) \div 2])[IF i % 2 = 1 THEN 1 ELSE 2]]

CompactionPlans(table) == {CompactionPlan(table, SetToSeq(s)) : s \in Selections(table)}
============================================================================

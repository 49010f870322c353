---------------------------- MODULE MemoryStore ----------------------------
(***************************************************************************)
(* The long-term memory as its processes use it: agents that seed          *)
(* preferences, write what they learned and compact, and the lifecycle job *)
(* (memory/store.py, jsonl_store.py, postgres_store.py, retrieval.py,      *)
(* lifecycle.py, compaction.py).  Every process lists the table, decides   *)
(* (MemoryPlans) and then makes its calls one after the other.  What a     *)
(* lesson may be worth is MemoryScores' Evaluations.                       *)
(*                                                                         *)
(* A call has a beginning and an end.  In the file store it reads the file *)
(* and writes the last MaxRecords lines back, a part of them if it dies    *)
(* then; in PostgreSQL an upsert is a transaction whose UPDATEs see what   *)
(* was committed when they started.                                        *)
(***************************************************************************)
EXTENDS MemoryPlans, MemoryScores

CONSTANTS Agents,       \* the processes that run the graph
          Users,        \* the identities they run it for
          Preferences,  \* keys of DEFAULT_PREFERENCES
          Lessons,      \* ids of the records the memory writer may write
          LessonShape,  \* lesson -> [group, pattern, paths, plain], plain a set of BOOLEANs
          LessonEvaluations, \* bound: lesson -> the evaluations it may get
          AgentRuns,    \* bound: agent -> how often it uses the memory
          Overlapped,   \* bound: tables left by transactions that overlapped earlier
          MaxCrashes,   \* bound: how often a process dies
          MaxRecords,            \* MAX_MEMORY_RECORDS
          LifecycleSourceLimit,  \* how many records the job lists, at most MaxRecords
          CompactionSourceLimit  \* and a compaction

Job == "job"
Procs == Agents \cup {Job}

VARIABLES
    backend,    \* the configured store
    table,      \* its records, by created_at
    aged,       \* ids of the records whose expires_at has passed
    at,         \* process -> what it is doing
    user,       \* agent -> the identity of its current run
    todo,       \* process -> the calls it still has to make
    view,       \* process -> what its open call has read; None if no call is open
    runs,       \* agent -> uses left
    crashes,    \* how many processes died
    disturbed,  \* process -> what happened since it listed: another "call" ended, or
                \* its own dropped records from a full file, a "trim" (history)
    overlooked, \* ids of the records that were not on the job's list (history)
    lost        \* the file lost records to a race, a trim or a crash (history)

histories == <<disturbed, overlooked, lost>>
vars == <<backend, table, aged, at, user, todo, view, runs, crashes, histories>>
control == <<at, user, todo, runs, crashes>>

Preference(u, k) ==
    [id |-> <<"preference", k, u>>, key |-> <<"preference", k>>, group |-> "preferences",
     pattern |-> None, paths |-> {}, plain |-> TRUE, source |-> "writer",
     status |-> "active", pinned |-> TRUE, policy |-> "pinned", expires |-> FALSE, value |-> "high",
     supersedes |-> None, by |-> None]

LessonIds == {<<"lesson", l>> : l \in Lessons}

ASSUME LessonsAssumption ==
    /\ LessonEvaluations \in [Lessons -> SUBSET Evaluations]
    /\ \A l \in Lessons : IsFiniteSet(LessonShape[l].paths)
    /\ \A l \in Lessons : LessonShape[l].plain \subseteq BOOLEAN
    /\ AgentRuns \in [Agents -> Nat] /\ MaxCrashes \in Nat

ASSUME LimitsAssumption ==
    /\ MaxRecords \in Nat \ {0}
    /\ LifecycleSourceLimit \in 1..MaxRecords /\ CompactionSourceLimit \in 1..MaxRecords

ASSUME PreferencesAssumption ==
    /\ IsFiniteSet(Preferences) /\ Job \notin Agents
    /\ \A u \in Users, k \in Preferences : Preference(u, k).id # None

(* What every writer keeps to: only lessons expire, and they contradict     *)
(* nothing; what is active has not been replaced, and a lesson replaces     *)
(* nothing; the id of a preference tells its key.                           *)
WellFormed(r) ==
    /\ DOMAIN r = {"id", "key", "group", "pattern", "paths", "plain", "source", "status",
                   "pinned", "policy", "expires", "value", "supersedes", "by"}
    /\ IsFiniteSet(r.paths)
    /\ r.expires => r.id \in LessonIds
    /\ r.id \in LessonIds => r.key = None
    /\ IsActive(r) => r.by = None
    /\ r.by # None => r.by \notin LessonIds
    /\ \A u \in Users, k \in Preferences :
        r.id = Preference(u, k).id => r.key = Preference(u, k).key

IsTable(t) ==
    /\ t \in Seq(Records(t)) /\ \A r \in Records(t) : WellFormed(r)
    /\ \A i, j \in DOMAIN t : t[i].id = t[j].id => i = j

ASSUME OverlappedAssumption ==
    \A t \in Overlapped : IsTable(t) /\ \A r \in Records(t) : r.by = None

StoredLessons(l) ==
    {[id |-> <<"lesson", l>>, key |-> None, group |-> LessonShape[l].group,
      pattern |-> LessonShape[l].pattern, paths |-> LessonShape[l].paths, plain |-> plain,
      source |-> "writer", status |-> e.status, pinned |-> e.policy = "pinned",
      policy |-> e.policy, expires |-> e.policy = "ttl", value |-> e.value,
      supersedes |-> None, by |-> None] :
        e \in LessonEvaluations[l], plain \in LessonShape[l].plain}

Init ==
    /\ backend \in {"postgres", "jsonl"}
    /\ table \in {<<>>} \cup IF backend = "postgres" THEN Overlapped ELSE {}
    /\ aged = {}
    /\ at = [p \in Procs |-> "idle"]
    /\ user = [a \in Agents |-> None]
    /\ todo = [p \in Procs |-> <<>>]
    /\ view = [p \in Procs |-> None]
    /\ runs = AgentRuns
    /\ crashes = 0
    /\ disturbed = [p \in Procs |-> {}]
    /\ overlooked = {}
    /\ lost = FALSE

---------------------------------------------------------------------------
(* The stores.                                                             *)

Deletable(r) == r.expires /\ ~r.pinned /\ r.id \in aged
\* Mutant: the cleaning takes what nobody retrieves any more with it.
PrunedInactive(t) == Kept(t, {i \in DOMAIN t : ~Deletable(t[i]) /\ IsActive(t[i])})

Pruned(t) == Kept(t, {i \in DOMAIN t : ~Deletable(t[i])})

(* Reading the file drops what has expired, for good. *)
Listed == IF backend = "jsonl" THEN Pruned(table) ELSE table
AfterListing == table' = Listed

(* The last n records, which is all that list_records(n) returns and all    *)
(* that a write of the file keeps.  PostgreSQL goes by created_at.  The     *)
(* lines of the file are in another order, since a record that is rewritten *)
(* moves to the end: which of them are the last is left open.               *)
LastPlaces(t, n) ==
    IF backend = "postgres" THEN {{i \in DOMAIN t : i + n > Len(t)}}
    ELSE kSubset(IF Len(t) < n THEN Len(t) ELSE n, DOMAIN t)
Lists(t, n) == {Kept(t, places) : places \in LastPlaces(t, n)}

(* What an upsert supersedes beside storing its record. *)
Supersedes(r, other) ==
    /\ other.id # r.id
    /\ \/ other.id = r.supersedes
       \/ r.key # None /\ other.key = r.key /\ IsActive(other)

\* Mutant: the file keeps the record an upsert replaces.
StoredAgain(t, r, isFresh) ==
    IF isFresh \/ r.id \notin Ids(t) THEN Append(t, r)
    ELSE [i \in DOMAIN t |-> IF t[i].id = r.id THEN r ELSE t[i]]

Stored(t, r, isFresh) ==
    IF isFresh \/ r.id \notin Ids(t)
    THEN Append(Kept(t, {i \in DOMAIN t : t[i].id # r.id}), r)
    ELSE [i \in DOMAIN t |-> IF t[i].id = r.id THEN r ELSE t[i]]

WithStatus(t, ids, newStatus) ==
    [i \in DOMAIN t |-> IF t[i].id \in ids THEN [t[i] EXCEPT !.status = newStatus] ELSE t[i]]

Marked(t, c) ==
    [i \in DOMAIN t |->
        IF t[i].id \in c.ids THEN [t[i] EXCEPT !.status = c.status, !.by = c.by] ELSE t[i]]

SupersededIn(t, r) == {other.id : other \in {o \in Records(t) : Supersedes(r, o)}}

(* The file: all of it is computed from what was read. *)
FileAfter(read, c) ==
    IF c.call = "mark" THEN Marked(read, c)
    ELSE Stored(WithStatus(read, SupersededIn(read, c.record), "superseded"), c.record, c.fresh)

(* What is written of it ends with the record of an upsert. *)
Written(whole, c) ==
    {t \in Lists(whole, MaxRecords) : c.call = "upsert" => c.record \in Records(t)}

(* PostgreSQL: the transaction changes the rows its UPDATEs found, as far   *)
(* as they still qualify.                                                   *)
RowsAfter(found, c) ==
    IF c.call = "mark" THEN Marked(table, c)
    ELSE Stored(WithStatus(table, found \cap SupersededIn(table, c.record), "superseded"),
                c.record, c.fresh)

(* A renewed record starts a new life; a copy keeps its expires_at. *)
AgedAfter(c) ==
    IF c.call = "upsert" /\ c.fresh THEN aged \ {c.record.id} ELSE aged

Quiet(p) == todo[p] = <<>> /\ view[p] = None

\* Both end with the compaction.
Done(p) == at[p] = "compacting" /\ Quiet(p)
Free(p) == at[p] = "idle" \/ Done(p)

Disturb(p, trimmed) ==
    disturbed' = [q \in Procs |->
        IF at[q] = "idle" THEN disturbed[q]
        ELSE disturbed[q] \cup (IF q # p THEN {"call"} ELSE IF trimmed THEN {"trim"} ELSE {})]

Begin(p) ==
    /\ todo[p] # <<>> /\ view[p] = None
    /\ LET c == Head(todo[p])
           found == IF c.call = "mark" THEN {} ELSE SupersededIn(table, c.record)
       IN  view' = [view EXCEPT ![p] = IF backend = "jsonl" THEN <<Pruned(table)>> ELSE <<found>>]
    /\ AfterListing
    /\ UNCHANGED <<backend, aged, control, histories>>

\* A file is written over a version its writer had not read.
Races(p) == view[p] # None /\ table # view[p][1]

Finish(p) ==
    /\ view[p] # None
    /\ LET c == Head(todo[p])
           whole == FileAfter(view[p][1], c)
       IN  /\ \/ /\ backend = "postgres"
                 /\ table' = RowsAfter(view[p][1], c)
                 /\ Disturb(p, FALSE)
                 /\ UNCHANGED lost
              \/ /\ backend = "jsonl"
                 /\ table' \in Written(whole, c)
                 /\ Disturb(p, table' # whole)
                 /\ lost' = (lost \/ Races(p) \/ table' # whole)
           /\ aged' = AgedAfter(c)
    /\ todo' = [todo EXCEPT ![p] = Tail(@)]
    /\ view' = [view EXCEPT ![p] = None]
    /\ UNCHANGED <<backend, at, user, runs, crashes, overlooked>>

---------------------------------------------------------------------------
(* The processes.                                                          *)

Starts(p, what, calls) ==
    /\ at' = [at EXCEPT ![p] = what]
    /\ todo' = [todo EXCEPT ![p] = calls]
    /\ disturbed' = [disturbed EXCEPT ![p] = {}]

\* Mutant: a superseded preference counts as present.
RetrievableAnyStatus(t) == Records(t)

(* The listing of the retriever: active, not expired, and of one            *)
(* contradiction key only the newest.                                       *)
Retrievable(t) ==
    LET usable == Kept(t, {i \in DOMAIN t : IsActive(t[i]) /\ ~Deletable(t[i])})
    IN  {usable[i] : i \in {i \in DOMAIN usable :
            usable[i].key = None
            \/ \A j \in DOMAIN usable : j > i => usable[j].key # usable[i].key}}

SeedPreferences(a) ==
    /\ Free(a) /\ runs[a] > 0
    /\ \E u \in Users, list \in Lists(Listed, MaxRecords) :
        LET present == {r.id : r \in Retrievable(list)}
            missing == SetToSeq({r \in {Preference(u, k) : k \in Preferences} : r.id \notin present})
        IN  /\ user' = [user EXCEPT ![a] = u]
            /\ Starts(a, "seeding", [i \in DOMAIN missing |-> Upsert(missing[i], TRUE)])
    /\ AfterListing
    /\ runs' = [runs EXCEPT ![a] = @ - 1]
    /\ UNCHANGED <<backend, aged, view, crashes, overlooked, lost>>

MemoryWriter(a) ==
    /\ at[a] = "seeding" /\ Quiet(a)
    /\ \/ Starts(a, "writing", <<>>)    \* nothing pending, or discarded
       \/ \E l \in Lessons : \E r \in StoredLessons(l) :
            Starts(a, "writing", <<Upsert(r, TRUE)>>)
    /\ AfterListing
    /\ UNCHANGED <<backend, aged, user, view, crashes, runs, overlooked, lost>>

(* The compaction node of an agent, and the compaction within the job. *)
CompactMemories(p) ==
    /\ at[p] \in {"writing", "maintaining"} /\ Quiet(p)
    /\ \E list \in Lists(Listed, CompactionSourceLimit) : \E calls \in CompactionPlans(list) :
        /\ at' = [at EXCEPT ![p] = "compacting"]
        /\ todo' = [todo EXCEPT ![p] = calls]
    /\ AfterListing
    /\ UNCHANGED <<backend, aged, user, view, crashes, runs, histories>>

(* cleanup_expired_records, then the list all passes work on. *)
JobStarts ==
    /\ Free(Job)
    /\ table' = Pruned(table)
    /\ at' = [at EXCEPT ![Job] = "cleaned"]
    /\ UNCHANGED <<backend, aged, user, todo, view, crashes, runs, histories>>

JobLists ==
    /\ at[Job] = "cleaned"
    /\ \E list \in Lists(Listed, LifecycleSourceLimit) :
        /\ Starts(Job, "maintaining", LifecyclePlan(ActiveRecords(list)))
        /\ overlooked' = Ids(Listed) \ Ids(list)
    /\ AfterListing
    /\ UNCHANGED <<backend, aged, user, view, crashes, runs, lost>>

(* The process dies.  An open transaction is rolled back.  A file that was  *)
(* being written, for a call or because a listing found expired records, is *)
(* left with a part of its lines.                                           *)
Dies(p) ==
    /\ crashes < MaxCrashes
    /\ crashes' = crashes + 1
    /\ at' = [at EXCEPT ![p] = "idle"]
    /\ todo' = [todo EXCEPT ![p] = <<>>]
    /\ view' = [view EXCEPT ![p] = None]
    /\ UNCHANGED <<backend, user, runs, overlooked>>

Crash(p) ==
    /\ at[p] # "idle"
    /\ Dies(p)
    /\ UNCHANGED <<table, aged, disturbed, lost>>

CrashInWrite(p) ==
    /\ backend = "jsonl"
    /\ \/ /\ view[p] # None
          /\ \E whole \in Written(FileAfter(view[p][1], Head(todo[p])), Head(todo[p])) :
                \E places \in SUBSET DOMAIN whole : table' = Kept(whole, places)
          /\ aged' = AgedAfter(Head(todo[p]))
       \/ /\ view[p] = None /\ Pruned(table) # table
          /\ \E places \in SUBSET DOMAIN Pruned(table) : table' = Kept(Pruned(table), places)
          /\ UNCHANGED aged
    /\ Dies(p)
    /\ Disturb(p, TRUE)
    /\ lost' = TRUE

(* The expires_at of a record passes. *)
Ages ==
    /\ \E r \in Records(table) :
        /\ r.expires /\ r.id \notin aged
        /\ aged' = aged \cup {r.id}
    /\ UNCHANGED <<backend, table, control, view, histories>>

Works(p) == Begin(p) \/ Finish(p) \/ CompactMemories(p)

AgentSteps(a) == SeedPreferences(a) \/ MemoryWriter(a)

Next ==
    \/ \E p \in Procs : Works(p) \/ Crash(p) \/ CrashInWrite(p)
    \/ \E a \in Agents : AgentSteps(a)
    \/ JobStarts \/ JobLists
    \/ Ages

Spec == Init /\ [][Next]_vars

---------------------------------------------------------------------------
(* Properties.                                                             *)

(* One record for each id, and a call is open only while it is to be made.  *)
TypeOK ==
    /\ at \in [Procs -> {"idle", "seeding", "writing", "cleaned",
                         "maintaining", "compacting"}]
    /\ \A i, j \in DOMAIN table : table[i].id = table[j].id => i = j
    /\ \A p \in Procs : view[p] # None => todo[p] # <<>>

(* A record that says what replaced it names a record the store has: the    *)
(* sources of a compaction are never given up before their summary is       *)
(* stored, whoever dies in between.  A file that lost records is excepted.  *)
ReplacedByAStoredRecord ==
    ~lost => \A r \in Records(table) : r.by # None => r.by \in Ids(table)

(* A record leaves PostgreSQL only because it expired.  The file loses      *)
(* others in three ways: to the limit of a full file, to a writer that died *)
(* writing, and to one that had not read what it wrote over.                *)
OnlyExpiredVanish ==
    [][\A r \in Records(table) :
          \/ Deletable(r) \/ r.id \in Ids(table')
          \/ /\ backend = "jsonl"
             /\ \/ Len(table') = MaxRecords
                \/ crashes' > crashes
                \/ \E p \in Procs : Races(p) /\ view'[p] = None]_vars

(* A job nobody interfered with leaves one active record for each           *)
(* contradiction key among those it listed, although its passes all work on *)
(* that first list.                                                         *)
JobSettlesKeys ==
    Done(Job) /\ "call" \notin disturbed[Job] =>
        \A r, s \in Records(table) :
            IsActive(r) /\ IsActive(s) /\ r.key # None /\ r.key = s.key =>
                r = s \/ {r.id, s.id} \cap overlooked # {}

(* After an undisturbed retrieval all preferences of the agent are active,  *)
(* whatever other agents and the job did to them before.  A full file may   *)
(* drop one for another.                                                    *)
SeedingRestores ==
    \A a \in Agents :
        at[a] = "seeding" /\ Quiet(a) /\ disturbed[a] = {} =>
            \A k \in Preferences : \E r \in Records(table) :
                r.id = Preference(user[a], k).id /\ IsActive(r)
=============================================================================

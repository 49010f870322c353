------------------------- MODULE MaintenanceProofs -------------------------
(***************************************************************************)
(* The two halves of the maintenance of the memory, for every value of     *)
(* their constants.                                                        *)
(*                                                                         *)
(* Part 1, LifecycleScheduler: types, the mutual exclusion of the advisory *)
(* lock, and the agreement of the run history with what the calls          *)
(* returned.                                                               *)
(*                                                                         *)
(* Part 2, MemoryStore: what agents and the lifecycle job leave in the     *)
(* long-term memory, however their calls interleave.  The invariant,       *)
(* StoreInv, has a part about the table (Shared) and one for each process  *)
(* (ProcInv): the calls a process has decided on are enough for what it    *)
(* promised, as long as nobody interferes, and stay well-formed whoever    *)
(* does.                                                                   *)
(***************************************************************************)
EXTENDS LifecycleScheduler, MemoryStore, SubsequencesProofs, TLAPS

---------------------------------------------------------------------------
(* Part 1: the scheduler.                                                  *)

LEMMA LockTypes ==
    /\ NoLock \in Locks
    /\ \A c \in Calls : OwnLock(c) \in Locks
    /\ \A l \in Locks : [l EXCEPT !.old = TRUE] \in Locks
<1>1. NoLock \in Locks
  BY DEF NoLock, Locks
<1>2. ASSUME NEW c \in Calls PROVE OwnLock(c) \in Locks
  BY DEF OwnLock, Locks
<1>3. ASSUME NEW l \in Locks PROVE [l EXCEPT !.old = TRUE] \in Locks
  BY DEF Locks
<1> QED BY <1>1, <1>2, <1>3

LEMMA StepOrStutter ==
    ASSUME [SchedulerNext]_schedulerVars
    PROVE  \/ \E c \in Calls : Step(c) \/ CallDies(c)
           \/ LockGetsOld
           \/ UNCHANGED schedulerVars
BY DEF SchedulerNext

\* Where a call may still start the job, it has an attempt left.
BeforeJob == {"start", "lock", "stat", "unlink", "create", "try"}
AttemptLeft == \A c \in Calls : pc[c] \in BeforeJob => attempt[c] < MaxAttempts

\* The scheduler keeps its variables in their types; in particular no call ever
\* makes more attempts than max_attempts.
THEOREM SchedulerTypeCorrect == SchedulerSpec => []SchedulerTypeOK
<1>1. SchedulerInit => SchedulerTypeOK /\ AttemptLeft
  BY SchedulerAssumption, LockTypes
  DEF SchedulerInit, SchedulerTypeOK, AttemptLeft, BeforeJob, Working
<1>2. SchedulerTypeOK /\ AttemptLeft /\ [SchedulerNext]_schedulerVars
      => SchedulerTypeOK' /\ AttemptLeft'
  <2> SUFFICES ASSUME SchedulerTypeOK, AttemptLeft, [SchedulerNext]_schedulerVars
               PROVE  SchedulerTypeOK' /\ AttemptLeft'
    OBVIOUS
  <2> USE DEF SchedulerTypeOK, AttemptLeft, BeforeJob, Working
  <2>0. historyBackend' = historyBackend
    BY DEF SchedulerNext, schedulerVars
  <2>1. ASSUME NEW c \in Calls, CheckHistory(c) PROVE SchedulerTypeOK' /\ AttemptLeft'
    BY <2>0, <2>1 DEF CheckHistory, Moves
  <2>2. ASSUME NEW c \in Calls, AdvisoryLock(c) \/ CreateLockFile(c)
        PROVE  SchedulerTypeOK' /\ AttemptLeft'
    <3>1. PICK to \in {"skip", "try", "release"} : Moves(c, "lock", to) \/ Moves(c, "create", to)
      BY <2>2 DEF AdvisoryLock, CreateLockFile
    <3>2. lock' \in Locks
      BY <2>2, LockTypes DEF AdvisoryLock, CreateLockFile
    <3> QED BY <2>0, <2>2, <3>1, <3>2 DEF AdvisoryLock, CreateLockFile, Moves, Raises
  <2>3. ASSUME NEW c \in Calls, LockFileExists(c) \/ StatLockFile(c) \/ UnlinkOldLock(c)
        PROVE  SchedulerTypeOK' /\ AttemptLeft'
    <3>1. PICK from \in {"lock", "stat", "unlink"}, to \in BeforeJob \cup {"skip", "end"} :
              Moves(c, from, to)
      BY <2>3 DEF LockFileExists, StatLockFile, UnlinkOldLock
    <3>2. lock' \in {lock, NoLock} /\ UNCHANGED <<attempt, history>>
      BY <2>3 DEF LockFileExists, StatLockFile, UnlinkOldLock
    <3>3. result' = result \/ result' = [result EXCEPT ![c] = "raised"]
      BY <2>3 DEF LockFileExists, StatLockFile, UnlinkOldLock, Raises
    <3>4. from \in BeforeJob
      OBVIOUS
    <3> QED BY <2>0, <3>1, <3>2, <3>3, <3>4, LockTypes DEF Moves
  <2>4. ASSUME NEW c \in Calls, StartJob(c) PROVE SchedulerTypeOK' /\ AttemptLeft'
    <3>1. attempt[c] \in 0..MaxAttempts /\ attempt[c] < MaxAttempts
      BY <2>4 DEF StartJob, Moves
    <3>2. attempt[c] + 1 \in 0..MaxAttempts
      BY <3>1, SchedulerAssumption
    <3> QED BY <2>0, <2>4, <3>2 DEF StartJob, Moves
  <2>5. ASSUME NEW c \in Calls, JobSucceeds(c) PROVE SchedulerTypeOK' /\ AttemptLeft'
    BY <2>0, <2>5 DEF JobSucceeds, Moves
  <2>6. ASSUME NEW c \in Calls, AttemptFails(c) PROVE SchedulerTypeOK' /\ AttemptLeft'
    <3>1. /\ pc' = [pc EXCEPT ![c] = AfterFailure(c)]
          /\ UNCHANGED <<attempt, lock, history, result>>
      BY <2>6 DEF AttemptFails, Moves
    <3> QED BY <2>0, <3>1 DEF AfterFailure
  <2>7. ASSUME NEW c \in Calls, SaveSuccess(c) \/ SaveFailed(c) \/ SaveSkipped(c)
        PROVE  SchedulerTypeOK' /\ AttemptLeft'
    <3>1. PICK status \in {"success", "failed", "skipped"}, to \in {"release", "end"} :
              pc' = [pc EXCEPT ![c] = to] /\ Save(c, status)
      BY <2>7 DEF SaveSuccess, SaveFailed, SaveSkipped, Moves
    <3> QED BY <2>0, <3>1 DEF Save, Record
  <2>8. ASSUME NEW c \in Calls, SaveRaises(c) PROVE SchedulerTypeOK' /\ AttemptLeft'
    <3>1. PICK to \in {"release", "end"} : pc' = [pc EXCEPT ![c] = to]
      BY <2>8 DEF SaveRaises, Moves
    <3> QED BY <2>0, <2>8, <3>1 DEF SaveRaises, Raises
  <2>9. ASSUME NEW c \in Calls, Release(c) \/ CallDies(c) PROVE SchedulerTypeOK' /\ AttemptLeft'
    <3>1. pc' = [pc EXCEPT ![c] = "end"]
      BY <2>9 DEF Release, CallDies, Moves
    <3>2. lock' \in {lock, NoLock}
      BY <2>9 DEF Release, CallDies
    <3>3. /\ UNCHANGED <<attempt, history>>
          /\ result' = result \/ result' = [result EXCEPT ![c] = "raised"]
      BY <2>9 DEF Release, CallDies
    <3> QED BY <2>0, <3>1, <3>2, <3>3, LockTypes
  <2>10. CASE LockGetsOld
    BY <2>0, <2>10, LockTypes DEF LockGetsOld
  <2>11. CASE UNCHANGED schedulerVars
    BY <2>11 DEF schedulerVars
  <2> QED BY <2>1, <2>2, <2>3, <2>4, <2>5, <2>6, <2>7, <2>8, <2>9, <2>10, <2>11, StepOrStutter
          DEF Step
<1> QED BY <1>1, <1>2, PTL DEF SchedulerSpec

(***************************************************************************)
(* Whoever is between lock and unlock owns the advisory lock, and the      *)
(* steps of the lock file are never reached.                               *)
(***************************************************************************)
Owns(c) ==
    /\ pc[c] \notin {"stat", "unlink", "create"}
    /\ pc[c] \in Working \cup {"release"} => lock.owner = c
OwnersWork == historyBackend = "postgres" => \A c \in Calls : Owns(c)

LEMMA OwnersWorkHolds == SchedulerSpec => [](SchedulerTypeOK /\ OwnersWork)
<1>1. SchedulerInit => OwnersWork
  BY DEF SchedulerInit, OwnersWork, Owns, Working
<1>2. SchedulerTypeOK /\ OwnersWork /\ [SchedulerNext]_schedulerVars => OwnersWork'
  <2> SUFFICES ASSUME SchedulerTypeOK, OwnersWork, [SchedulerNext]_schedulerVars,
                      historyBackend = "postgres",
                      NEW d \in Calls
               PROVE  Owns(d)'
    BY DEF SchedulerNext, schedulerVars, OwnersWork
  <2> USE DEF SchedulerTypeOK, Owns, Working
  <2>0. Owns(d)
    BY DEF OwnersWork
  <2>1. ASSUME NEW c \in Calls, AdvisoryLock(c) PROVE Owns(d)'
    <3>1. CASE Held
      BY <2>0, <2>1, <3>1 DEF AdvisoryLock, Moves
    <3>2. CASE ~Held
      <4>1. lock.owner \notin Calls
        BY <3>2, SchedulerAssumption DEF Held, NoLock
      <4>2. lock'.owner = c
        BY <2>1, <3>2 DEF AdvisoryLock, OwnLock
      <4> QED BY <2>0, <2>1, <4>1, <4>2 DEF AdvisoryLock, Moves
    <3> QED BY <3>1, <3>2
  <2>2. ASSUME NEW c \in Calls,
               LockFileExists(c) \/ StatLockFile(c) \/ UnlinkOldLock(c) \/ CreateLockFile(c)
        PROVE  Owns(d)'
    BY <2>2 DEF OwnersWork, LockFileExists, StatLockFile, UnlinkOldLock, CreateLockFile, Moves
  <2>3. ASSUME NEW c \in Calls, CheckHistory(c) \/ StartJob(c) \/ JobSucceeds(c)
        PROVE  Owns(d)'
    BY <2>0, <2>3 DEF CheckHistory, StartJob, JobSucceeds, Moves
  <2>4. ASSUME NEW c \in Calls, AttemptFails(c) PROVE Owns(d)'
    BY <2>0, <2>4 DEF AttemptFails, AfterFailure, Moves
  <2>5. ASSUME NEW c \in Calls,
               SaveSuccess(c) \/ SaveFailed(c) \/ SaveSkipped(c) \/ SaveRaises(c)
        PROVE  Owns(d)'
    BY <2>0, <2>5 DEF SaveSuccess, SaveFailed, SaveSkipped, SaveRaises, Save, Moves
  <2>6. ASSUME NEW c \in Calls, Release(c) PROVE Owns(d)'
    <3>1. lock.owner = c
      BY <2>6 DEF OwnersWork, Release, Moves
    <3> QED BY <2>0, <2>6, <3>1 DEF Release, Moves
  <2>7. ASSUME NEW c \in Calls, CallDies(c) PROVE Owns(d)'
    BY <2>0, <2>7 DEF CallDies
  <2>8. CASE LockGetsOld
    BY <2>8 DEF LockGetsOld
  <2>9. CASE UNCHANGED schedulerVars
    BY <2>0, <2>9 DEF schedulerVars
  <2> QED BY <2>1, <2>2, <2>3, <2>4, <2>5, <2>6, <2>7, <2>8, <2>9, StepOrStutter DEF Step
<1> QED BY <1>1, <1>2, SchedulerTypeCorrect, PTL DEF SchedulerSpec

\* At most one call at a time is between taking the advisory lock and letting
\* it go, whatever fails and whoever is killed.
THEOREM AdvisoryLockIsExclusive == SchedulerSpec => []AdvisoryLockExcludes
<1>1. OwnersWork => AdvisoryLockExcludes
  BY DEF OwnersWork, Owns, AdvisoryLockExcludes
<1> QED BY <1>1, OwnersWorkHolds, PTL

(***************************************************************************)
(* Until a call saves its record, the history does not know it.            *)
(***************************************************************************)
Unsaved == BeforeJob \cup Working \cup {"skip"}
HistoryInv ==
    /\ \A c \in Calls : pc[c] \in Unsaved => \A r \in history : r.call # c
    /\ \A c \in Calls : result[c] \in {"skipped", "success", "failed"} =>
           Record(c, result[c]) \in history
    /\ \A r, s \in history : r.call = s.call => r = s

LEMMA SaveKeeps ==
    ASSUME HistoryInv, SchedulerTypeOK, NEW c \in Calls, pc[c] \in Unsaved,
           NEW to \in {"release", "end"}, pc' = [pc EXCEPT ![c] = to],
           NEW status \in {"skipped", "success", "failed"}, Save(c, status)
    PROVE  HistoryInv'
<1>1. history' = history \cup {Record(c, status)} /\ Record(c, status).call = c
  BY DEF Save, Record
<1>2. \A r \in history : r.call # c
  BY DEF HistoryInv
<1>3. result' = [result EXCEPT ![c] = status]
  BY DEF Save
<1>4. ASSUME NEW d \in Calls, pc'[d] \in Unsaved PROVE \A r \in history' : r.call # d
  <2>1. d # c /\ pc'[d] = pc[d]
    BY <1>4 DEF SchedulerTypeOK, Unsaved, BeforeJob, Working
  <2> QED BY <1>1, <1>4, <2>1 DEF HistoryInv
<1>5. ASSUME NEW d \in Calls, result'[d] \in {"skipped", "success", "failed"}
      PROVE  Record(d, result'[d]) \in history'
  BY <1>1, <1>3, <1>5 DEF HistoryInv, SchedulerTypeOK
<1>6. \A r, s \in history' : r.call = s.call => r = s
  BY <1>1, <1>2 DEF HistoryInv
<1>7. \A d \in Calls : Record(d, result[d])' = Record(d, result'[d])
  BY DEF Record
<1> QED BY <1>4, <1>5, <1>6, <1>7 DEF HistoryInv

\* A step that saves nothing: it does not go back, and reports at most an error.
LEMMA NoSaveKeeps ==
    ASSUME HistoryInv, SchedulerTypeOK, history' = history, NEW c \in Calls,
           \/ pc' = pc
           \/ \E to : pc' = [pc EXCEPT ![c] = to] /\ (to \in Unsaved => pc[c] \in Unsaved),
           result' = result \/ result' = [result EXCEPT ![c] = "raised"]
    PROVE  HistoryInv'
<1>1. \A d \in Calls : pc'[d] \in Unsaved => pc[d] \in Unsaved
  BY DEF SchedulerTypeOK
<1>2. \A d \in Calls : result'[d] \in {result[d], "raised"}
  BY DEF SchedulerTypeOK
<1>3. \A d \in Calls : result'[d] \in {"skipped", "success", "failed"} =>
          Record(d, result'[d]) \in history'
  BY <1>2 DEF HistoryInv
<1> QED BY <1>1, <1>3 DEF HistoryInv, Record

LEMMA HistoryInvHolds == SchedulerSpec => []HistoryInv
<1>1. SchedulerInit => HistoryInv
  BY DEF SchedulerInit, HistoryInv
<1>2. SchedulerTypeOK /\ HistoryInv /\ [SchedulerNext]_schedulerVars => HistoryInv'
  <2> SUFFICES ASSUME SchedulerTypeOK, HistoryInv, [SchedulerNext]_schedulerVars PROVE HistoryInv'
    OBVIOUS
  <2>1. ASSUME NEW c \in Calls, SaveSuccess(c) \/ SaveFailed(c) \/ SaveSkipped(c)
        PROVE  HistoryInv'
    <3>1. PICK status \in {"success", "failed", "skipped"}, to \in {"release", "end"} :
              /\ pc[c] \in Unsaved
              /\ pc' = [pc EXCEPT ![c] = to]
              /\ Save(c, status)
      BY <2>1 DEF SaveSuccess, SaveFailed, SaveSkipped, Moves, Unsaved, Working
    <3> QED BY <3>1, SaveKeeps
  <2>2. ASSUME NEW c \in Calls,
               CheckHistory(c) \/ StartJob(c) \/ JobSucceeds(c) \/ AttemptFails(c)
        PROVE  HistoryInv'
    <3>1. PICK to : pc' = [pc EXCEPT ![c] = to] /\ pc[c] \in Unsaved
      BY <2>2 DEF CheckHistory, StartJob, JobSucceeds, AttemptFails, Moves, Unsaved, BeforeJob,
                  Working
    <3>2. UNCHANGED <<history, result>>
      BY <2>2 DEF CheckHistory, StartJob, JobSucceeds, AttemptFails
    <3> QED BY <3>1, <3>2, NoSaveKeeps
  <2>3. ASSUME NEW c \in Calls, AdvisoryLock(c) \/ LockFileExists(c) \/ UnlinkOldLock(c)
        PROVE  HistoryInv'
    <3>1. PICK to : pc' = [pc EXCEPT ![c] = to] /\ pc[c] \in Unsaved
      BY <2>3 DEF AdvisoryLock, LockFileExists, UnlinkOldLock, Moves, Unsaved, BeforeJob
    <3>2. UNCHANGED <<history, result>>
      BY <2>3 DEF AdvisoryLock, LockFileExists, UnlinkOldLock
    <3> QED BY <3>1, <3>2, NoSaveKeeps
  <2>4. ASSUME NEW c \in Calls, StatLockFile(c) \/ CreateLockFile(c) PROVE HistoryInv'
    <3>1. PICK to : pc' = [pc EXCEPT ![c] = to] /\ pc[c] \in Unsaved
      BY <2>4 DEF StatLockFile, CreateLockFile, Moves, Unsaved, BeforeJob
    <3>2. history' = history /\ (result' = result \/ result' = [result EXCEPT ![c] = "raised"])
      BY <2>4 DEF StatLockFile, CreateLockFile, Raises
    <3> QED BY <3>1, <3>2, NoSaveKeeps
  <2>5. ASSUME NEW c \in Calls, SaveRaises(c) \/ Release(c) \/ CallDies(c) PROVE HistoryInv'
    <3>1. PICK to \in {"release", "end"} : pc' = [pc EXCEPT ![c] = to]
      BY <2>5 DEF SaveRaises, Release, CallDies, Moves
    <3>2. history' = history /\ (result' = result \/ result' = [result EXCEPT ![c] = "raised"])
      BY <2>5 DEF SaveRaises, Release, CallDies, Raises
    <3>3. to \notin Unsaved
      BY DEF Unsaved, BeforeJob, Working
    <3> QED BY <3>1, <3>2, <3>3, NoSaveKeeps
  <2>6. CASE LockGetsOld
    BY <2>6 DEF LockGetsOld, HistoryInv, Record
  <2>7. CASE UNCHANGED schedulerVars
    BY <2>7 DEF schedulerVars, HistoryInv, Record
  <2> QED BY <2>1, <2>2, <2>3, <2>4, <2>5, <2>6, <2>7, StepOrStutter DEF Step
<1> QED BY <1>1, <1>2, SchedulerTypeCorrect, PTL DEF SchedulerSpec

\* What a call returns is what the run history says of it, and no retry, failing
\* save or kill ever leaves a call a second record.
THEOREM HistoryTellsResults == SchedulerSpec => []RecordsTellResults
<1>1. HistoryInv => RecordsTellResults
  <2> SUFFICES ASSUME HistoryInv, NEW c \in Calls
               PROVE  /\ result[c] \in {"skipped", "success", "failed"} =>
                             {r \in history : r.call = c} = {Record(c, result[c])}
                      /\ \A r, s \in history : r.call = s.call => r = s
    BY DEF RecordsTellResults
  <2>1. Record(c, result[c]).call = c
    BY DEF Record
  <2> QED BY <2>1 DEF HistoryInv
<1> QED BY <1>1, HistoryInvHolds, PTL

---------------------------------------------------------------------------
(* Part 2: the store.  Sequences and tables.                               *)

\* A sequence is one of its own elements.
LEMMA OwnElements ==
    ASSUME NEW T, NEW s \in Seq(T)
    PROVE  s \in Seq(Records(s)) /\ Records(s) \subseteq T
<1>1. DOMAIN s = 1..Len(s) /\ Len(s) \in Nat
  OBVIOUS
<1>2. s = [i \in 1..Len(s) |-> s[i]]
  OBVIOUS
<1>3. \A i \in 1..Len(s) : s[i] \in Records(s) /\ s[i] \in T
  BY <1>1 DEF Records
<1>4. s \in [1..Len(s) -> Records(s)]
  BY <1>2, <1>3
<1>5. s \in Seq(Records(s))
  BY <1>1, <1>4
<1>6. Records(s) \subseteq T
  BY <1>1, <1>3 DEF Records
<1> QED BY <1>5, <1>6

\* The places of a table and what is stored there.
LEMMA TableFacts ==
    ASSUME NEW t, IsTable(t)
    PROVE  /\ Len(t) \in Nat /\ DOMAIN t = 1..Len(t)
           /\ \A i \in DOMAIN t : t[i] \in Records(t) /\ WellFormed(t[i])
<1>1. t \in Seq(Records(t))
  BY DEF IsTable
<1>2. \A i \in DOMAIN t : t[i] \in Records(t)
  BY DEF Records
<1> QED BY <1>1, <1>2 DEF IsTable

\* Some of the records of a table are a table.
LEMMA KeptTable ==
    ASSUME NEW t, IsTable(t), NEW I \in SUBSET DOMAIN t
    PROVE  IsTable(Kept(t, I)) /\ Records(Kept(t, I)) = {t[i] : i \in I}
<1> DEFINE k == Kept(t, I)
<1>1. t \in Seq(Records(t))
  BY DEF IsTable
<1>2. k \in Seq(Records(t))
  BY <1>1, KeptElements
<1>3. PICK f \in [DOMAIN k -> I] :
          /\ \A n \in DOMAIN k : k[n] = t[f[n]]
          /\ \A m, n \in DOMAIN k : f[m] = f[n] => m = n
  BY <1>1, KeptPositions
<1>4. /\ \A n \in DOMAIN k : \E i \in I : k[n] = t[i]
      /\ \A i \in I : \E n \in DOMAIN k : k[n] = t[i]
  BY <1>1, KeptElements
<1> HIDE DEF k
<1>5. Records(k) = {t[i] : i \in I}
  BY <1>4 DEF Records
<1>6. k \in Seq(Records(k))
  BY <1>2, OwnElements
<1>7. \A m, n \in DOMAIN k : k[m].id = k[n].id => m = n
  BY <1>3 DEF IsTable
<1>8. \A r \in Records(k) : WellFormed(r)
  BY <1>2, OwnElements DEF IsTable
<1> QED BY <1>5, <1>6, <1>7, <1>8 DEF IsTable, k

\* A new status, and what replaced it, leave a record well-formed.
LEMMA SupersededRecord ==
    ASSUME NEW r, WellFormed(r)
    PROVE  LET x == [r EXCEPT !.status = "superseded"]
           IN  WellFormed(x) /\ x.id = r.id /\ x.key = r.key /\ x.by = r.by /\ ~IsActive(x)
<1> DEFINE x == [r EXCEPT !.status = "superseded"]
<1>1. /\ DOMAIN x = DOMAIN r /\ x.id = r.id /\ x.key = r.key /\ x.by = r.by
      /\ x.status = "superseded" /\ x.expires = r.expires /\ x.paths = r.paths
  BY DEF WellFormed
<1> HIDE DEF x
<1>2. WellFormed(x)
  BY <1>1 DEF WellFormed, IsActive
<1> QED BY <1>1, <1>2 DEF IsActive, x

\* So does being marked as replaced, by anything but a lesson.
LEMMA ReplacedRecord ==
    ASSUME NEW r, WellFormed(r), NEW b, b \notin LessonIds
    PROVE  LET x == [r EXCEPT !.status = "superseded", !.by = b]
           IN  WellFormed(x) /\ x.id = r.id /\ x.key = r.key /\ x.by = b /\ ~IsActive(x)
<1> DEFINE x == [r EXCEPT !.status = "superseded", !.by = b]
<1>1. /\ DOMAIN x = DOMAIN r /\ x.id = r.id /\ x.key = r.key /\ x.by = b
      /\ x.status = "superseded" /\ x.expires = r.expires /\ x.paths = r.paths
  BY DEF WellFormed
<1> HIDE DEF x
<1>2. WellFormed(x)
  BY <1>1 DEF WellFormed, IsActive
<1> QED BY <1>1, <1>2 DEF IsActive, x

\* The records of a table after some of them changed in place, keeping their ids.
LEMMA TableInPlace ==
    ASSUME NEW t, IsTable(t), NEW u, DOMAIN u = DOMAIN t, u = [i \in DOMAIN u |-> u[i]],
           \A i \in DOMAIN t : WellFormed(u[i]) /\ u[i].id = t[i].id
    PROVE  IsTable(u) /\ Ids(u) = Ids(t)
<1>1. t \in Seq(Records(t)) /\ DOMAIN t = 1..Len(t) /\ Len(t) \in Nat
  BY DEF IsTable
<1>2. \A i \in 1..Len(t) : u[i] \in Records(u)
  BY <1>1 DEF Records
<1>3. u \in [1..Len(t) -> Records(u)]
  BY <1>1, <1>2
<1>4. u \in Seq(Records(u))
  BY <1>1, <1>3
<1>5. \A i, j \in DOMAIN u : u[i].id = u[j].id => i = j
  BY DEF IsTable
<1>6. \A r \in Records(u) : WellFormed(r)
  BY DEF Records
<1> QED BY <1>4, <1>5, <1>6 DEF IsTable, Ids

\* What marking does.
LEMMA MarkTable ==
    ASSUME NEW t, IsTable(t), NEW c, c.status = "superseded", c.by \notin LessonIds
    PROVE  LET u == Marked(t, c)
           IN  /\ IsTable(u) /\ Ids(u) = Ids(t)
               /\ \A x \in Records(u) :
                    /\ IsActive(x) => x \in Records(t) /\ x.id \notin c.ids
                    /\ x.by = c.by \/ \E y \in Records(t) : y.by = x.by
<1> DEFINE u == Marked(t, c)
<1>1. /\ DOMAIN u = DOMAIN t /\ u = [i \in DOMAIN u |-> u[i]]
      /\ \A i \in DOMAIN t :
            u[i] = IF t[i].id \in c.ids THEN [t[i] EXCEPT !.status = "superseded", !.by = c.by]
                   ELSE t[i]
  BY DEF Marked
<1> HIDE DEF u
<1>2. ASSUME NEW i \in DOMAIN t
      PROVE  /\ WellFormed(u[i]) /\ u[i].id = t[i].id
             /\ IsActive(u[i]) => u[i] = t[i] /\ t[i].id \notin c.ids
             /\ u[i].by = c.by \/ u[i].by = t[i].by
  <2>1. WellFormed(t[i])
    BY DEF IsTable, Records
  <2> DEFINE x == [t[i] EXCEPT !.status = "superseded", !.by = c.by]
  <2>2. WellFormed(x) /\ x.id = t[i].id /\ x.by = c.by /\ ~IsActive(x)
    BY <2>1, ReplacedRecord
  <2>3. u[i] = IF t[i].id \in c.ids THEN x ELSE t[i]
    BY <1>1
  <2> HIDE DEF x
  <2> QED BY <2>1, <2>2, <2>3
<1>3. IsTable(u) /\ Ids(u) = Ids(t)
  BY <1>1, <1>2, TableInPlace
<1>4. ASSUME NEW x \in Records(u)
      PROVE  /\ IsActive(x) => x \in Records(t) /\ x.id \notin c.ids
             /\ x.by = c.by \/ \E y \in Records(t) : y.by = x.by
  <2>1. PICK i \in DOMAIN t : x = u[i]
    BY <1>1 DEF Records
  <2>2. t[i] \in Records(t)
    BY DEF Records
  <2> QED BY <1>2, <2>1, <2>2
<1> QED BY <1>3, <1>4 DEF u

\* What superseding does.
LEMMA SupersedeTable ==
    ASSUME NEW t, IsTable(t), NEW S
    PROVE  LET u == WithStatus(t, S, "superseded")
           IN  /\ IsTable(u) /\ Ids(u) = Ids(t)
               /\ \A x \in Records(u) : \E y \in Records(t) :
                    /\ y.id = x.id /\ y.key = x.key /\ y.by = x.by
                    /\ IsActive(x) => x = y /\ x.id \notin S
               /\ \A y \in Records(t) : y.id \notin S => y \in Records(u)
<1> DEFINE u == WithStatus(t, S, "superseded")
<1>1. /\ DOMAIN u = DOMAIN t /\ u = [i \in DOMAIN u |-> u[i]]
      /\ \A i \in DOMAIN t :
            u[i] = IF t[i].id \in S THEN [t[i] EXCEPT !.status = "superseded"] ELSE t[i]
  BY DEF WithStatus
<1> HIDE DEF u
<1>2. ASSUME NEW i \in DOMAIN t
      PROVE  /\ WellFormed(u[i]) /\ u[i].id = t[i].id /\ u[i].key = t[i].key /\ u[i].by = t[i].by
             /\ IsActive(u[i]) => u[i] = t[i] /\ t[i].id \notin S
  <2>1. WellFormed(t[i])
    BY DEF IsTable, Records
  <2> QED BY <1>1, <2>1, SupersededRecord
<1>3. IsTable(u) /\ Ids(u) = Ids(t)
  BY <1>1, <1>2, TableInPlace
<1>4. ASSUME NEW x \in Records(u)
      PROVE  \E y \in Records(t) :
                    /\ y.id = x.id /\ y.key = x.key /\ y.by = x.by
                    /\ IsActive(x) => x = y /\ x.id \notin S
  <2>1. PICK i \in DOMAIN t : x = u[i]
    BY <1>1 DEF Records
  <2>2. t[i] \in Records(t)
    BY DEF Records
  <2> QED BY <1>2, <2>1, <2>2
<1>5. ASSUME NEW y \in Records(t), y.id \notin S PROVE y \in Records(u)
  BY <1>1, <1>5 DEF Records
<1> QED BY <1>3, <1>4, <1>5 DEF u

\* What storing does.
LEMMA StoreTable ==
    ASSUME NEW t, IsTable(t), NEW r, WellFormed(r), NEW isFresh
    PROVE  LET u == Stored(t, r, isFresh)
           IN  /\ IsTable(u) /\ Records(u) = {x \in Records(t) : x.id # r.id} \cup {r}
<1>1. CASE isFresh \/ r.id \notin Ids(t)
  <2> DEFINE I == {i \in DOMAIN t : t[i].id # r.id}
             k == Kept(t, I)
             u == Append(k, r)
  <2>1. Stored(t, r, isFresh) = u
    BY <1>1 DEF Stored
  <2>2. IsTable(k) /\ Records(k) = {t[i] : i \in I}
    <3>1. I \in SUBSET DOMAIN t
      OBVIOUS
    <3> HIDE DEF I
    <3> QED BY <3>1, KeptTable
  <2>3. Records(k) = {x \in Records(t) : x.id # r.id}
    BY <2>2 DEF Records
  <2> HIDE DEF k
  <2>4. /\ Len(k) \in Nat /\ DOMAIN k = 1..Len(k) /\ DOMAIN u = 1..(Len(k) + 1)
        /\ \A i \in 1..Len(k) : u[i] = k[i]
        /\ u[Len(k) + 1] = r
        /\ u \in Seq(Records(k) \cup {r})
    BY <2>2 DEF IsTable
  <2> HIDE DEF u
  <2>5. Records(u) = Records(k) \cup {r}
    BY <2>4 DEF Records
  <2>6. u \in Seq(Records(u))
    BY <2>4, OwnElements
  <2>7. \A i, j \in DOMAIN u : u[i].id = u[j].id => i = j
    <3>1. \A i \in 1..Len(k) : k[i].id # r.id
      BY <2>3, <2>4 DEF Records
    <3> QED BY <2>2, <2>4, <3>1 DEF IsTable
  <2>8. \A x \in Records(u) : WellFormed(x)
    BY <2>2, <2>5 DEF IsTable
  <2> QED BY <2>1, <2>3, <2>5, <2>6, <2>7, <2>8 DEF IsTable
<1>2. CASE ~(isFresh \/ r.id \notin Ids(t))
  <2> DEFINE u == [i \in DOMAIN t |-> IF t[i].id = r.id THEN r ELSE t[i]]
  <2>1. Stored(t, r, isFresh) = u
    BY <1>2 DEF Stored
  <2>2. /\ DOMAIN u = DOMAIN t /\ u = [i \in DOMAIN u |-> u[i]]
        /\ \A i \in DOMAIN t : u[i] = IF t[i].id = r.id THEN r ELSE t[i]
    OBVIOUS
  <2> HIDE DEF u
  <2>3. \A i \in DOMAIN t : WellFormed(u[i]) /\ u[i].id = t[i].id
    BY <2>2 DEF IsTable, Records
  <2>4. IsTable(u)
    BY <2>2, <2>3, TableInPlace
  <2>5. PICK n \in DOMAIN t : t[n].id = r.id
    BY <1>2 DEF Ids
  <2>6. Records(u) = {x \in Records(t) : x.id # r.id} \cup {r}
    BY <2>2, <2>5 DEF Records
  <2> QED BY <2>1, <2>4, <2>6
<1> QED BY <1>1, <1>2

\* An upsert with what it supersedes.
LEMMA UpsertTable ==
    ASSUME NEW t, IsTable(t), NEW S, NEW r, WellFormed(r), NEW isFresh
    PROVE  LET u == Stored(WithStatus(t, S, "superseded"), r, isFresh)
           IN  /\ IsTable(u) /\ Ids(u) = Ids(t) \cup {r.id} /\ r \in Records(u)
               /\ \A x \in Records(u) \ {r} : x.id # r.id /\ \E y \in Records(t) :
                    /\ y.id = x.id /\ y.key = x.key /\ y.by = x.by
                    /\ IsActive(x) => x = y /\ x.id \notin S
               /\ \A y \in Records(t) : y.id \notin S \cup {r.id} => y \in Records(u)
<1> DEFINE s == WithStatus(t, S, "superseded")
           u == Stored(s, r, isFresh)
<1>1. /\ IsTable(s) /\ Ids(s) = Ids(t)
      /\ \A x \in Records(s) : \E y \in Records(t) :
            /\ y.id = x.id /\ y.key = x.key /\ y.by = x.by
            /\ IsActive(x) => x = y /\ x.id \notin S
      /\ \A y \in Records(t) : y.id \notin S => y \in Records(s)
  BY SupersedeTable
<1> HIDE DEF s
<1>2. IsTable(u) /\ Records(u) = {x \in Records(s) : x.id # r.id} \cup {r}
  BY <1>1, StoreTable
<1> HIDE DEF u
<1>3. \A q : Ids(q) = {x.id : x \in Records(q)}
  BY DEF Ids, Records
<1>4. Ids(u) = Ids(t) \cup {r.id}
  BY <1>1, <1>2, <1>3
<1> QED BY <1>1, <1>2, <1>4 DEF s, u

---------------------------------------------------------------------------
(* What a listing finds.                                                   *)

\* Cleaning takes deletable records only, and they are lessons.
LEMMA PrunedTable ==
    ASSUME NEW t, IsTable(t)
    PROVE  /\ IsTable(Pruned(t)) /\ Records(Pruned(t)) = {r \in Records(t) : ~Deletable(r)}
           /\ \A x \in Ids(t) \ LessonIds : x \in Ids(Pruned(t))
<1> DEFINE I == {i \in DOMAIN t : ~Deletable(t[i])}
<1>1. I \in SUBSET DOMAIN t /\ Pruned(t) = Kept(t, I)
  BY DEF Pruned
<1>2. IsTable(Pruned(t)) /\ Records(Pruned(t)) = {t[i] : i \in I}
  <2> HIDE DEF I
  <2> QED BY <1>1, KeptTable
<1>3. Records(Pruned(t)) = {r \in Records(t) : ~Deletable(r)}
  BY <1>2 DEF Records
<1>4. \A q : Ids(q) = {x.id : x \in Records(q)}
  BY DEF Ids, Records
<1>5. ASSUME NEW x \in Ids(t) \ LessonIds PROVE x \in Ids(Pruned(t))
  <2>1. PICK r \in Records(t) : r.id = x
    BY <1>4
  <2>2. ~Deletable(r)
    BY <2>1 DEF IsTable, WellFormed, Deletable
  <2> QED BY <1>3, <1>4, <2>1, <2>2
<1> QED BY <1>2, <1>3, <1>5

\* A listing is the table, cleaned in the file store.
LEMMA ListedTable ==
    ASSUME IsTable(table)
    PROVE  /\ IsTable(Listed) /\ Records(Listed) \subseteq Records(table)
           /\ \A r \in Records(table) : r \in Records(Listed) \/ Deletable(r)
           /\ \A x \in Ids(table) \ LessonIds : x \in Ids(Listed)
BY PrunedTable DEF Listed

---------------------------------------------------------------------------
(* What is decided from it.                                                *)

\* A function on 1..n is a sequence of its own elements.
LEMMA OwnList ==
    ASSUME NEW n \in Nat, NEW q, DOMAIN q = 1..n, q = [i \in DOMAIN q |-> q[i]]
    PROVE  q \in Seq(Records(q)) /\ Len(q) = n
<1>1. \A i \in 1..n : q[i] \in Records(q)
  BY DEF Records
<1>2. q \in [1..n -> Records(q)]
  BY <1>1
<1> QED BY <1>2

\* The elements of a finite set as a sequence.
LEMMA Enumerated ==
    ASSUME NEW S, IsFiniteSet(S)
    PROVE  /\ SetToSeq(S) \in Seq(S)
           /\ \A x \in S : \E i \in DOMAIN SetToSeq(S) : SetToSeq(S)[i] = x
<1> DEFINE n == Cardinality(S)
           f == SetToSeq(S)
<1>1. n \in Nat /\ ExistsBijection(1..n, S)
  BY FS_CardinalityType
<1>2. PICK g \in Bijection(1..n, S) : TRUE
  BY <1>1 DEF ExistsBijection
<1>3. g \in [1..n -> S] /\ IsInjective(g)
  BY <1>2 DEF Bijection, Injection
<1>4. f \in [1..n -> S] /\ IsInjective(f)
  BY <1>3 DEF SetToSeq
<1> HIDE DEF f
<1>5. f \in Injection(1..n, S)
  BY <1>4 DEF Injection
<1>6. IsFiniteSet(1..n) /\ Cardinality(1..n) = n
  BY <1>1, FS_Interval
<1>7. f \in Surjection(1..n, S)
  BY <1>5, <1>6, FS_Injection
<1>8. f \in Seq(S) /\ \A x \in S : \E i \in DOMAIN f : f[i] = x
  BY <1>1, <1>4, <1>7 DEF Surjection
<1> QED BY <1>8 DEF f

\* A table has finitely many records, and they finitely many paths.
LEMMA FinitePaths ==
    ASSUME NEW t, IsTable(t), NEW R \in SUBSET Records(t)
    PROVE  /\ IsFiniteSet(R)
           /\ IsFiniteSet(UNION {r.paths : r \in R})
<1>1. DOMAIN t = 1..Len(t) /\ Len(t) \in Nat
  BY DEF IsTable
<1>2. IsFiniteSet(1..Len(t))
  BY <1>1, FS_Interval
<1>3. IsFiniteSet(Records(t))
  <2> DEFINE f == [i \in 1..Len(t) |-> t[i]]
  <2>1. f \in Surjection(1..Len(t), Records(t))
    BY <1>1 DEF Surjection, Records
  <2> QED BY <1>2, <2>1, FS_Surjection
<1>4. IsFiniteSet(R)
  BY <1>3, FS_Subset
<1>5. IsFiniteSet({r.paths : r \in R})
  <2> DEFINE P == {r.paths : r \in R}
             f == [r \in R |-> r.paths]
  <2>1. f \in Surjection(R, P)
    BY DEF Surjection
  <2> HIDE DEF P, f
  <2>2. IsFiniteSet(P)
    BY <1>4, <2>1, FS_Surjection
  <2> QED BY <2>2 DEF P
<1>6. \A T \in {r.paths : r \in R} : IsFiniteSet(T)
  BY DEF IsTable, WellFormed
<1> QED BY <1>4, <1>5, <1>6, FS_UNION

\* A call a process may have to make, and a list of them.
IsCall(c) ==
    \/ c.call = "upsert" /\ WellFormed(c.record) /\ c.record.by = None
    \/ c.call = "mark" /\ c.status = "superseded" /\ c.by \notin LessonIds
IsPlan(q) == q \in Seq(Records(q)) /\ \A c \in Records(q) : IsCall(c)

\* Plans can be appended.
LEMMA ConcatPlan ==
    ASSUME NEW p, IsPlan(p), NEW q, IsPlan(q)
    PROVE  IsPlan(p \o q) /\ Records(p \o q) = Records(p) \cup Records(q)
<1> DEFINE pq == p \o q
           m == Len(p)
           n == Len(q)
<1>1. /\ m \in Nat /\ n \in Nat /\ DOMAIN p = 1..m /\ DOMAIN q = 1..n
      /\ pq \in Seq(Records(p) \cup Records(q)) /\ DOMAIN pq = 1..(m + n)
      /\ \A i \in 1..m : pq[i] = p[i]
      /\ \A i \in 1..n : pq[m + i] = q[i]
  <2>1. p \in Seq(Records(p) \cup Records(q)) /\ q \in Seq(Records(p) \cup Records(q))
    BY DEF IsPlan
  <2> QED BY <2>1
<1> HIDE DEF pq, m, n
<1>2. Records(pq) \subseteq Records(p) \cup Records(q) /\ pq \in Seq(Records(pq))
  BY <1>1, OwnElements
<1>3. \A i \in 1..m : p[i] \in Records(pq)
  <2> SUFFICES ASSUME NEW i \in 1..m PROVE p[i] \in Records(pq)
    OBVIOUS
  <2>1. i \in DOMAIN pq
    BY <1>1
  <2> QED BY <1>1, <2>1 DEF Records
<1>4. \A i \in 1..n : q[i] \in Records(pq)
  <2> SUFFICES ASSUME NEW i \in 1..n PROVE q[i] \in Records(pq)
    OBVIOUS
  <2>1. m + i \in DOMAIN pq /\ pq[m + i] = q[i]
    BY <1>1
  <2> QED BY <2>1 DEF Records
<1>5. Records(pq) = Records(p) \cup Records(q)
  BY <1>1, <1>2, <1>3, <1>4 DEF Records
<1> QED BY <1>2, <1>5 DEF IsPlan, pq

\* The passes that write listed records again.
LEMMA RewritingPlan ==
    ASSUME NEW t, IsTable(t), \A r \in Records(t) : IsActive(r)
    PROVE  /\ IsPlan(Deprioritizations(t)) /\ IsPlan(Promotions(t))
           /\ \A c \in Records(Deprioritizations(t)) \cup Records(Promotions(t)) :
                c.call = "upsert"
<1>1. ASSUME NEW r \in Records(t)
      PROVE  /\ WellFormed([r EXCEPT !.status = "deprecated"])
             /\ WellFormed([r EXCEPT !.policy = "long_term"])
             /\ [r EXCEPT !.status = "deprecated"].by = None
             /\ [r EXCEPT !.policy = "long_term"].by = None
  <2> DEFINE x == [r EXCEPT !.status = "deprecated"]
             y == [r EXCEPT !.policy = "long_term"]
  <2>1. WellFormed(r) /\ r.by = None
    BY DEF IsTable, WellFormed
  <2>2. /\ DOMAIN x = DOMAIN r /\ x.id = r.id /\ x.key = r.key /\ x.by = r.by
        /\ x.expires = r.expires /\ x.paths = r.paths
        /\ DOMAIN y = DOMAIN r /\ y.id = r.id /\ y.key = r.key /\ y.by = r.by
        /\ y.expires = r.expires /\ y.paths = r.paths
    BY <2>1 DEF WellFormed
  <2> HIDE DEF x, y
  <2>3. WellFormed(x) /\ WellFormed(y) /\ x.by = None /\ y.by = None
    BY <2>1, <2>2 DEF WellFormed
  <2> QED BY <2>3 DEF x, y
<1>2. IsPlan(Deprioritizations(t)) /\ \A c \in Records(Deprioritizations(t)) : c.call = "upsert"
  <2> DEFINE I == {i \in DOMAIN t : ~t[i].pinned /\ t[i].value = "low"}
             low == Kept(t, I)
             q == [i \in DOMAIN low |-> Upsert([low[i] EXCEPT !.status = "deprecated"], FALSE)]
  <2>1. Deprioritizations(t) = q
    BY DEF Deprioritizations
  <2>2. IsTable(low) /\ Records(low) \subseteq Records(t)
    <3>1. I \in SUBSET DOMAIN t
      OBVIOUS
    <3> HIDE DEF I
    <3> QED BY <3>1, KeptTable DEF Records
  <2> HIDE DEF low
  <2>3. /\ Len(low) \in Nat /\ DOMAIN low = 1..Len(low)
        /\ \A i \in DOMAIN low : low[i] \in Records(t)
    BY <2>2, TableFacts
  <2>4. q \in Seq(Records(q))
    <3>1. DOMAIN q = 1..Len(low) /\ q = [i \in DOMAIN q |-> q[i]]
      BY <2>3
    <3> HIDE DEF q
    <3> QED BY <2>3, <3>1, OwnList
  <2>5. ASSUME NEW c \in Records(q) PROVE IsCall(c) /\ c.call = "upsert"
    <3>1. PICK i \in DOMAIN low : c = Upsert([low[i] EXCEPT !.status = "deprecated"], FALSE)
      BY <2>5 DEF Records
    <3> DEFINE x == [low[i] EXCEPT !.status = "deprecated"]
    <3>2. WellFormed(x) /\ x.by = None
      BY <1>1, <2>3
    <3> HIDE DEF x
    <3>3. c.call = "upsert" /\ c.record = x
      BY <3>1 DEF Upsert, x
    <3> QED BY <3>2, <3>3 DEF IsCall
  <2> QED BY <2>1, <2>4, <2>5 DEF IsPlan
<1>3. IsPlan(Promotions(t)) /\ \A c \in Records(Promotions(t)) : c.call = "upsert"
  <2> DEFINE I == {i \in DOMAIN t : ~t[i].pinned /\ t[i].value = "high"}
             high == Kept(t, I)
             q == [i \in DOMAIN high |-> Upsert([high[i] EXCEPT !.policy = "long_term"], FALSE)]
  <2>1. Promotions(t) = q
    BY DEF Promotions
  <2>2. IsTable(high) /\ Records(high) \subseteq Records(t)
    <3>1. I \in SUBSET DOMAIN t
      OBVIOUS
    <3> HIDE DEF I
    <3> QED BY <3>1, KeptTable DEF Records
  <2> HIDE DEF high
  <2>3. /\ Len(high) \in Nat /\ DOMAIN high = 1..Len(high)
        /\ \A i \in DOMAIN high : high[i] \in Records(t)
    BY <2>2, TableFacts
  <2>4. q \in Seq(Records(q))
    <3>1. DOMAIN q = 1..Len(high) /\ q = [i \in DOMAIN q |-> q[i]]
      BY <2>3
    <3> HIDE DEF q
    <3> QED BY <2>3, <3>1, OwnList
  <2>5. ASSUME NEW c \in Records(q) PROVE IsCall(c) /\ c.call = "upsert"
    <3>1. PICK i \in DOMAIN high : c = Upsert([high[i] EXCEPT !.policy = "long_term"], FALSE)
      BY <2>5 DEF Records
    <3> DEFINE x == [high[i] EXCEPT !.policy = "long_term"]
    <3>2. WellFormed(x) /\ x.by = None
      BY <1>1, <2>3
    <3> HIDE DEF x
    <3>3. c.call = "upsert" /\ c.record = x
      BY <3>1 DEF Upsert, x
    <3> QED BY <3>2, <3>3 DEF IsCall
  <2> QED BY <2>1, <2>4, <2>5 DEF IsPlan
<1> QED BY <1>2, <1>3

\* Two records of one key are a contradiction, which the third pass settles
\* against one of them, in favour of a record it has listed.
Conflict(r, s) == IsActive(r) /\ IsActive(s) /\ r # s /\ r.key # None /\ r.key = s.key
Settles(c, r, s) == c.call = "mark" /\ (r.id \in c.ids \/ s.id \in c.ids)

LEMMA SettlingPlan ==
    ASSUME NEW t, IsTable(t)
    PROVE  /\ IsPlan(ContradictionFixes(t))
           /\ \A c \in Records(ContradictionFixes(t)) : c.by \in Ids(t)
           /\ \A r, s \in Records(t) : Conflict(r, s) =>
                \E c \in Records(ContradictionFixes(t)) : Settles(c, r, s)
<1> DEFINE K == {k \in Keys(t) : Len(KeyGroup(t, k)) >= 2}
           contested == SetToSeq(K)
           q == Fixes(t, contested)
<1>1. ContradictionFixes(t) = q
  BY DEF ContradictionFixes
<1>2. IsFiniteSet(K)
  <2> DEFINE A == {r.key : r \in Records(t)}
             f == [r \in Records(t) |-> r.key]
  <2>1. IsFiniteSet(Records(t))
    BY FinitePaths
  <2>2. f \in Surjection(Records(t), A)
    BY DEF Surjection
  <2>3. K \in SUBSET A
    BY DEF Keys
  <2> HIDE DEF f, A, K
  <2> QED BY <2>1, <2>2, <2>3, FS_Surjection, FS_Subset
<1>3. contested \in Seq(K) /\ \A k \in K : \E i \in DOMAIN contested : contested[i] = k
  <2> HIDE DEF K
  <2> QED BY <1>2, Enumerated
<1> HIDE DEF contested
<1>4. /\ Len(contested) \in Nat /\ DOMAIN contested = 1..Len(contested)
      /\ \A i \in DOMAIN contested : contested[i] \in K
  BY <1>3
<1>5. ASSUME NEW k \in K
      PROVE  LET g == KeyGroup(t, k)
             IN  /\ IsTable(g) /\ Len(g) >= 2 /\ Len(g) \in Nat /\ DOMAIN g = 1..Len(g)
                 /\ Records(g) = {r \in Records(t) : r.key = k}
                 /\ \A a \in 1..(Len(g) - 1) : g[a].id \in Ids(Front(g))
                 /\ Last(g) \in Records(t) /\ Last(g).key = k /\ k # None
  <2> DEFINE I == {i \in DOMAIN t : t[i].key = k}
             g == KeyGroup(t, k)
  <2>1. I \in SUBSET DOMAIN t /\ g = Kept(t, I) /\ Len(g) >= 2 /\ k # None
    BY DEF KeyGroup, Keys
  <2>2. IsTable(g) /\ Records(g) = {t[i] : i \in I}
    <3> HIDE DEF I, g
    <3> QED BY <2>1, KeptTable
  <2>3. Records(g) = {r \in Records(t) : r.key = k}
    BY <2>2 DEF Records
  <2> HIDE DEF g
  <2>4. g \in Seq(Records(g)) /\ Len(g) \in Nat /\ DOMAIN g = 1..Len(g)
    BY <2>2 DEF IsTable
  <2>5. ASSUME NEW a \in 1..(Len(g) - 1) PROVE g[a].id \in Ids(Front(g))
    <3>1. a \in DOMAIN Front(g) /\ Front(g)[a] = g[a]
      BY <2>1, <2>4 DEF Front
    <3> QED BY <3>1 DEF Ids
  <2>6. Last(g) \in Records(g)
    <3>1. Len(g) \in DOMAIN g
      BY <2>1, <2>4 DEF g
    <3> QED BY <2>2, <3>1, TableFacts DEF Last
  <2> QED BY <2>1, <2>2, <2>3, <2>4, <2>5, <2>6 DEF g
<1>6. ASSUME NEW i \in DOMAIN contested
      PROVE  LET g == KeyGroup(t, contested[i])
             IN  /\ q[i] = Mark(Ids(Front(g)), "superseded", Last(g).id)
                 /\ IsCall(q[i]) /\ q[i].by \in Ids(t) /\ q[i].call = "mark"
                 /\ q[i].ids = Ids(Front(g))
  <2> DEFINE g == KeyGroup(t, contested[i])
  <2>1. q[i] = Mark(Ids(Front(g)), "superseded", Last(g).id)
    BY DEF Fixes
  <2>2. Last(g) \in Records(t) /\ Last(g).key # None
    BY <1>4, <1>5
  <2>3. Last(g).id \in Ids(t) /\ Last(g).id \notin LessonIds
    BY <2>2 DEF IsTable, WellFormed, Ids, Records
  <2> HIDE DEF g, q
  <2>4. q[i].call = "mark" /\ q[i].status = "superseded" /\ q[i].by = Last(g).id
        /\ q[i].ids = Ids(Front(g))
    BY <2>1 DEF Mark
  <2> QED BY <2>1, <2>3, <2>4 DEF IsCall, g
<1>7. q \in Seq(Records(q)) /\ DOMAIN q = DOMAIN contested
  <2>1. DOMAIN q = 1..Len(contested) /\ q = [i \in DOMAIN q |-> q[i]]
    BY <1>4 DEF Fixes
  <2> HIDE DEF q
  <2> QED BY <1>4, <2>1, OwnList
<1> HIDE DEF q
<1>8. ASSUME NEW c \in Records(q) PROVE IsCall(c) /\ c.by \in Ids(t)
  BY <1>6, <1>7 DEF Records
<1>9. ASSUME NEW r \in Records(t), NEW s \in Records(t), Conflict(r, s)
      PROVE  \E c \in Records(q) : Settles(c, r, s)
  <2> DEFINE g == KeyGroup(t, r.key)
  <2>1. r.key \in K
    <3> DEFINE I == {i \in DOMAIN t : t[i].key = r.key}
    <3>1. PICK a \in I, b \in I : a # b
      BY <1>9 DEF Conflict, Records
    <3>2. IsTable(g) /\ Records(g) = {t[i] : i \in I}
      <4>1. I \in SUBSET DOMAIN t /\ g = Kept(t, I)
        BY DEF KeyGroup
      <4> HIDE DEF I, g
      <4> QED BY <4>1, KeptTable
    <3>3. r \in Records(g) /\ s \in Records(g)
      BY <1>9, <3>2 DEF Conflict, Records
    <3> HIDE DEF g
    <3>4. Len(g) \in Nat /\ DOMAIN g = 1..Len(g)
      BY <3>2 DEF IsTable
    <3>5. PICK m \in 1..Len(g), n \in 1..Len(g) : g[m] = r /\ g[n] = s
      BY <3>3, <3>4 DEF Records
    <3>6. m # n
      BY <1>9, <3>5 DEF Conflict
    <3>7. Len(g) >= 2
      BY <3>4, <3>5, <3>6
    <3> QED BY <1>9, <3>7 DEF Conflict, Keys, g
  <2>2. PICK i \in DOMAIN contested : contested[i] = r.key
    BY <1>3, <2>1
  <2>3. /\ IsTable(g) /\ Len(g) \in Nat /\ DOMAIN g = 1..Len(g)
        /\ Records(g) = {x \in Records(t) : x.key = r.key}
        /\ \A a \in 1..(Len(g) - 1) : g[a].id \in Ids(Front(g))
    BY <1>5, <2>1
  <2>4. q[i] \in Records(q) /\ q[i].call = "mark" /\ q[i].ids = Ids(Front(g))
    BY <1>6, <1>7, <2>2 DEF Records
  <2> HIDE DEF g
  <2>5. PICK m \in 1..Len(g), n \in 1..Len(g) : g[m] = r /\ g[n] = s
    BY <1>9, <2>3 DEF Conflict, Records
  <2>6. m # n
    BY <1>9, <2>5 DEF Conflict
  <2>7. m \in 1..(Len(g) - 1) \/ n \in 1..(Len(g) - 1)
    BY <2>3, <2>5, <2>6
  <2> QED BY <2>3, <2>4, <2>5, <2>7 DEF Settles
<1> QED BY <1>1, <1>7, <1>8, <1>9 DEF IsPlan

\* The fourth pass stores well-formed summaries.
LEMMA SummaryPlan ==
    ASSUME NEW t, IsTable(t)
    PROVE  /\ IsPlan(Summaries(t))
           /\ \A c \in Records(Summaries(t)) : c.call = "upsert"
<1> DEFINE A == {r.group : r \in Records(t)}
           G == {g \in A : Len(SummaryGroup(t, g)) >= MinSummaryGroup}
           groups == SetToSeq(G)
           q == [i \in DOMAIN groups |->
                    Upsert(SummaryRecord(groups[i], SummaryGroup(t, groups[i])), TRUE)]
<1>1. Summaries(t) = q
  BY DEF Summaries
<1>2. IsFiniteSet(G)
  <2> DEFINE f == [r \in Records(t) |-> r.group]
  <2>1. IsFiniteSet(Records(t))
    BY FinitePaths
  <2>2. f \in Surjection(Records(t), A)
    BY DEF Surjection
  <2>3. G \in SUBSET A
    OBVIOUS
  <2> HIDE DEF f, A, G
  <2> QED BY <2>1, <2>2, <2>3, FS_Surjection, FS_Subset
<1>3. groups \in Seq(G)
  <2> HIDE DEF G
  <2> QED BY <1>2, Enumerated
<1> HIDE DEF groups, G
<1>4. Len(groups) \in Nat /\ DOMAIN groups = 1..Len(groups)
  BY <1>3
<1>5. ASSUME NEW g
      PROVE  LET r == SummaryRecord(g, SummaryGroup(t, g)) IN WellFormed(r) /\ r.by = None
  <2> DEFINE I == {i \in DOMAIN t :
                      t[i].group = g /\ t[i].source \notin {"compaction", "lifecycle"}}
             members == SummaryGroup(t, g)
             paths == UNION {r.paths : r \in Records(members)}
             x == SummaryRecord(g, members)
  <2>1. I \in SUBSET DOMAIN t /\ members = Kept(t, I)
    BY DEF SummaryGroup
  <2>2. IsTable(members)
    <3> HIDE DEF I, members
    <3> QED BY <2>1, KeptTable
  <2> HIDE DEF members
  <2>3. IsFiniteSet(paths)
    BY <2>2, FinitePaths
  <2>4. /\ DOMAIN x = {"id", "key", "group", "pattern", "paths", "plain", "source", "status",
                       "pinned", "policy", "expires", "value", "supersedes", "by"}
        /\ x.id = <<"summary", g, paths>> /\ x.paths = paths /\ x.expires = FALSE /\ x.by = None
    BY DEF SummaryRecord
  <2> HIDE DEF x, paths
  <2>5. x.id \notin LessonIds /\ \A u, k : x.id # <<"preference", k, u>>
    BY <2>4 DEF LessonIds
  <2> QED BY <2>3, <2>4, <2>5 DEF WellFormed, Preference, x, members
<1>6. q \in Seq(Records(q)) /\ DOMAIN q = DOMAIN groups
  <2>1. DOMAIN q = 1..Len(groups) /\ q = [i \in DOMAIN q |-> q[i]]
    BY <1>4
  <2> HIDE DEF q
  <2> QED BY <1>4, <2>1, OwnList
<1>7. ASSUME NEW c \in Records(q) PROVE IsCall(c) /\ c.call = "upsert"
  <2>1. PICK i \in DOMAIN groups :
            c = Upsert(SummaryRecord(groups[i], SummaryGroup(t, groups[i])), TRUE)
    BY <1>7 DEF Records
  <2> DEFINE x == SummaryRecord(groups[i], SummaryGroup(t, groups[i]))
  <2>2. WellFormed(x) /\ x.by = None
    BY <1>5
  <2> HIDE DEF x
  <2>3. c.call = "upsert" /\ c.record = x
    BY <2>1 DEF Upsert, x
  <2> QED BY <2>2, <2>3 DEF IsCall
<1> QED BY <1>1, <1>6, <1>7 DEF IsPlan

\* The job's plan.
LEMMA JobPlan ==
    ASSUME NEW t, IsTable(t), \A r \in Records(t) : IsActive(r)
    PROVE  /\ IsPlan(LifecyclePlan(t))
           /\ \A c \in Records(LifecyclePlan(t)) : c.call = "mark" => c.by \in Ids(t)
           /\ \A r, s \in Records(t) : Conflict(r, s) =>
                \E c \in Records(LifecyclePlan(t)) : Settles(c, r, s)
<1> DEFINE d == Deprioritizations(t)
           p == Promotions(t)
           f == ContradictionFixes(t)
           s == Summaries(t)
<1>1. /\ IsPlan(d) /\ IsPlan(p) /\ IsPlan(f) /\ IsPlan(s)
      /\ \A c \in Records(d) \cup Records(p) \cup Records(s) : c.call = "upsert"
      /\ \A c \in Records(f) : c.by \in Ids(t)
      /\ \A x, y \in Records(t) : Conflict(x, y) => \E c \in Records(f) : Settles(c, x, y)
  BY RewritingPlan, SettlingPlan, SummaryPlan
<1>2. LifecyclePlan(t) = ((d \o p) \o f) \o s
  BY DEF LifecyclePlan
<1> HIDE DEF d, p, f, s
<1>3. IsPlan(d \o p) /\ Records(d \o p) = Records(d) \cup Records(p)
  BY <1>1, ConcatPlan
<1>4. /\ IsPlan((d \o p) \o f)
      /\ Records((d \o p) \o f) = Records(d) \cup Records(p) \cup Records(f)
  BY <1>1, <1>3, ConcatPlan
<1>5. /\ IsPlan(((d \o p) \o f) \o s)
      /\ Records(((d \o p) \o f) \o s)
           = Records(d) \cup Records(p) \cup Records(f) \cup Records(s)
  BY <1>1, <1>4, ConcatPlan
<1> QED BY <1>1, <1>2, <1>5

\* A mark whose replacement is in the table, or is stored by an earlier call.
Supported(q, ids) ==
    \A i \in DOMAIN q : q[i].call = "mark" =>
        \/ q[i].by \in ids
        \/ \E j \in 1..(i - 1) : q[j].call = "upsert" /\ q[j].record.id = q[i].by

\* The plan of a compaction stores what replaces the sources before it marks
\* them.
LEMMA CompactingPlan ==
    ASSUME NEW t, IsTable(t), NEW q \in CompactionPlans(t)
    PROVE  IsPlan(q) /\ \A ids : Supported(q, ids)
<1>1. PICK s \in Selections(t) : q = CompactionPlan(t, SetToSeq(s))
  BY DEF CompactionPlans
<1> DEFINE groups == SetToSeq(s)
           n == Len(groups)
           half(i) == groups[(i + 1) \div 2]
           calls(i) == CompactionCalls(t, half(i))
<1>2. IsFiniteSet(s)
  <2>1. IsFiniteSet(Compactable(t))
    <3>1. Compactable(t) \in SUBSET Records(t)
      BY DEF Compactable
    <3> QED BY <3>1, FinitePaths
  <2>2. ASSUME NEW r \in Compactable(t) PROVE IsFiniteSet(GroupsOf(r))
    <3> DEFINE A == {<<"failure", r.pattern>>} \ {<<"failure", None>>}
               B == {<<"file", p>> : p \in r.paths}
               C == {<<"project", r.group>>}
               f == [p \in r.paths |-> <<"file", p>>]
    <3>1. IsFiniteSet(r.paths)
      BY DEF Compactable, IsTable, WellFormed
    <3>2. f \in Surjection(r.paths, B)
      BY DEF Surjection
    <3>3. IsFiniteSet(B)
      <4> HIDE DEF f, B
      <4> QED BY <3>1, <3>2, FS_Surjection
    <3>4. IsFiniteSet(C) /\ IsFiniteSet(A)
      <4>1. IsFiniteSet({<<"failure", r.pattern>>}) /\ IsFiniteSet(C)
        BY FS_Singleton
      <4> QED BY <4>1, FS_Difference
    <3>5. GroupsOf(r) = (A \cup B) \cup C
      BY DEF GroupsOf
    <3> HIDE DEF A, B, C
    <3> QED BY <3>3, <3>4, <3>5, FS_Union
  <2> DEFINE all == {GroupsOf(r) : r \in Compactable(t)}
             f == [r \in Compactable(t) |-> GroupsOf(r)]
  <2>3. f \in Surjection(Compactable(t), all)
    BY DEF Surjection
  <2>4. \A T \in all : IsFiniteSet(T)
    BY <2>2
  <2>5. s \in SUBSET UNION all
    BY DEF Selections, Candidates
  <2> HIDE DEF all, f
  <2>6. IsFiniteSet(all)
    BY <2>1, <2>3, FS_Surjection
  <2>7. IsFiniteSet(UNION all)
    BY <2>4, <2>6, FS_UNION
  <2> QED BY <2>5, <2>7, FS_Subset
<1>3. n \in Nat
  <2>1. groups \in Seq(s)
    BY <1>2, Enumerated
  <2> HIDE DEF groups
  <2> QED BY <2>1
<1>4. /\ DOMAIN q = 1..(2 * n) /\ q = [i \in DOMAIN q |-> q[i]]
      /\ \A i \in 1..(2 * n) : q[i] = calls(i)[IF i % 2 = 1 THEN 1 ELSE 2]
  BY <1>1 DEF CompactionPlan
<1> HIDE DEF n, groups
<1>5. ASSUME NEW g
      PROVE  LET c == CompactionCalls(t, g)
             IN  /\ IsCall(c[1]) /\ c[1].call = "upsert"
                 /\ IsCall(c[2]) /\ c[2].call = "mark" /\ c[2].by = c[1].record.id
  <2> DEFINE members == MembersOf(t, g)
             x == CompactedRecord(g, members)
             paths == UNION {r.paths : r \in members}
             c == CompactionCalls(t, g)
  <2>1. IsFiniteSet(paths)
    <3>1. members \in SUBSET Records(t)
      BY DEF MembersOf, Compactable
    <3> HIDE DEF members
    <3> QED BY <3>1, FinitePaths
  <2>2. /\ DOMAIN x = {"id", "key", "group", "pattern", "paths", "plain", "source", "status",
                       "pinned", "policy", "expires", "value", "supersedes", "by"}
        /\ x.id = <<"compact", g, paths>> /\ x.paths = paths /\ x.expires = FALSE /\ x.by = None
    BY DEF CompactedRecord
  <2>3. c[1] = Upsert(x, TRUE) /\ c[2] = Mark({r.id : r \in members}, "superseded", x.id)
    BY DEF CompactionCalls
  <2> HIDE DEF x, paths, members, c
  <2>4. x.id \notin LessonIds /\ \A u, k : x.id # <<"preference", k, u>>
    BY <2>2 DEF LessonIds
  <2>5. WellFormed(x)
    BY <2>1, <2>2, <2>4 DEF WellFormed, Preference
  <2>6. /\ c[1].call = "upsert" /\ c[1].record = x
        /\ c[2].call = "mark" /\ c[2].status = "superseded" /\ c[2].by = x.id
    BY <2>3 DEF Upsert, Mark
  <2> QED BY <2>2, <2>4, <2>5, <2>6 DEF IsCall, c
<1>6. q \in Seq(Records(q))
  <2>1. 2 * n \in Nat
    BY <1>3
  <2> QED BY <1>4, <2>1, OwnList
<1>7. \A c \in Records(q) : IsCall(c)
  BY <1>4, <1>5 DEF Records
<1>8. ASSUME NEW ids, NEW i \in DOMAIN q, q[i].call = "mark"
      PROVE  \E j \in 1..(i - 1) : q[j].call = "upsert" /\ q[j].record.id = q[i].by
  <2>1. i \in 1..(2 * n) /\ q[i] = calls(i)[IF i % 2 = 1 THEN 1 ELSE 2]
    BY <1>4
  <2>2. i % 2 # 1 /\ q[i] = calls(i)[2]
    BY <1>5, <1>8, <2>1
  <2>3. i - 1 \in 1..(2 * n) /\ (i - 1) % 2 = 1 /\ ((i - 1) + 1) \div 2 = (i + 1) \div 2
    BY <1>3, <2>1, <2>2
  <2>4. q[i - 1] = calls(i)[1]
    BY <1>4, <2>3
  <2>5. i - 1 \in 1..(i - 1)
    BY <1>3, <2>3
  <2> QED BY <1>5, <2>2, <2>4, <2>5
<1> QED BY <1>6, <1>7, <1>8 DEF IsPlan, Supported

\* The records of the retriever and of the writer.
LEMMA SeededRecords ==
    ASSUME NEW u \in Users, NEW k \in Preferences
    PROVE  /\ WellFormed(Preference(u, k)) /\ Preference(u, k).by = None
           /\ Preference(u, k).id \notin LessonIds
           /\ IsActive(Preference(u, k)) /\ Preference(u, k).supersedes = None
           /\ Preference(u, k).key = <<"preference", k>>
<1> DEFINE x == Preference(u, k)
<1>1. /\ DOMAIN x = {"id", "key", "group", "pattern", "paths", "plain", "source", "status",
                     "pinned", "policy", "expires", "value", "supersedes", "by"}
      /\ x.id = <<"preference", k, u>> /\ x.key = <<"preference", k>> /\ x.paths = {}
      /\ x.expires = FALSE /\ x.by = None /\ x.status = "active" /\ x.supersedes = None
  BY DEF Preference
<1>2. \A v \in Users, l \in Preferences : x.id = Preference(v, l).id => x.key = Preference(v, l).key
  BY <1>1 DEF Preference
<1> HIDE DEF x
<1>3. x.id \notin LessonIds
  BY <1>1 DEF LessonIds
<1> QED BY <1>1, <1>2, <1>3, FS_EmptySet DEF WellFormed, IsActive, x

\* What the memory writer may store.
LEMMA LearnedRecords ==
    ASSUME NEW l \in Lessons, NEW x \in StoredLessons(l)
    PROVE  WellFormed(x) /\ x.by = None
<1>1. /\ DOMAIN x = {"id", "key", "group", "pattern", "paths", "plain", "source", "status",
                     "pinned", "policy", "expires", "value", "supersedes", "by"}
      /\ x.id = <<"lesson", l>> /\ x.key = None /\ x.paths = LessonShape[l].paths /\ x.by = None
  BY DEF StoredLessons
<1>2. x.id \in LessonIds
  BY <1>1 DEF LessonIds
<1>3. \A u, k : x.id # <<"preference", k, u>>
  BY <1>1
<1> QED BY <1>1, <1>2, <1>3, LessonsAssumption DEF WellFormed, Preference

---------------------------------------------------------------------------
(* The inductive invariant: what all processes share, and what holds of    *)
(* each.                                                                   *)

\* What is replaced names what is stored.
Replaced(t) == \A r \in Records(t) : r.by # None => r.by \in Ids(t)

Shared ==
    /\ backend \in {"postgres", "jsonl"}
    /\ IsTable(table)
    /\ at \in [Procs -> {"idle", "seeding", "writing", "cleaned", "maintaining", "compacting"}]
    /\ at[Job] \notin {"seeding", "writing"}
    /\ DOMAIN todo = Procs /\ DOMAIN view = Procs /\ DOMAIN disturbed = Procs
    /\ DOMAIN user = Agents
    /\ ~lost => Replaced(table)

\* A process has calls to make while it has one open, and in the file it has
\* read a table.
HasCalls(p) ==
    /\ IsPlan(todo[p])
    /\ at[p] \in {"idle", "cleaned"} => Quiet(p)
    /\ view[p] # None => todo[p] # <<>> /\ (backend = "jsonl" => IsTable(view[p][1]))

\* Every contradiction in the table is one the job is still going to settle, or
\* one with a record that was not on its list.
Settling(t) ==
    \A r, s \in Records(t) : Conflict(r, s) =>
        \/ r.id \in overlooked \/ s.id \in overlooked
        \/ \E c \in Records(todo[Job]) : Settles(c, r, s)

JobSettles ==
    at[Job] \in {"maintaining", "compacting"} /\ "call" \notin disturbed[Job] =>
        /\ Settling(table)
        /\ view[Job] # None /\ backend = "jsonl" => Settling(view[Job][1])
        /\ view[Job] # None /\ backend = "postgres" /\ Head(todo[Job]).call = "upsert" =>
            SupersededIn(table, Head(todo[Job]).record) \subseteq view[Job][1]

\* Every preference is active, or the agent is still going to store it.
Restoring(a, t) ==
    \A k \in Preferences :
        \/ \E r \in Records(t) : r.id = Preference(user[a], k).id /\ IsActive(r)
        \/ Upsert(Preference(user[a], k), TRUE) \in Records(todo[a])

AgentRestores(a) ==
    at[a] = "seeding" /\ disturbed[a] = {} =>
        /\ user[a] \in Users
        /\ \A c \in Records(todo[a]) :
            \E k \in Preferences : c = Upsert(Preference(user[a], k), TRUE)
        /\ Restoring(a, table)
        /\ view[a] # None /\ backend = "jsonl" => Restoring(a, view[a][1])

ProcInv(p) ==
    /\ HasCalls(p)
    /\ ~lost => Supported(todo[p], Ids(table))
    /\ p = Job => JobSettles
    /\ p \in Agents => AgentRestores(p)

StoreInv == Shared /\ \A p \in Procs : ProcInv(p)

\* Nothing to do is a plan.
LEMMA EmptyPlan == IsPlan(<<>>) /\ Records(<<>>) = {} /\ \A ids : Supported(<<>>, ids)
<1>1. Records(<<>>) = {}
  BY DEF Records
<1>2. <<>> \in Seq(Records(<<>>))
  OBVIOUS
<1> QED BY <1>1, <1>2 DEF IsPlan, Supported

\* Initially nobody does anything, whatever table was found.
LEMMA StoreInit == Init => StoreInv
<1> SUFFICES ASSUME Init PROVE StoreInv
  OBVIOUS
<1> USE DEF Init
<1>1. IsTable(table) /\ Replaced(table)
  <2>1. CASE table = <<>>
    <3>1. Records(table) = {} /\ table \in Seq(Records(table)) /\ DOMAIN table = {}
      BY <2>1, EmptyPlan
    <3> QED BY <3>1 DEF IsTable, Replaced
  <2>2. CASE table \in Overlapped
    BY <2>2, OverlappedAssumption DEF Replaced
  <2> QED BY <2>1, <2>2
<1>2. Job \in Procs /\ Agents \subseteq Procs
  BY DEF Procs
<1>3. Shared
  BY <1>1, <1>2 DEF Shared
<1>4. ASSUME NEW p \in Procs PROVE ProcInv(p)
  <2>1. at[p] = "idle" /\ todo[p] = <<>> /\ view[p] = None
    BY <1>4
  <2>2. at[Job] = "idle"
    BY <1>2
  <2> QED BY <2>1, <2>2, EmptyPlan DEF ProcInv, HasCalls, Quiet, JobSettles, AgentRestores
<1> QED BY <1>3, <1>4 DEF StoreInv

---------------------------------------------------------------------------
(* Steps that read the table, and may clean it.                            *)

\* A step that at most cleans the table keeps what is no lesson.
LEMMA ReadTable ==
    ASSUME IsTable(table), table' \in {table, Pruned(table)}
    PROVE  /\ IsTable(table') /\ Records(table') \subseteq Records(table)
           /\ \A r \in Records(table) : r.id \notin LessonIds => r \in Records(table')
           /\ \A x \in Ids(table) \ LessonIds : x \in Ids(table')
           /\ Replaced(table) => Replaced(table')
<1>1. /\ IsTable(table') /\ Records(table') \subseteq Records(table)
      /\ \A x \in Ids(table) \ LessonIds : x \in Ids(table')
  BY PrunedTable
<1>2. ASSUME NEW r \in Records(table), r.id \notin LessonIds PROVE r \in Records(table')
  <2>1. ~Deletable(r)
    BY <1>2 DEF IsTable, WellFormed, Deletable
  <2> QED BY <2>1, PrunedTable
<1>3. ASSUME Replaced(table), NEW r \in Records(table'), r.by # None PROVE r.by \in Ids(table')
  <2>1. r \in Records(table) /\ r.by \in Ids(table)
    BY <1>1, <1>3 DEF Replaced
  <2>2. r.by \notin LessonIds
    BY <1>3, <2>1 DEF IsTable, WellFormed
  <2> QED BY <1>1, <2>1, <2>2
<1> QED BY <1>1, <1>2, <1>3 DEF Replaced

\* Fewer records, no new contradiction; and a preference is not cleaned away.
LEMMA SettlingOfFewer ==
    ASSUME NEW t, NEW u, Records(u) \subseteq Records(t), Settling(t)
    PROVE  Settling(u)
BY DEF Settling

LEMMA RestoringOfFewer ==
    ASSUME NEW t, NEW u, \A r \in Records(t) : r.id \notin LessonIds => r \in Records(u),
           NEW a \in Agents, user[a] \in Users, Restoring(a, t)
    PROVE  Restoring(a, u)
<1> SUFFICES ASSUME NEW k \in Preferences
             PROVE  \/ \E r \in Records(u) : r.id = Preference(user[a], k).id /\ IsActive(r)
                    \/ Upsert(Preference(user[a], k), TRUE) \in Records(todo[a])
  BY DEF Restoring
<1>1. Preference(user[a], k).id \notin LessonIds
  BY SeededRecords
<1> QED BY <1>1 DEF Restoring

\* What a mark needs is never a lesson, so cleaning does not take it.
LEMMA SupportedByMore ==
    ASSUME NEW q, IsPlan(q), NEW X, NEW Y, \A x \in X \ LessonIds : x \in Y, Supported(q, X)
    PROVE  Supported(q, Y)
<1> SUFFICES ASSUME NEW i \in DOMAIN q, q[i].call = "mark", q[i].by \in X
             PROVE  q[i].by \in Y
  BY DEF Supported
<1>1. IsCall(q[i])
  BY DEF IsPlan, Records
<1> QED BY <1>1 DEF IsCall

\* A process that does nothing while another reads the table.
LEMMA OthersKeep ==
    ASSUME StoreInv, table' \in {table, Pruned(table)}, UNCHANGED <<backend, lost>>,
           NEW q \in Procs, at'[q] = at[q], todo'[q] = todo[q], view'[q] = view[q],
           disturbed'[q] = disturbed[q], q \in Agents => user'[q] = user[q],
           q = Job => overlooked' = overlooked
    PROVE  ProcInv(q)'
<1>1. /\ IsTable(table') /\ Records(table') \subseteq Records(table)
      /\ \A r \in Records(table) : r.id \notin LessonIds => r \in Records(table')
      /\ \A x \in Ids(table) \ LessonIds : x \in Ids(table')
  BY ReadTable DEF StoreInv, Shared
<1>2. ProcInv(q)
  BY DEF StoreInv
<1>3. HasCalls(q)'
  BY <1>2 DEF ProcInv, HasCalls, Quiet
<1>4. ~lost' => Supported(todo'[q], Ids(table'))
  BY <1>1, <1>2, SupportedByMore DEF ProcInv, HasCalls
<1>5. ASSUME q = Job PROVE JobSettles'
  <2>1. JobSettles
    BY <1>2, <1>5 DEF ProcInv
  <2>2. Settling(table) => Settling(table')
    BY <1>1, SettlingOfFewer
  <2>4. \A r : SupersededIn(table', r) \subseteq SupersededIn(table, r)
    BY <1>1 DEF SupersededIn
  <2>5. Settling(table') => Settling(table)'
    BY <1>5 DEF Settling
  <2>6. Settling(view[Job][1]) => Settling(view[Job][1])'
    BY <1>5 DEF Settling
  <2>7. \A r : SupersededIn(table, r)' = SupersededIn(table', r)
    BY DEF SupersededIn, Supersedes
  <2> QED BY <1>5, <2>1, <2>2, <2>4, <2>5, <2>6, <2>7 DEF JobSettles
<1>6. ASSUME q \in Agents PROVE AgentRestores(q)'
  <2>1. AgentRestores(q)
    BY <1>2, <1>6 DEF ProcInv
  <2>2. user[q] \in Users /\ Restoring(q, table) => Restoring(q, table')
    BY <1>1, <1>6, RestoringOfFewer
  <2>3. Restoring(q, table') => Restoring(q, table)'
    BY <1>6 DEF Restoring
  <2>4. Restoring(q, view[q][1]) => Restoring(q, view[q][1])'
    BY <1>6 DEF Restoring
  <2> QED BY <1>6, <2>1, <2>2, <2>3, <2>4 DEF AgentRestores
<1> QED BY <1>3, <1>4, <1>5, <1>6 DEF ProcInv

---------------------------------------------------------------------------
(* The end of a call.                                                      *)

\* The next call of a plan and the rest of it.
LEMMA TailPlan ==
    ASSUME NEW q, IsPlan(q), q # <<>>
    PROVE  /\ Head(q) \in Records(q) /\ IsCall(Head(q))
           /\ IsPlan(Tail(q)) /\ Records(q) = Records(Tail(q)) \cup {Head(q)}
           /\ \A ids : Supported(q, ids) /\ Head(q).call = "mark" => Head(q).by \in ids
           /\ \A ids, more :
                /\ Supported(q, ids) /\ ids \subseteq more
                /\ Head(q).call = "upsert" => Head(q).record.id \in more
                => Supported(Tail(q), more)
<1> DEFINE n == Len(q)
           t == Tail(q)
<1>1. /\ q \in Seq(Records(q)) /\ n \in Nat /\ n >= 1 /\ DOMAIN q = 1..n /\ Head(q) = q[1]
      /\ t \in Seq(Records(q)) /\ DOMAIN t = 1..(n - 1)
      /\ \A i \in 1..(n - 1) : t[i] = q[i + 1]
  BY DEF IsPlan
<1> HIDE DEF n, t
<1>2. 1 \in DOMAIN q /\ \A i \in 1..(n - 1) : i + 1 \in 1..n
  BY <1>1
<1>3. Head(q) \in Records(q) /\ IsCall(Head(q))
  BY <1>1, <1>2 DEF IsPlan, Records
<1>4. t \in Seq(Records(t)) /\ Records(t) \subseteq Records(q)
  BY <1>1, OwnElements
<1>5. ASSUME NEW c \in Records(q), c # q[1] PROVE c \in Records(t)
  <2>1. PICK i \in 1..n : c = q[i]
    BY <1>1 DEF Records
  <2>2. i - 1 \in 1..(n - 1) /\ (i - 1) + 1 = i
    BY <1>1, <1>5, <2>1
  <2>3. t[i - 1] = c /\ i - 1 \in DOMAIN t
    BY <1>1, <2>1, <2>2
  <2> QED BY <2>3 DEF Records
<1>6. Records(q) = Records(t) \cup {Head(q)}
  BY <1>1, <1>3, <1>4, <1>5
<1>7. IsPlan(t)
  BY <1>4 DEF IsPlan
<1>8. ASSUME NEW ids, Supported(q, ids), Head(q).call = "mark" PROVE Head(q).by \in ids
  <2>1. ~\E j \in 1..(1 - 1) : TRUE
    OBVIOUS
  <2> QED BY <1>1, <1>2, <1>8, <2>1 DEF Supported
<1>9. ASSUME NEW ids, NEW more, Supported(q, ids), ids \subseteq more,
             Head(q).call = "upsert" => Head(q).record.id \in more
      PROVE  Supported(t, more)
  <2> SUFFICES ASSUME NEW i \in 1..(n - 1), t[i].call = "mark"
               PROVE  \/ t[i].by \in more
                      \/ \E j \in 1..(i - 1) : t[j].call = "upsert" /\ t[j].record.id = t[i].by
    BY <1>1 DEF Supported
  <2>1. i + 1 \in DOMAIN q /\ q[i + 1].call = "mark" /\ t[i] = q[i + 1]
    BY <1>1, <1>2
  <2>2. \/ q[i + 1].by \in ids
        \/ \E j \in 1..((i + 1) - 1) : q[j].call = "upsert" /\ q[j].record.id = q[i + 1].by
    BY <1>9, <2>1 DEF Supported
  <2>3. CASE q[i + 1].by \in ids
    BY <1>9, <2>1, <2>3
  <2>4. ASSUME NEW j \in 1..((i + 1) - 1), q[j].call = "upsert", q[j].record.id = q[i + 1].by
        PROVE  \/ t[i].by \in more
               \/ \E m \in 1..(i - 1) : t[m].call = "upsert" /\ t[m].record.id = t[i].by
    <3>1. CASE j = 1
      BY <1>1, <1>9, <2>1, <2>4, <3>1
    <3>2. CASE j # 1
      <4>1. j - 1 \in 1..(i - 1) /\ j - 1 \in 1..(n - 1) /\ (j - 1) + 1 = j
        BY <1>1, <3>2
      <4>2. t[j - 1] = q[j]
        BY <1>1, <4>1
      <4> QED BY <2>1, <2>4, <4>1, <4>2
    <3> QED BY <3>1, <3>2
  <2> QED BY <2>2, <2>3, <2>4
<1> QED BY <1>3, <1>6, <1>7, <1>8, <1>9 DEF t

\* The table a call starts from, and the table it leaves.
Base(p) == IF backend = "jsonl" THEN view[p][1] ELSE table

\* What the call supersedes beside storing its record.
Superseded(p, r) ==
    IF backend = "jsonl" THEN SupersededIn(Base(p), r)
    ELSE view[p][1] \cap SupersededIn(table, r)

\* All the table that comes of a call, before a full file is cut.
Whole(p) ==
    IF backend = "jsonl" THEN FileAfter(view[p][1], Head(todo[p]))
    ELSE RowsAfter(view[p][1], Head(todo[p]))

\* What a call makes of it: what is active then was active before and not
\* superseded, or is the record the call stores.
LEMMA WholeTable ==
    ASSUME StoreInv, NEW p \in Procs, view[p] # None
    PROVE  LET c == Head(todo[p])
               w == Whole(p) IN
           /\ IsTable(Base(p)) /\ IsTable(w)
           /\ IsCall(c) /\ todo[p] # <<>>
           /\ Ids(Base(p)) \subseteq Ids(w)
           /\ c.call = "upsert" => c.record \in Records(w) /\ c.record.id \in Ids(w)
           /\ \A x \in Records(w) :
                \/ c.call = "mark" /\ x.by = c.by
                \/ c.call = "upsert" /\ x = c.record
                \/ \E y \in Records(Base(p)) : y.by = x.by
           /\ \A x \in Records(w) : IsActive(x) =>
                \/ c.call = "upsert" /\ x = c.record
                \/ c.call = "mark" /\ x \in Records(Base(p)) /\ x.id \notin c.ids
                \/ /\ c.call = "upsert" /\ x \in Records(Base(p)) /\ x.id # c.record.id
                   /\ x.id \notin Superseded(p, c.record)
           /\ c.call = "upsert" =>
                \A y \in Records(Base(p)) :
                    y.id \notin Superseded(p, c.record) \cup {c.record.id} => y \in Records(w)
<1> DEFINE c == Head(todo[p])
           base == Base(p)
           S == Superseded(p, c.record)
           w == Whole(p)
<1>1. HasCalls(p) /\ view[p] # None /\ Shared
  BY DEF StoreInv, ProcInv
<1>2. todo[p] # <<>> /\ IsCall(c) /\ IsTable(base)
  <2>1. todo[p] # <<>> /\ IsTable(base)
    BY <1>1 DEF HasCalls, Shared, Base
  <2> QED BY <1>1, <2>1, TailPlan DEF HasCalls
<1>4. w = IF c.call = "mark" THEN Marked(base, c)
               ELSE Stored(WithStatus(base, S, "superseded"), c.record, c.fresh)
  BY <1>1 DEF Shared, Whole, FileAfter, RowsAfter, Base, Superseded
<1>5. \A q : Ids(q) = {x.id : x \in Records(q)}
  BY DEF Ids, Records
<1> HIDE DEF c, base, S, w
<1>6. CASE c.call = "mark"
  <2>1. c.status = "superseded" /\ c.by \notin LessonIds
    BY <1>2, <1>6 DEF IsCall
  <2>2. w = Marked(base, c)
    BY <1>4, <1>6
  <2>3. /\ IsTable(w) /\ Ids(w) = Ids(base)
        /\ \A x \in Records(w) :
             /\ IsActive(x) => x \in Records(base) /\ x.id \notin c.ids
             /\ x.by = c.by \/ \E y \in Records(base) : y.by = x.by
    BY <1>2, <2>1, <2>2, MarkTable
  <2> QED BY <1>2, <1>6, <2>3 DEF c, base, w
<1>7. CASE c.call = "upsert"
  <2>1. WellFormed(c.record) /\ c.call # "mark"
    BY <1>2, <1>7 DEF IsCall
  <2>2. w = Stored(WithStatus(base, S, "superseded"), c.record, c.fresh)
    BY <1>4, <1>7
  <2>3. /\ IsTable(w) /\ Ids(w) = Ids(base) \cup {c.record.id}
        /\ c.record \in Records(w)
        /\ \A x \in Records(w) \ {c.record} : x.id # c.record.id /\ \E y \in Records(base) :
             /\ y.id = x.id /\ y.key = x.key /\ y.by = x.by
             /\ IsActive(x) => x = y /\ x.id \notin S
        /\ \A y \in Records(base) : y.id \notin S \cup {c.record.id} => y \in Records(w)
    BY <1>2, <2>1, <2>2, UpsertTable
  <2>4. \A x \in Records(w) :
            x = c.record \/ \E y \in Records(base) : y.by = x.by
    BY <2>3
  <2>5. \A x \in Records(w) : IsActive(x) =>
            x = c.record \/ (x \in Records(base) /\ x.id # c.record.id /\ x.id \notin S)
    BY <2>3
  <2> QED BY <1>2, <1>7, <2>3, <2>4, <2>5 DEF c, base, S, w
<1> QED BY <1>2, <1>6, <1>7 DEF IsCall

\* Some records of a table, and all of them if they are fewer than n.
LEMMA LastRecords ==
    ASSUME NEW t, IsTable(t), NEW n \in Nat, NEW u \in Lists(t, n)
    PROVE  /\ IsTable(u) /\ Records(u) \subseteq Records(t)
           /\ backend = "jsonl" => Len(u) = n \/ Ids(u) = Ids(t)
<1>1. PICK I \in LastPlaces(t, n) : u = Kept(t, I)
  BY DEF Lists
<1>2. Len(t) \in Nat /\ DOMAIN t = 1..Len(t)
  BY TableFacts
<1>3. I \in SUBSET DOMAIN t
  BY <1>1 DEF LastPlaces, kSubset
<1>4. IsTable(u) /\ Records(u) = {t[i] : i \in I}
  BY <1>1, <1>3, KeptTable
<1>5. Len(u) = Cardinality(I)
  <2>1. t \in Seq(Records(t))
    BY DEF IsTable
  <2> QED BY <1>1, <1>3, <2>1, KeptElements
<1>6. ASSUME backend = "jsonl" PROVE Len(u) = n \/ Ids(u) = Ids(t)
  <2>1. Cardinality(I) = IF Len(t) < n THEN Len(t) ELSE n
    BY <1>1, <1>6 DEF LastPlaces, kSubset
  <2>2. CASE Len(t) < n
    <3> DEFINE m == Len(t)
    <3>0. m \in Nat
      BY <1>2
    <3> HIDE DEF m
    <3>1. IsFiniteSet(1..m) /\ Cardinality(1..m) = m
      BY <3>0, FS_Interval
    <3> USE DEF m
    <3>2. I = DOMAIN t
      BY <1>2, <1>3, <2>1, <2>2, <3>1, FS_Subset
    <3>3. Records(u) = Records(t)
      BY <1>4, <3>2 DEF Records
    <3>4. \A q : Ids(q) = {x.id : x \in Records(q)}
      BY DEF Ids, Records
    <3> QED BY <3>3, <3>4
  <2>3. CASE ~(Len(t) < n)
    BY <1>5, <2>1, <2>3
  <2> QED BY <2>2, <2>3
<1>7. Records(u) \subseteq Records(t)
  BY <1>3, <1>4 DEF Records
<1> QED BY <1>4, <1>6, <1>7

\* What is written of it.
LEMMA FinishTable ==
    ASSUME StoreInv, NEW p \in Procs, Finish(p)
    PROVE  LET c == Head(todo[p])
               w == Whole(p) IN
           /\ IsTable(table') /\ Records(table') \subseteq Records(w)
           /\ c.call = "upsert" => c.record \in Records(table')
           /\ ~lost' => ~lost /\ Base(p) = table /\ table' = w
           /\ disturbed'[p] = {} => table' = w
           /\ DOMAIN disturbed' = Procs /\ disturbed[p] \subseteq disturbed'[p]
           /\ \A q \in Procs : q = p \/ at[q] = "idle" \/ "call" \in disturbed'[q]
           /\ \/ Base(p) = table /\ table' = w
              \/ Races(p)
              \/ /\ Base(p) = table
                 /\ Ids(table') = Ids(w) \/ Len(table') = MaxRecords
<1> DEFINE c == Head(todo[p])
           w == Whole(p)
<1>1. HasCalls(p) /\ view[p] # None /\ Shared /\ at[p] # "idle"
  BY DEF StoreInv, ProcInv, Finish, HasCalls, Quiet
<1>2. IsTable(w) /\ (c.call = "upsert" => c.record \in Records(w))
  BY <1>1, WholeTable
<1>3. \/ /\ backend = "postgres" /\ Base(p) = table /\ table' = w
         /\ Disturb(p, FALSE) /\ lost' = lost
      \/ /\ backend = "jsonl" /\ Base(p) = view[p][1] /\ table' \in Written(w, c)
         /\ Disturb(p, table' # w)
         /\ lost' = (lost \/ Races(p) \/ table' # w)
  BY DEF Finish, Whole, Base
<1>4. ASSUME NEW trimmed \in BOOLEAN, Disturb(p, trimmed)
      PROVE  /\ DOMAIN disturbed' = Procs /\ disturbed[p] \subseteq disturbed'[p]
             /\ \A q \in Procs : q = p \/ at[q] = "idle" \/ "call" \in disturbed'[q]
             /\ trimmed => disturbed'[p] # {}
  BY <1>1, <1>4 DEF Disturb
<1>5. Races(p) \/ table = view[p][1]
  BY <1>1 DEF Races
<1> HIDE DEF c, w
<1>6. CASE backend = "postgres"
  <2>1. Disturb(p, FALSE) /\ lost' = lost /\ Base(p) = table /\ table' = w
    BY <1>3, <1>6
  <2> QED BY <1>2, <1>4, <2>1 DEF c, w
<1>7. CASE backend = "jsonl"
  <2>1. /\ Base(p) = view[p][1] /\ table' \in Written(w, c)
        /\ Disturb(p, table' # w)
        /\ lost' = (lost \/ Races(p) \/ table' # w)
    BY <1>3, <1>7
  <2>2. table' \in Lists(w, MaxRecords) /\ (c.call = "upsert" => c.record \in Records(table'))
    BY <2>1 DEF Written
  <2>3. /\ IsTable(table') /\ Records(table') \subseteq Records(w)
        /\ Ids(table') = Ids(w) \/ Len(table') = MaxRecords
    BY <1>2, <1>7, <2>2, LastRecords, LimitsAssumption
  <2>4. /\ DOMAIN disturbed' = Procs /\ disturbed[p] \subseteq disturbed'[p]
        /\ \A q \in Procs : q = p \/ at[q] = "idle" \/ "call" \in disturbed'[q]
        /\ table' # w => disturbed'[p] # {}
    <3>1. (table' # w) \in BOOLEAN
      OBVIOUS
    <3> QED BY <1>4, <2>1, <3>1
  <2> QED BY <1>5, <2>1, <2>2, <2>3, <2>4 DEF c, w
<1> QED BY <1>1, <1>6, <1>7 DEF Shared

\* A finished call settles its contradictions, or stores its preference, for
\* its own process; it disturbs every other process that is under way.
LEMMA FinishStep ==
    ASSUME StoreInv, NEW p \in Procs, Finish(p)
    PROVE  StoreInv'
<1> DEFINE c == Head(todo[p])
           base == Base(p)
           S == Superseded(p, c.record)
           w == Whole(p)
<1>1. /\ IsTable(base) /\ IsCall(c) /\ todo[p] # <<>>
      /\ Ids(base) \subseteq Ids(w)
      /\ c.call = "upsert" => c.record.id \in Ids(w)
      /\ \A x \in Records(w) :
                \/ c.call = "mark" /\ x.by = c.by
                \/ c.call = "upsert" /\ x = c.record
                \/ \E y \in Records(base) : y.by = x.by
      /\ \A x \in Records(w) : IsActive(x) =>
                \/ c.call = "upsert" /\ x = c.record
                \/ c.call = "mark" /\ x \in Records(base) /\ x.id \notin c.ids
                \/ /\ c.call = "upsert" /\ x \in Records(base) /\ x.id # c.record.id
                   /\ x.id \notin S
      /\ c.call = "upsert" =>
           \A y \in Records(base) :
              y.id \notin S \cup {c.record.id} => y \in Records(w)
  BY WholeTable DEF Finish
<1>0. /\ IsTable(table') /\ Records(table') \subseteq Records(w)
      /\ c.call = "upsert" => c.record \in Records(table')
      /\ ~lost' => ~lost /\ base = table /\ table' = w
      /\ disturbed'[p] = {} => table' = w
      /\ DOMAIN disturbed' = Procs /\ disturbed[p] \subseteq disturbed'[p]
      /\ \A q \in Procs : q = p \/ at[q] = "idle" \/ "call" \in disturbed'[q]
  BY FinishTable
<1>2. Shared /\ ProcInv(p) /\ HasCalls(p) /\ view[p] # None
  BY DEF StoreInv, ProcInv, Finish
<1>3. /\ at' = at /\ user' = user /\ backend' = backend
      /\ todo' = [todo EXCEPT ![p] = Tail(todo[p])] /\ todo'[p] = Tail(todo[p])
      /\ view' = [view EXCEPT ![p] = None] /\ view'[p] = None
      /\ overlooked' = overlooked
  BY <1>2 DEF Finish, Shared
<1>4. /\ c \in Records(todo[p]) /\ IsPlan(Tail(todo[p]))
      /\ Records(todo[p]) = Records(Tail(todo[p])) \cup {c}
      /\ \A ids : Supported(todo[p], ids) /\ c.call = "mark" => c.by \in ids
      /\ \A ids, more :
            /\ Supported(todo[p], ids) /\ ids \subseteq more
            /\ c.call = "upsert" => c.record.id \in more
            => Supported(Tail(todo[p]), more)
  BY <1>1, <1>2, TailPlan DEF HasCalls
<1>5. S \subseteq SupersededIn(base, c.record)
  BY DEF Superseded, Base
<1> HIDE DEF c, base, S, w
<1>6. ~lost' => Replaced(table')
  <2> SUFFICES ASSUME ~lost', NEW x \in Records(table'), x.by # None PROVE x.by \in Ids(table')
    BY DEF Replaced
  <2>1. /\ ~lost /\ base = table /\ table' = w
        /\ Replaced(table) /\ Supported(todo[p], Ids(table))
    BY <1>0, <1>2 DEF Shared, ProcInv
  <2>2. CASE c.call = "mark" /\ x.by = c.by
    BY <1>1, <1>4, <2>1, <2>2
  <2>3. CASE c.call = "upsert" /\ x = c.record
    BY <1>1, <2>3 DEF IsCall
  <2>4. CASE \E y \in Records(base) : y.by = x.by
    BY <1>1, <2>1, <2>4 DEF Replaced
  <2> QED BY <1>0, <1>1, <2>2, <2>3, <2>4
<1>7. Shared'
  BY <1>0, <1>2, <1>3, <1>6 DEF Shared, Replaced
<1>8. ASSUME NEW q \in Procs, q # p PROVE ProcInv(q)'
  <2>1. /\ todo'[q] = todo[q] /\ view'[q] = view[q] /\ at'[q] = at[q]
        /\ "call" \in disturbed'[q] \/ at'[q] = "idle"
    BY <1>0, <1>2, <1>3, <1>8 DEF Shared
  <2>2. ProcInv(q)
    BY DEF StoreInv
  <2>3. HasCalls(q)'
    BY <1>3, <2>1, <2>2 DEF ProcInv, HasCalls, Quiet
  <2>4. ~lost' => Supported(todo'[q], Ids(table'))
    BY <1>0, <1>1, <2>1, <2>2, SupportedByMore DEF ProcInv, HasCalls
  <2>5. (q = Job => JobSettles') /\ (q \in Agents => AgentRestores(q)')
    BY <2>1 DEF JobSettles, AgentRestores
  <2> QED BY <2>3, <2>4, <2>5 DEF ProcInv
<1>9. HasCalls(p)'
  BY <1>2, <1>3, <1>4 DEF HasCalls, Quiet
<1>10. ~lost' => Supported(todo'[p], Ids(table'))
  BY <1>0, <1>1, <1>2, <1>3, <1>4 DEF ProcInv
<1>11. ASSUME p = Job PROVE JobSettles'
  <2> SUFFICES ASSUME at[Job] \in {"maintaining", "compacting"}, "call" \notin disturbed[Job],
                      NEW r \in Records(w), NEW s \in Records(w), Conflict(r, s),
                      r.id \notin overlooked, s.id \notin overlooked
               PROVE  \E d \in Records(Tail(todo[Job])) : Settles(d, r, s)
    <3>1. "call" \notin disturbed'[Job] => "call" \notin disturbed[Job]
      BY <1>0, <1>11
    <3> QED BY <1>0, <1>3, <1>11, <3>1 DEF JobSettles, Settling
  <2>1. JobSettles
    BY <1>2, <1>11 DEF ProcInv
  <2>2. \A x, y \in Records(base) : Conflict(x, y) =>
            \/ x.id \in overlooked \/ y.id \in overlooked
            \/ \E d \in Records(todo[Job]) : Settles(d, x, y)
    BY <1>2, <1>11, <2>1 DEF JobSettles, Settling, Base, base
  <2>3. c.call = "upsert" => S = SupersededIn(base, c.record)
    BY <1>2, <1>11, <2>1 DEF JobSettles, Shared, Base, base, c, S, Superseded
  <2>4. ASSUME NEW x \in Records(w), NEW y \in Records(w), Conflict(x, y),
               c.call = "upsert", x = c.record,
               y \in Records(base), y.id # c.record.id, y.id \notin S
        PROVE  FALSE
    <3>1. Supersedes(c.record, y)
      BY <2>4 DEF Supersedes, Conflict
    <3> QED BY <2>3, <2>4, <3>1 DEF SupersededIn
  <2>5. Conflict(s, r)
    BY DEF Conflict
  <2>6. r \in Records(base) /\ s \in Records(base)
    <3>1. IsActive(r) /\ IsActive(s) /\ r # s
      BY DEF Conflict
    <3> QED BY <1>1, <2>4, <2>5, <3>1
  <2>7. PICK d \in Records(todo[Job]) : Settles(d, r, s)
    BY <2>2, <2>6
  <2>8. d # c
    <3>1. c.call = "mark" => r.id \notin c.ids /\ s.id \notin c.ids
      BY <1>1 DEF Conflict
    <3> QED BY <2>7, <3>1 DEF Settles
  <2> QED BY <1>4, <1>11, <2>7, <2>8
<1>12. ASSUME p \in Agents PROVE AgentRestores(p)'
  <2>1. SUFFICES ASSUME at[p] = "seeding", disturbed[p] = {}, table' = w
                 PROVE  /\ user[p] \in Users
                        /\ \A d \in Records(Tail(todo[p])) :
                            \E k \in Preferences : d = Upsert(Preference(user[p], k), TRUE)
                        /\ Restoring(p, table)'
    <3>1. disturbed'[p] = {} => disturbed[p] = {} /\ table' = w
      BY <1>0
    <3> QED BY <1>3, <3>1 DEF AgentRestores
  <2>2. /\ user[p] \in Users
        /\ \A d \in Records(todo[p]) :
            \E k \in Preferences : d = Upsert(Preference(user[p], k), TRUE)
        /\ Restoring(p, base)
    BY <1>2, <1>12, <2>1 DEF ProcInv, AgentRestores, Base, base
  <2>3. PICK k \in Preferences : c = Upsert(Preference(user[p], k), TRUE)
    BY <1>4, <2>2
  <2>4. c.call = "upsert" /\ c.record = Preference(user[p], k)
    BY <2>3 DEF Upsert
  <2>5. c.record \in Records(table')
    BY <1>0, <2>4
  <2>6. ASSUME NEW l \in Preferences
        PROVE  \/ \E r \in Records(table') : r.id = Preference(user[p], l).id /\ IsActive(r)
               \/ Upsert(Preference(user[p], l), TRUE) \in Records(Tail(todo[p]))
    <3>1. CASE Upsert(Preference(user[p], l), TRUE) \in Records(todo[p])
      <4>1. Upsert(Preference(user[p], l), TRUE) = c
            => c.record = Preference(user[p], l)
        BY DEF Upsert
      <4>2. IsActive(Preference(user[p], l))
        BY <2>2, SeededRecords
      <4> QED BY <1>4, <2>5, <3>1, <4>1, <4>2
    <3>2. CASE \E r \in Records(base) : r.id = Preference(user[p], l).id /\ IsActive(r)
      <4>1. PICK r \in Records(base) : r.id = Preference(user[p], l).id /\ IsActive(r)
        BY <3>2
      <4>2. IsActive(c.record)
        BY <2>2, <2>4, SeededRecords
      <4>3. CASE r.id = c.record.id
        BY <2>5, <4>1, <4>2, <4>3
      <4>4. CASE r.id # c.record.id
        <5>1. r.id \notin S
          <6> SUFFICES ASSUME r.id \in SupersededIn(base, c.record) PROVE FALSE
            BY <1>5
          <6>1. PICK o \in Records(base) : o.id = r.id /\ Supersedes(c.record, o)
            BY DEF SupersededIn
          <6>2. o.id # None
            BY <2>2, <4>1, <6>1, PreferencesAssumption
          <6>3. o.key = c.record.key
            BY <2>2, <2>4, <6>1, <6>2, SeededRecords DEF Supersedes
          <6>4. o.key = Preference(user[p], l).key
            BY <1>1, <2>2, <4>1, <6>1 DEF IsTable, WellFormed
          <6>5. <<"preference", k>> = <<"preference", l>>
            <7>1. /\ Preference(user[p], k).key = <<"preference", k>>
                  /\ Preference(user[p], l).key = <<"preference", l>>
              BY <2>2, SeededRecords
            <7> QED BY <2>4, <6>3, <6>4, <7>1
          <6>6. k = l
            BY <6>5
          <6> QED BY <2>4, <4>1, <4>4, <6>6
        <5> QED BY <1>1, <2>1, <2>4, <4>1, <4>4, <5>1
      <4> QED BY <4>3, <4>4
    <3> QED BY <2>2, <3>1, <3>2 DEF Restoring
  <2>7. Restoring(p, table)'
    BY <1>3, <2>6 DEF Restoring
  <2> QED BY <1>4, <2>2, <2>7
<1>13. ProcInv(p)'
  BY <1>9, <1>10, <1>11, <1>12 DEF ProcInv
<1> QED BY <1>7, <1>8, <1>13 DEF StoreInv

---------------------------------------------------------------------------
(* The other steps.                                                        *)

\* A step that only reads leaves the shared part of the invariant alone.
LEMMA SharedKeep ==
    ASSUME Shared, table' \in {table, Pruned(table)}, UNCHANGED <<backend, lost>>,
           at' \in [Procs -> {"idle", "seeding", "writing", "cleaned",
                             "maintaining", "compacting"}],
           at'[Job] \notin {"seeding", "writing"},
           DOMAIN todo' = Procs, DOMAIN view' = Procs, DOMAIN disturbed' = Procs,
           DOMAIN user' = Agents
    PROVE  Shared'
<1>1. IsTable(table') /\ (Replaced(table) => Replaced(table'))
  BY ReadTable DEF Shared
<1>2. Replaced(table)' = Replaced(table')
  BY DEF Replaced
<1> QED BY <1>1, <1>2 DEF Shared

\* Who is free has no call left.
LEMMA FreeIsQuiet ==
    ASSUME StoreInv, NEW p \in Procs, Free(p)
    PROVE  Quiet(p)
BY DEF StoreInv, ProcInv, HasCalls, Free, Done

\* Listing either leaves the table or cleans it.
LEMMA AfterListingReads ==
    ASSUME AfterListing
    PROVE  table' = Listed /\ table' \in {table, Pruned(table)}
BY DEF AfterListing, Listed

\* What an open call has read is the table that step leaves.
LEMMA BeginStep ==
    ASSUME StoreInv, NEW p \in Procs, Begin(p)
    PROVE  StoreInv'
<1> DEFINE c == Head(todo[p])
           found == IF c.call = "mark" THEN {} ELSE SupersededIn(table, c.record)
<1>1. /\ Shared /\ ProcInv(p) /\ HasCalls(p)
      /\ table' = Listed /\ table' \in {table, Pruned(table)}
  BY AfterListingReads DEF StoreInv, ProcInv, Begin
<1>2. /\ at' = at /\ todo' = todo /\ user' = user /\ disturbed' = disturbed
      /\ backend' = backend /\ lost' = lost /\ overlooked' = overlooked /\ todo[p] # <<>>
      /\ view' = [view EXCEPT ![p] = IF backend = "jsonl" THEN <<Pruned(table)>> ELSE <<found>>]
  BY DEF Begin, control, histories
<1>3. /\ backend = "jsonl" => view'[p][1] = Pruned(table) /\ table' = Pruned(table)
      /\ backend = "postgres" => view'[p][1] = found /\ table' = table
  BY <1>1, <1>2 DEF Shared, Listed
<1>4. /\ IsTable(table') /\ IsTable(Pruned(table)) /\ Records(table') \subseteq Records(table)
      /\ \A r \in Records(table) : r.id \notin LessonIds => r \in Records(table')
      /\ \A x \in Ids(table) \ LessonIds : x \in Ids(table')
  BY <1>1, ReadTable, PrunedTable DEF Shared
<1> HIDE DEF c, found
<1>5. Shared'
  BY <1>1, <1>2, SharedKeep DEF Shared
<1>6. ASSUME NEW q \in Procs, q # p PROVE ProcInv(q)'
  BY <1>1, <1>2, <1>6, OthersKeep DEF Shared
<1>7. HasCalls(p)'
  BY <1>1, <1>2, <1>3, <1>4 DEF HasCalls, Quiet
<1>8. ~lost' => Supported(todo'[p], Ids(table'))
  BY <1>1, <1>2, <1>4, SupportedByMore DEF ProcInv, HasCalls
<1>9. ASSUME p = Job PROVE JobSettles'
  <2> SUFFICES ASSUME at[Job] \in {"maintaining", "compacting"}, "call" \notin disturbed[Job]
               PROVE  /\ Settling(table)'
                      /\ backend = "jsonl" => Settling(view[Job][1])'
                      /\ backend = "postgres" /\ Head(todo[Job]).call = "upsert" =>
                            SupersededIn(table', Head(todo[Job]).record) \subseteq view'[Job][1]
    <3>1. \A r : SupersededIn(table, r)' = SupersededIn(table', r)
      BY DEF SupersededIn, Supersedes
    <3> QED BY <1>2, <3>1 DEF JobSettles
  <2>1. Settling(table)
    BY <1>1, <1>9 DEF ProcInv, JobSettles
  <2>2. Settling(table')
    BY <1>4, <2>1, SettlingOfFewer
  <2>3. Settling(table)' /\ (view'[Job][1] = table' => Settling(view[Job][1])')
    BY <1>2, <2>2 DEF Settling
  <2>4. backend = "postgres" /\ c.call = "upsert" =>
            SupersededIn(table', c.record) \subseteq view'[Job][1]
    BY <1>3, <1>9 DEF found
  <2> QED BY <1>3, <1>9, <2>3, <2>4 DEF c
<1>10. ASSUME p \in Agents PROVE AgentRestores(p)'
  <2> SUFFICES ASSUME at[p] = "seeding", disturbed[p] = {}
               PROVE  /\ user[p] \in Users
                      /\ \A d \in Records(todo[p]) :
                            \E k \in Preferences : d = Upsert(Preference(user[p], k), TRUE)
                      /\ Restoring(p, table)'
                      /\ backend = "jsonl" => Restoring(p, view[p][1])'
    BY <1>2 DEF AgentRestores
  <2>1. /\ user[p] \in Users
        /\ \A d \in Records(todo[p]) :
            \E k \in Preferences : d = Upsert(Preference(user[p], k), TRUE)
        /\ Restoring(p, table)
    BY <1>1, <1>10 DEF ProcInv, AgentRestores
  <2>2. Restoring(p, table')
    BY <1>4, <1>10, <2>1, RestoringOfFewer
  <2>3. Restoring(p, table)' /\ (view'[p][1] = table' => Restoring(p, view[p][1])')
    BY <1>2, <2>2 DEF Restoring
  <2> QED BY <1>3, <2>1, <2>3
<1>11. ProcInv(p)'
  BY <1>7, <1>8, <1>9, <1>10 DEF ProcInv
<1> QED BY <1>5, <1>6, <1>11 DEF StoreInv

\* What the retriever finds is stored and active.
LEMMA RetrievedRecords ==
    ASSUME NEW t, IsTable(t), NEW r \in Retrievable(t)
    PROVE  r \in Records(t) /\ IsActive(r)
<1> DEFINE I == {i \in DOMAIN t : IsActive(t[i]) /\ ~Deletable(t[i])}
           usable == Kept(t, I)
<1>1. I \in SUBSET DOMAIN t
  OBVIOUS
<1>2. IsTable(usable) /\ Records(usable) = {t[i] : i \in I}
  <2> HIDE DEF I
  <2> QED BY <1>1, KeptTable
<1>3. r \in Records(usable)
  BY DEF Retrievable, Records
<1> HIDE DEF usable
<1> QED BY <1>2, <1>3 DEF Records

\* The retriever plans to store exactly the preferences it did not find.
LEMMA SeedStep ==
    ASSUME StoreInv, NEW a \in Agents, SeedPreferences(a)
    PROVE  StoreInv'
<1>1. /\ Shared /\ a \in Procs /\ Job \in Procs /\ a # Job
      /\ table' = Listed /\ table' \in {table, Pruned(table)}
  BY AfterListingReads, PreferencesAssumption DEF StoreInv, SeedPreferences, Procs
<1>2. Quiet(a)
  BY <1>1, FreeIsQuiet DEF SeedPreferences
<1>3. PICK u \in Users, list \in Lists(Listed, MaxRecords) :
        LET present == {x.id : x \in Retrievable(list)}
            s == SetToSeq({r \in {Preference(u, k) : k \in Preferences} : r.id \notin present})
        IN  /\ user' = [user EXCEPT ![a] = u]
            /\ Starts(a, "seeding", [i \in DOMAIN s |-> Upsert(s[i], TRUE)])
  BY DEF SeedPreferences
<1> DEFINE missing == {r \in {Preference(u, k) : k \in Preferences} :
                          r.id \notin {x.id : x \in Retrievable(list)}}
           s == SetToSeq(missing)
           q == [i \in DOMAIN s |-> Upsert(s[i], TRUE)]
<1>4. /\ at' = [at EXCEPT ![a] = "seeding"] /\ at'[a] = "seeding" /\ user'[a] = u
      /\ todo' = [todo EXCEPT ![a] = q] /\ todo'[a] = q
      /\ disturbed' = [disturbed EXCEPT ![a] = {}]
      /\ view' = view /\ view'[a] = None /\ backend' = backend /\ lost' = lost
      /\ overlooked' = overlooked
  BY <1>1, <1>2, <1>3 DEF SeedPreferences, Starts, Shared, Quiet
<1>5. /\ IsFiniteSet(missing)
      /\ \A r \in missing : \E k \in Preferences : r = Preference(u, k)
  <2> DEFINE P == {Preference(u, k) : k \in Preferences}
             f == [k \in Preferences |-> Preference(u, k)]
  <2>1. f \in Surjection(Preferences, P)
    BY DEF Surjection
  <2>2. missing \in SUBSET P
    OBVIOUS
  <2> HIDE DEF P, f, missing
  <2>3. IsFiniteSet(missing)
    BY <2>1, <2>2, PreferencesAssumption, FS_Surjection, FS_Subset
  <2> QED BY <2>2, <2>3 DEF P
<1>6. s \in Seq(missing) /\ \A r \in missing : \E i \in DOMAIN s : s[i] = r
  <2> HIDE DEF missing
  <2> QED BY <1>5, Enumerated
<1>7. DOMAIN q = DOMAIN s /\ \A i \in DOMAIN s : q[i] = Upsert(s[i], TRUE)
  OBVIOUS
<1>8. q = [i \in DOMAIN q |-> q[i]]
  OBVIOUS
<1> HIDE DEF s
<1>9. Len(s) \in Nat /\ DOMAIN s = 1..Len(s) /\ \A i \in DOMAIN s : s[i] \in missing
  BY <1>6
<1> HIDE DEF q
<1>10. q \in Seq(Records(q))
  BY <1>7, <1>8, <1>9, OwnList
<1>11. ASSUME NEW c \in Records(q)
       PROVE  /\ IsCall(c) /\ c.call = "upsert"
              /\ \E k \in Preferences : c = Upsert(Preference(u, k), TRUE)
  <2>1. PICK k \in Preferences : c = Upsert(Preference(u, k), TRUE)
    <3>1. PICK i \in DOMAIN s : c = Upsert(s[i], TRUE)
      BY <1>7 DEF Records
    <3> HIDE DEF missing
    <3> QED BY <1>5, <1>9, <3>1
  <2>2. c.call = "upsert" /\ c.record = Preference(u, k)
    BY <2>1 DEF Upsert
  <2> QED BY <2>1, <2>2, SeededRecords DEF IsCall
<1>12. IsPlan(q) /\ \A ids : Supported(q, ids)
  BY <1>10, <1>11 DEF IsPlan, Supported, Records
<1>13. ASSUME NEW k \in Preferences
       PROVE  \/ \E r \in Records(table') : r.id = Preference(u, k).id /\ IsActive(r)
              \/ Upsert(Preference(u, k), TRUE) \in Records(q)
  <2>1. CASE Preference(u, k) \in missing
    <3>1. PICK i \in DOMAIN s : s[i] = Preference(u, k)
      BY <1>6, <2>1
    <3> QED BY <1>7, <3>1 DEF Records
  <2>2. CASE Preference(u, k) \notin missing
    <3>1. PICK r \in Retrievable(list) : r.id = Preference(u, k).id
      BY <2>2
    <3>2. IsTable(list) /\ Records(list) \subseteq Records(Listed)
      BY <1>1, ListedTable, LastRecords, LimitsAssumption DEF Shared
    <3> QED BY <1>1, <3>1, <3>2, RetrievedRecords
  <2> QED BY <2>1, <2>2
<1> HIDE DEF missing
<1>14. Shared'
  <2>1. at' \in [Procs -> {"idle", "seeding", "writing", "cleaned", "maintaining", "compacting"}]
    BY <1>1, <1>4 DEF Shared
  <2>2. at'[Job] \notin {"seeding", "writing"}
    BY <1>1, <1>4 DEF Shared
  <2>3. /\ DOMAIN todo' = Procs /\ DOMAIN view' = Procs /\ DOMAIN disturbed' = Procs
        /\ DOMAIN user' = Agents
    BY <1>1, <1>3, <1>4 DEF Shared
  <2> QED BY <1>1, <1>4, <2>1, <2>2, <2>3, SharedKeep
<1>15. ASSUME NEW p \in Procs, p # a PROVE ProcInv(p)'
  <2>1. /\ at'[p] = at[p] /\ todo'[p] = todo[p] /\ view'[p] = view[p]
        /\ disturbed'[p] = disturbed[p] /\ (p \in Agents => user'[p] = user[p])
    BY <1>1, <1>3, <1>4, <1>15 DEF Shared
  <2> QED BY <1>1, <1>4, <2>1, OthersKeep
<1>16. HasCalls(a)'
  BY <1>4, <1>12 DEF HasCalls, q
<1>17. AgentRestores(a)'
  <2>1. Restoring(a, table)'
    BY <1>4, <1>13 DEF Restoring, q
  <2> QED BY <1>4, <1>11, <2>1 DEF AgentRestores, q
<1>18. ProcInv(a)'
  BY <1>1, <1>4, <1>12, <1>16, <1>17 DEF ProcInv, q
<1> QED BY <1>14, <1>15, <1>18 DEF StoreInv

\* The memory writer has at most one call to make.
LEMMA WriterStep ==
    ASSUME StoreInv, NEW a \in Agents, MemoryWriter(a)
    PROVE  StoreInv'
<1>1. /\ Shared /\ a \in Procs /\ Job \in Procs /\ a # Job
      /\ table' \in {table, Pruned(table)}
  BY AfterListingReads, PreferencesAssumption DEF StoreInv, MemoryWriter, Procs
<1>2. Quiet(a)
  BY DEF MemoryWriter
<1>3. PICK q : IsPlan(q) /\ (\A ids : Supported(q, ids)) /\ Starts(a, "writing", q)
  <2>1. CASE Starts(a, "writing", <<>>)
    BY <2>1, EmptyPlan
  <2>2. ASSUME NEW l \in Lessons, NEW r \in StoredLessons(l),
               Starts(a, "writing", <<Upsert(r, TRUE)>>)
        PROVE  \E q : IsPlan(q) /\ (\A ids : Supported(q, ids)) /\ Starts(a, "writing", q)
    <3> DEFINE c == Upsert(r, TRUE)
               q == <<c>>
    <3>1. IsCall(c) /\ c.call = "upsert"
      BY LearnedRecords DEF IsCall, Upsert
    <3> HIDE DEF c
    <3>2. DOMAIN q = 1..1 /\ q[1] = c /\ q \in Seq({c})
      OBVIOUS
    <3> HIDE DEF q
    <3>3. Records(q) = {c}
      BY <3>2 DEF Records
    <3>4. IsPlan(q)
      BY <3>1, <3>2, <3>3 DEF IsPlan
    <3>5. \A ids : Supported(q, ids)
      BY <3>1, <3>2 DEF Supported
    <3> QED BY <2>2, <3>4, <3>5 DEF q, c
  <2> QED BY <2>1, <2>2 DEF MemoryWriter
<1>4. /\ at' = [at EXCEPT ![a] = "writing"] /\ at'[a] = "writing" /\ user' = user
      /\ todo' = [todo EXCEPT ![a] = q] /\ todo'[a] = q
      /\ disturbed' = [disturbed EXCEPT ![a] = {}]
      /\ view' = view /\ view'[a] = None /\ backend' = backend /\ lost' = lost
      /\ overlooked' = overlooked
  BY <1>1, <1>2, <1>3 DEF MemoryWriter, Starts, Shared, Quiet
<1>5. Shared'
  <2>1. at' \in [Procs -> {"idle", "seeding", "writing", "cleaned", "maintaining", "compacting"}]
    BY <1>1, <1>4 DEF Shared
  <2>2. at'[Job] \notin {"seeding", "writing"}
    BY <1>1, <1>4 DEF Shared
  <2>3. /\ DOMAIN todo' = Procs /\ DOMAIN view' = Procs /\ DOMAIN disturbed' = Procs
        /\ DOMAIN user' = Agents
    BY <1>1, <1>4 DEF Shared
  <2> QED BY <1>1, <1>4, <2>1, <2>2, <2>3, SharedKeep
<1>6. ASSUME NEW p \in Procs, p # a PROVE ProcInv(p)'
  <2>1. /\ at'[p] = at[p] /\ todo'[p] = todo[p] /\ view'[p] = view[p]
        /\ disturbed'[p] = disturbed[p] /\ (p \in Agents => user'[p] = user[p])
    BY <1>1, <1>4, <1>6 DEF Shared
  <2> QED BY <1>1, <1>4, <2>1, OthersKeep
<1>7. HasCalls(a)'
  BY <1>3, <1>4 DEF HasCalls
<1>8. AgentRestores(a)'
  BY <1>4 DEF AgentRestores
<1>9. ProcInv(a)'
  BY <1>1, <1>3, <1>4, <1>7, <1>8 DEF ProcInv
<1> QED BY <1>5, <1>6, <1>9 DEF StoreInv

\* The job comes to compaction with its contradictions settled.
LEMMA CompactStep ==
    ASSUME StoreInv, NEW p \in Procs, CompactMemories(p)
    PROVE  StoreInv'
<1>1. /\ Shared /\ ProcInv(p) /\ Quiet(p)
      /\ table' = Listed /\ table' \in {table, Pruned(table)}
  BY AfterListingReads DEF StoreInv, CompactMemories
<1>0. PICK list \in Lists(Listed, CompactionSourceLimit) : \E q \in CompactionPlans(list) :
          at' = [at EXCEPT ![p] = "compacting"] /\ todo' = [todo EXCEPT ![p] = q]
  BY DEF CompactMemories
<1>2. PICK q \in CompactionPlans(list) :
          at' = [at EXCEPT ![p] = "compacting"] /\ todo' = [todo EXCEPT ![p] = q]
  BY <1>0
<1>3. IsPlan(q) /\ \A ids : Supported(q, ids)
  <2>1. IsTable(Listed) /\ CompactionSourceLimit \in Nat
    BY <1>1, ListedTable, LimitsAssumption DEF Shared
  <2>2. IsTable(list)
    BY <2>1, LastRecords
  <2> QED BY <2>2, CompactingPlan
<1>4. /\ at'[p] = "compacting" /\ user' = user /\ todo'[p] = q /\ disturbed' = disturbed
      /\ view' = view /\ view'[p] = None /\ backend' = backend /\ lost' = lost
      /\ overlooked' = overlooked
  BY <1>1, <1>2 DEF CompactMemories, Shared, Quiet, histories
<1>5. Shared'
  <2>1. at' \in [Procs -> {"idle", "seeding", "writing", "cleaned", "maintaining", "compacting"}]
    BY <1>1, <1>2 DEF Shared
  <2>2. at'[Job] \notin {"seeding", "writing"}
    BY <1>1, <1>2 DEF Shared, Procs
  <2>3. /\ DOMAIN todo' = Procs /\ DOMAIN view' = Procs /\ DOMAIN disturbed' = Procs
        /\ DOMAIN user' = Agents
    BY <1>1, <1>2, <1>4 DEF Shared
  <2> QED BY <1>1, <1>4, <2>1, <2>2, <2>3, SharedKeep
<1>6. ASSUME NEW o \in Procs, o # p PROVE ProcInv(o)'
  <2>1. /\ at'[o] = at[o] /\ todo'[o] = todo[o] /\ view'[o] = view[o]
        /\ disturbed'[o] = disturbed[o] /\ (o \in Agents => user'[o] = user[o])
    BY <1>1, <1>2, <1>4, <1>6 DEF Shared
  <2> QED BY <1>1, <1>4, <2>1, OthersKeep
<1>7. HasCalls(p)'
  BY <1>3, <1>4 DEF HasCalls
<1>8. ASSUME p = Job PROVE JobSettles'
  <2> SUFFICES ASSUME "call" \notin disturbed[Job],
                      NEW r \in Records(table'), NEW s \in Records(table'), Conflict(r, s),
                      r.id \notin overlooked, s.id \notin overlooked
               PROVE  FALSE
    BY <1>4, <1>8 DEF JobSettles, Settling
  <2>1. at[Job] = "maintaining" /\ todo[Job] = <<>>
    BY <1>1, <1>8 DEF Shared, CompactMemories, Quiet
  <2>2. Settling(table)
    BY <1>1, <1>8, <2>1 DEF ProcInv, JobSettles
  <2>3. Settling(table')
    BY <1>1, <2>2, ReadTable, SettlingOfFewer DEF Shared
  <2> QED BY <2>1, <2>3, EmptyPlan DEF Settling
<1>9. AgentRestores(p)'
  BY <1>4 DEF AgentRestores
<1>10. ProcInv(p)'
  BY <1>3, <1>4, <1>7, <1>8, <1>9 DEF ProcInv
<1> QED BY <1>5, <1>6, <1>10 DEF StoreInv

\* The cleaning at the start of the job takes no replacement away.
LEMMA JobStartsStep ==
    ASSUME StoreInv, JobStarts
    PROVE  StoreInv'
<1>1. Shared /\ Job \in Procs /\ Job \notin Agents /\ table' \in {table, Pruned(table)}
  BY PreferencesAssumption DEF StoreInv, JobStarts, Procs
<1>2. Quiet(Job) /\ ProcInv(Job) /\ HasCalls(Job)
  BY <1>1, FreeIsQuiet DEF JobStarts, StoreInv, ProcInv
<1>3. /\ at' = [at EXCEPT ![Job] = "cleaned"] /\ at'[Job] = "cleaned" /\ user' = user
      /\ todo' = todo /\ disturbed' = disturbed /\ view' = view
      /\ backend' = backend /\ lost' = lost /\ overlooked' = overlooked
      /\ todo[Job] = <<>> /\ view[Job] = None
  BY <1>1, <1>2 DEF JobStarts, Shared, Quiet, histories
<1>4. Shared'
  <2>1. at' \in [Procs -> {"idle", "seeding", "writing", "cleaned", "maintaining", "compacting"}]
    BY <1>1, <1>3 DEF Shared
  <2> QED BY <1>1, <1>3, <2>1, SharedKeep DEF Shared
<1>5. ASSUME NEW p \in Procs, p # Job PROVE ProcInv(p)'
  <2>1. at'[p] = at[p]
    BY <1>1, <1>3, <1>5 DEF Shared
  <2> QED BY <1>1, <1>3, <2>1, OthersKeep
<1>6. HasCalls(Job)'
  BY <1>2, <1>3 DEF HasCalls, Quiet
<1>7. JobSettles' /\ Supported(todo'[Job], Ids(table'))
  BY <1>3, EmptyPlan DEF JobSettles
<1>8. ProcInv(Job)'
  BY <1>1, <1>6, <1>7 DEF ProcInv
<1> QED BY <1>4, <1>5, <1>8 DEF StoreInv

\* What the list of the job does not hold of the contradictions in the table is
\* overlooked.
LEMMA JobListsStep ==
    ASSUME StoreInv, JobLists
    PROVE  StoreInv'
<1>1. /\ Shared /\ Job \in Procs /\ Job \notin Agents
      /\ table' = Listed /\ table' \in {table, Pruned(table)}
  BY AfterListingReads, PreferencesAssumption DEF StoreInv, JobLists, Procs
<1>2. Quiet(Job)
  BY <1>1 DEF JobLists, StoreInv, ProcInv, HasCalls
<1>0. PICK list \in Lists(Listed, LifecycleSourceLimit) :
        /\ Starts(Job, "maintaining", LifecyclePlan(ActiveRecords(list)))
        /\ overlooked' = Ids(Listed) \ Ids(list)
  BY DEF JobLists
<1> DEFINE t == ActiveRecords(list)
           q == LifecyclePlan(t)
<1>3. IsTable(list) /\ Records(list) \subseteq Records(Listed) /\ IsTable(Listed)
  <2>1. IsTable(Listed) /\ LifecycleSourceLimit \in Nat
    BY <1>1, ListedTable, LimitsAssumption DEF Shared
  <2> QED BY <2>1, LastRecords
<1>4. IsTable(t) /\ Records(t) = {r \in Records(list) : IsActive(r)}
  <2> DEFINE I == {i \in DOMAIN list : IsActive(list[i])}
  <2>1. I \in SUBSET DOMAIN list /\ t = Kept(list, I)
    BY DEF ActiveRecords
  <2>2. IsTable(t) /\ Records(t) = {list[i] : i \in I}
    <3> HIDE DEF I, t
    <3> QED BY <1>3, <2>1, KeptTable
  <2> QED BY <2>2 DEF Records
<1>5. Ids(t) \subseteq Ids(Listed)
  <2>1. \A s : Ids(s) = {x.id : x \in Records(s)}
    BY DEF Ids, Records
  <2> HIDE DEF t
  <2> QED BY <1>3, <1>4, <2>1
<1> HIDE DEF t
<1>6. /\ IsPlan(q) /\ \A c \in Records(q) : c.call = "mark" => c.by \in Ids(t)
      /\ \A r, s \in Records(t) : Conflict(r, s) => \E c \in Records(q) : Settles(c, r, s)
  BY <1>4, JobPlan
<1>7. Starts(Job, "maintaining", q)
  BY <1>0 DEF t
<1> HIDE DEF q
<1>8. /\ at' = [at EXCEPT ![Job] = "maintaining"] /\ at'[Job] = "maintaining" /\ user' = user
      /\ todo' = [todo EXCEPT ![Job] = q] /\ todo'[Job] = q
      /\ disturbed' = [disturbed EXCEPT ![Job] = {}]
      /\ view' = view /\ view'[Job] = None /\ backend' = backend /\ lost' = lost
  BY <1>1, <1>2, <1>7 DEF JobLists, Starts, Shared, Quiet
<1>9. Shared'
  <2>1. at' \in [Procs -> {"idle", "seeding", "writing", "cleaned", "maintaining", "compacting"}]
    BY <1>1, <1>8 DEF Shared
  <2>2. /\ DOMAIN todo' = Procs /\ DOMAIN view' = Procs /\ DOMAIN disturbed' = Procs
        /\ DOMAIN user' = Agents
    BY <1>1, <1>8 DEF Shared
  <2> QED BY <1>1, <1>8, <2>1, <2>2, SharedKeep
<1>10. ASSUME NEW p \in Procs, p # Job PROVE ProcInv(p)'
  <2>1. /\ at'[p] = at[p] /\ todo'[p] = todo[p] /\ view'[p] = view[p]
        /\ disturbed'[p] = disturbed[p] /\ (p \in Agents => user'[p] = user[p])
    BY <1>1, <1>8, <1>10 DEF Shared
  <2> QED BY <1>1, <1>8, <1>10, <2>1, OthersKeep
<1>11. HasCalls(Job)'
  BY <1>6, <1>8 DEF HasCalls
<1>12. Supported(q, Ids(table'))
  BY <1>1, <1>5, <1>6 DEF Supported, Records
<1>13. JobSettles'
  <2> SUFFICES ASSUME NEW r \in Records(table'), NEW s \in Records(table'), Conflict(r, s),
                      r.id \notin overlooked', s.id \notin overlooked'
               PROVE  \E c \in Records(q) : Settles(c, r, s)
    BY <1>8 DEF JobSettles, Settling
  <2>1. ASSUME NEW x \in Records(Listed), x.id \in Ids(list) PROVE x \in Records(list)
    <3>1. PICK y \in Records(list) : y.id = x.id
      BY <2>1 DEF Ids, Records
    <3>2. PICK i \in DOMAIN Listed, j \in DOMAIN Listed : x = Listed[i] /\ y = Listed[j]
      BY <1>3, <3>1 DEF Records
    <3>3. i = j
      BY <1>3, <3>1, <3>2 DEF IsTable
    <3> QED BY <3>1, <3>2, <3>3
  <2>2. \A x \in Records(Listed) : x.id \in Ids(Listed)
    BY DEF Ids, Records
  <2>3. r \in Records(t) /\ s \in Records(t)
    BY <1>0, <1>1, <1>4, <2>1, <2>2 DEF Conflict
  <2> QED BY <1>6, <2>3
<1>14. ProcInv(Job)'
  BY <1>1, <1>8, <1>11, <1>12, <1>13 DEF ProcInv
<1> QED BY <1>9, <1>10, <1>14 DEF StoreInv

\* A process that dies leaves nothing to do behind.
LEMMA CrashStep ==
    ASSUME StoreInv, NEW p \in Procs, Crash(p)
    PROVE  StoreInv'
<1>1. Shared /\ Job \in Procs
  BY DEF StoreInv, Procs
<1>2. /\ at' = [at EXCEPT ![p] = "idle"] /\ at'[p] = "idle" /\ user' = user
      /\ todo' = [todo EXCEPT ![p] = <<>>] /\ todo'[p] = <<>>
      /\ view' = [view EXCEPT ![p] = None] /\ view'[p] = None
      /\ disturbed' = disturbed /\ backend' = backend /\ lost' = lost /\ table' = table
      /\ overlooked' = overlooked
  BY <1>1 DEF Crash, Dies, Shared
<1>3. Shared'
  <2>1. at' \in [Procs -> {"idle", "seeding", "writing", "cleaned", "maintaining", "compacting"}]
    BY <1>1, <1>2 DEF Shared
  <2>2. at'[Job] \notin {"seeding", "writing"}
    BY <1>1, <1>2 DEF Shared
  <2>3. /\ DOMAIN todo' = Procs /\ DOMAIN view' = Procs /\ DOMAIN disturbed' = Procs
        /\ DOMAIN user' = Agents
    BY <1>1, <1>2 DEF Shared
  <2> QED BY <1>1, <1>2, <2>1, <2>2, <2>3, SharedKeep
<1>4. ASSUME NEW o \in Procs, o # p PROVE ProcInv(o)'
  <2>1. at'[o] = at[o] /\ todo'[o] = todo[o] /\ view'[o] = view[o] /\ disturbed'[o] = disturbed[o]
    BY <1>1, <1>2, <1>4 DEF Shared
  <2> QED BY <1>2, <2>1, OthersKeep
<1>5. HasCalls(p)' /\ Supported(todo'[p], Ids(table'))
  BY <1>2, EmptyPlan DEF HasCalls, Quiet
<1>6. (p = Job => JobSettles') /\ AgentRestores(p)'
  BY <1>2 DEF JobSettles, AgentRestores
<1>7. ProcInv(p)'
  BY <1>5, <1>6 DEF ProcInv
<1> QED BY <1>3, <1>4, <1>7 DEF StoreInv

\* One that dies writing leaves a part of a table, and disturbs all others.
LEMMA CrashInWriteStep ==
    ASSUME StoreInv, NEW p \in Procs, CrashInWrite(p)
    PROVE  StoreInv'
<1>1. Shared
  BY DEF StoreInv
<1>2. /\ at' = [at EXCEPT ![p] = "idle"] /\ at'[p] = "idle" /\ user' = user
      /\ todo' = [todo EXCEPT ![p] = <<>>] /\ todo'[p] = <<>>
      /\ view' = [view EXCEPT ![p] = None] /\ view'[p] = None
      /\ backend' = backend /\ lost' = TRUE /\ Disturb(p, TRUE)
  BY <1>1 DEF CrashInWrite, Dies, Shared
<1>3. IsTable(table')
  <2>1. CASE /\ view[p] # None
             /\ \E whole \in Written(FileAfter(view[p][1], Head(todo[p])), Head(todo[p])) :
                  \E places \in SUBSET DOMAIN whole : table' = Kept(whole, places)
    <3>0. PICK whole \in Lists(Whole(p), MaxRecords) :
              \E places \in SUBSET DOMAIN whole : table' = Kept(whole, places)
      BY <2>1 DEF CrashInWrite, Written, Whole
    <3>1. PICK places \in SUBSET DOMAIN whole : table' = Kept(whole, places)
      BY <3>0
    <3>2. IsTable(Whole(p))
      BY <2>1, WholeTable
    <3>3. IsTable(whole)
      BY <3>2, LastRecords, LimitsAssumption
    <3> QED BY <3>1, <3>3, KeptTable
  <2>2. CASE \E places \in SUBSET DOMAIN Pruned(table) : table' = Kept(Pruned(table), places)
    BY <1>1, <2>2, PrunedTable, KeptTable DEF Shared
  <2> QED BY <2>1, <2>2 DEF CrashInWrite
<1>4. Shared'
  <2>1. at' \in [Procs -> {"idle", "seeding", "writing", "cleaned", "maintaining", "compacting"}]
    BY <1>1, <1>2 DEF Shared
  <2>2. at'[Job] \notin {"seeding", "writing"}
    BY <1>1, <1>2 DEF Shared, Procs
  <2>3. /\ DOMAIN todo' = Procs /\ DOMAIN view' = Procs /\ DOMAIN disturbed' = Procs
        /\ DOMAIN user' = Agents
    BY <1>1, <1>2 DEF Shared, Disturb
  <2> QED BY <1>1, <1>2, <1>3, <2>1, <2>2, <2>3 DEF Shared
<1>5. ASSUME NEW q \in Procs, q # p PROVE ProcInv(q)'
  <2>1. /\ todo'[q] = todo[q] /\ view'[q] = view[q] /\ at'[q] = at[q]
        /\ "call" \in disturbed'[q] \/ at'[q] = "idle"
    BY <1>1, <1>2, <1>5 DEF Shared, Disturb
  <2>2. ProcInv(q)
    BY DEF StoreInv
  <2>3. HasCalls(q)'
    BY <1>2, <2>1, <2>2 DEF ProcInv, HasCalls, Quiet
  <2>4. (q = Job => JobSettles') /\ (q \in Agents => AgentRestores(q)')
    BY <2>1 DEF JobSettles, AgentRestores
  <2> QED BY <1>2, <2>3, <2>4 DEF ProcInv
<1>6. HasCalls(p)'
  BY <1>2, EmptyPlan DEF HasCalls, Quiet
<1>7. (p = Job => JobSettles') /\ AgentRestores(p)'
  BY <1>2 DEF JobSettles, AgentRestores
<1>8. ProcInv(p)'
  BY <1>2, <1>6, <1>7 DEF ProcInv
<1> QED BY <1>4, <1>5, <1>8 DEF StoreInv

\* A record that grows old changes no part of the invariant.
LEMMA IdleStep ==
    ASSUME StoreInv,
           UNCHANGED <<backend, table, at, user, todo, view, histories>>
    PROVE  StoreInv'
<1>0. UNCHANGED <<disturbed, overlooked, lost>>
  BY DEF histories
<1>1. Shared'
  BY <1>0 DEF StoreInv, Shared, Replaced
<1>2. \A p \in Procs : ProcInv(p)'
  BY <1>0, OthersKeep
<1> QED BY <1>1, <1>2 DEF StoreInv

\* Every step of every process keeps the invariant.
LEMMA StoreStep == StoreInv /\ [Next]_vars => StoreInv'
<1> SUFFICES ASSUME StoreInv, [Next]_vars PROVE StoreInv'
  OBVIOUS
<1>1. ASSUME NEW p \in Procs, Works(p) PROVE StoreInv'
  BY <1>1, BeginStep, FinishStep, CompactStep DEF Works
<1>2. ASSUME NEW p \in Procs, Crash(p) \/ CrashInWrite(p) PROVE StoreInv'
  BY <1>2, CrashStep, CrashInWriteStep
<1>3. ASSUME NEW a \in Agents, AgentSteps(a) PROVE StoreInv'
  BY <1>3, SeedStep, WriterStep DEF AgentSteps
<1>4. CASE JobStarts \/ JobLists
  BY <1>4, JobStartsStep, JobListsStep
<1>5. CASE Ages
  BY <1>5, IdleStep DEF Ages, control
<1>6. CASE UNCHANGED vars
  BY <1>6, IdleStep DEF vars
<1> QED BY <1>1, <1>2, <1>3, <1>4, <1>5, <1>6 DEF Next

\* Crashes are counted.
LEMMA CrashesAreCounted == Spec => [](crashes \in Nat)
<1>1. Init => crashes \in Nat
  BY DEF Init
<1>2. crashes \in Nat /\ [Next]_vars => (crashes \in Nat)'
  <2> SUFFICES ASSUME crashes \in Nat, [Next]_vars PROVE crashes' \in Nat
    OBVIOUS
  <2>1. ASSUME NEW p \in Procs, Works(p) PROVE crashes' = crashes
    BY <2>1 DEF Works, Begin, Finish, CompactMemories, control
  <2>2. ASSUME NEW p \in Procs, Crash(p) \/ CrashInWrite(p) PROVE crashes' = crashes + 1
    BY <2>2 DEF Crash, CrashInWrite, Dies
  <2>3. ASSUME NEW a \in Agents, AgentSteps(a) PROVE crashes' = crashes
    BY <2>3 DEF AgentSteps, SeedPreferences, MemoryWriter
  <2>4. CASE JobStarts \/ JobLists
    BY <2>4 DEF JobStarts, JobLists
  <2>5. CASE Ages \/ UNCHANGED vars
    BY <2>5 DEF Ages, control, vars
  <2> QED BY <2>1, <2>2, <2>3, <2>4, <2>5 DEF Next
<1> QED BY <1>1, <1>2, PTL DEF Spec

\* The invariant holds in every reachable state.
LEMMA StoreInvariant == Spec => []StoreInv
BY StoreInit, StoreStep, PTL DEF Spec

---------------------------------------------------------------------------
(* What follows from the invariant.                                        *)

\* Neither store (jsonl_store.py, postgres_store.py) ever holds two records of
\* one id, and a call is open only while it is still to be made.
THEOREM StoreIsTyped == Spec => []TypeOK
<1>1. StoreInv => TypeOK
  BY DEF StoreInv, Shared, ProcInv, HasCalls, IsTable, TypeOK
<1> QED BY <1>1, StoreInvariant, PTL

\* Unless the file lost records, to a race of two writers, to its limit or to a
\* writer that died in a write, the record that replaced another (superseded_by,
\* written by compaction.py and lifecycle.py) is in the store, whichever process
\* died between storing it and marking its sources.
THEOREM ReplacementsAreStored == Spec => []ReplacedByAStoredRecord
<1>1. StoreInv => ReplacedByAStoredRecord
  BY DEF StoreInv, Shared, Replaced, ReplacedByAStoredRecord
<1> QED BY <1>1, StoreInvariant, PTL

\* A lifecycle job that no other call interfered with leaves one active record
\* for each contradiction key among the records it listed, at most
\* LifecycleSourceLimit of them, although its passes, and the upserts among them,
\* all work on that list (lifecycle.py:401-430).
THEOREM JobsSettleKeys == Spec => []JobSettlesKeys
<1>1. StoreInv => JobSettlesKeys
  <2> SUFFICES ASSUME StoreInv, Done(Job), "call" \notin disturbed[Job],
                      NEW r \in Records(table), NEW s \in Records(table),
                      IsActive(r), IsActive(s), r.key # None, r.key = s.key, r # s,
                      r.id \notin overlooked, s.id \notin overlooked
               PROVE  FALSE
    BY DEF JobSettlesKeys
  <2>1. JobSettles
    BY DEF StoreInv, ProcInv, Procs
  <2>2. Settling(table) /\ todo[Job] = <<>>
    BY <2>1 DEF JobSettles, Done, Quiet
  <2> QED BY <2>2, EmptyPlan DEF Settling, Conflict
<1> QED BY <1>1, StoreInvariant, PTL

\* After a retrieval that no other call interfered with, and whose own calls did
\* not overflow the file, every default preference of the agent's user is active,
\* whatever other users' agents and the job did to it before (retrieval.py,
\* _supersede_conflicting_records).
THEOREM SeedingRestoresAll == Spec => []SeedingRestores
<1>1. StoreInv => SeedingRestores
  <2> SUFFICES ASSUME StoreInv, NEW a \in Agents, at[a] = "seeding", Quiet(a), disturbed[a] = {},
                      NEW k \in Preferences
               PROVE  \E r \in Records(table) :
                        r.id = Preference(user[a], k).id /\ IsActive(r)
    BY DEF SeedingRestores
  <2>1. AgentRestores(a)
    BY DEF StoreInv, ProcInv, Procs
  <2>2. Restoring(a, table) /\ todo[a] = <<>>
    BY <2>1 DEF AgentRestores, Quiet
  <2> QED BY <2>2, EmptyPlan DEF Restoring
<1> QED BY <1>1, StoreInvariant, PTL

\* In PostgreSQL no step of a listing, an upsert, a mark or a crash takes a record
\* out of the table, except an expired one that may be deleted.  The file loses
\* others only to its limit of MaxRecords (jsonl_store.py:59), to a process that
\* dies in a write, and to one written over a version its writer had not read.
THEOREM OnlyTheExpiredVanish == Spec => OnlyExpiredVanish
<1> DEFINE Spared ==
        /\ backend = "jsonl"
        /\ \/ Len(table') = MaxRecords
           \/ crashes' > crashes
           \/ \E p \in Procs : Races(p) /\ view'[p] = None
           A == \A r \in Records(table) :
                  \/ Deletable(r) \/ r.id \in Ids(table')
                  \/ /\ backend = "jsonl"
                     /\ \/ Len(table') = MaxRecords
                        \/ crashes' > crashes
                        \/ \E p \in Procs : Races(p) /\ view'[p] = None
<1>1. StoreInv /\ crashes \in Nat /\ [Next]_vars => [A]_vars
  <2> SUFFICES ASSUME StoreInv, crashes \in Nat, Next, ~Spared, NEW r \in Records(table)
               PROVE  Deletable(r) \/ r.id \in Ids(table')
    OBVIOUS
  <2>1. \A q : Ids(q) = {x.id : x \in Records(q)}
    BY DEF Ids, Records
  <2>2. CASE table' = table
    BY <2>1, <2>2
  <2>3. CASE table' = Pruned(table)
    BY <2>1, <2>3, PrunedTable DEF StoreInv, Shared
  <2>4. ASSUME NEW p \in Procs, Finish(p) PROVE r.id \in Ids(table')
    <3>1. /\ view[p] # None /\ view'[p] = None
          /\ backend = "postgres" \/ backend = "jsonl"
      BY <2>4 DEF Finish, StoreInv, Shared
    <3>2. Ids(Base(p)) \subseteq Ids(Whole(p))
      BY <3>1, WholeTable
    <3>3. /\ backend = "postgres" => Base(p) = table /\ table' = Whole(p)
          /\ \/ Base(p) = table /\ table' = Whole(p)
             \/ Races(p)
             \/ Base(p) = table /\ (Ids(table') = Ids(Whole(p)) \/ Len(table') = MaxRecords)
      <4>1. backend = "postgres" => Base(p) = table /\ table' = Whole(p)
        BY <2>4 DEF Finish, Whole, Base
      <4> QED BY <2>4, <4>1, FinishTable
    <3>4. Base(p) = table /\ Ids(table') = Ids(Whole(p))
      BY <3>1, <3>3
    <3> QED BY <2>1, <3>2, <3>4
  <2>5. ASSUME NEW p \in Procs, CrashInWrite(p) PROVE FALSE
    BY <2>5 DEF CrashInWrite, Dies
  <2>6. \/ table' = table \/ table' = Pruned(table)
        \/ \E p \in Procs : Finish(p) \/ CrashInWrite(p)
    <3>1. AfterListing => table' = table \/ table' = Pruned(table)
      BY AfterListingReads
    <3> QED BY <3>1 DEF Next, Works, AgentSteps, Begin, CompactMemories, Crash, SeedPreferences,
               MemoryWriter, JobStarts, JobLists, Ages
  <2> QED BY <2>2, <2>3, <2>4, <2>5, <2>6
<1>2. Spec => [][A]_vars
  BY <1>1, StoreInvariant, CrashesAreCounted, PTL DEF Spec
<1> QED BY <1>2 DEF OnlyExpiredVanish
============================================================================

------------------------- MODULE LifecycleScheduler -------------------------
(***************************************************************************)
(* memory/lifecycle_scheduler.py: run_memory_lifecycle_scheduled, called   *)
(* by cron and by operators, from several processes at once.  A call looks *)
(* its run_key up in the run history, takes the job lock, tries the job up *)
(* to max_attempts times, saves one run record and lets the lock go.  The  *)
(* lock and the history are files ("jsonl") or PostgreSQL ("postgres").    *)
(* What the job does to the memory is MemoryStore's; the names here leave  *)
(* room for both in one module.                                            *)
(***************************************************************************)
EXTENDS Naturals

CONSTANTS
    Calls,           \* calls of run_memory_lifecycle_scheduled, each its own run_id
    RunKey,          \* call -> run_key
    Forced,          \* calls made with force=True
    Backends,        \* what _history_backend may be configured to
    MaxAttempts

ASSUME SchedulerAssumption ==
    /\ DOMAIN RunKey = Calls
    /\ Forced \subseteq Calls
    /\ Backends \subseteq {"jsonl", "postgres"}
    /\ MaxAttempts \in Nat \ {0}
    /\ "nobody" \notin Calls

VARIABLES
    historyBackend,  \* _history_backend: where the lock and the history live
    pc,              \* call -> where it is
    attempt,         \* call -> attempts of the job so far
    lock,            \* [owner, old]: who made the lock, and is it past its TTL
    history,         \* run records: [call, key, status]
    result           \* call -> status returned, "raised" or "none" so far

schedulerVars == <<historyBackend, pc, attempt, lock, history, result>>

NoLock == [owner |-> "nobody", old |-> FALSE]
Locks == [owner : Calls \cup {"nobody"}, old : BOOLEAN]
Held == lock # NoLock
OwnLock(c) == [owner |-> c, old |-> FALSE]

SchedulerInit ==
    /\ historyBackend \in Backends
    /\ pc = [c \in Calls |-> "start"]
    /\ attempt = [c \in Calls |-> 0]
    /\ lock = NoLock
    /\ history = {}
    /\ result = [c \in Calls |-> "none"]

Moves(c, from, to) == pc[c] = from /\ pc' = [pc EXCEPT ![c] = to]
Record(c, status) == [call |-> c, key |-> RunKey[c], status |-> status]
Succeeded(key) == \E r \in history : r.key = key /\ r.status = "success"

(***************************************************************************)
(* The idempotence check comes before the lock.                            *)
(***************************************************************************)
CheckHistory(c) ==
    /\ Moves(c, "start", IF c \notin Forced /\ Succeeded(RunKey[c]) THEN "skip" ELSE "lock")
    /\ UNCHANGED <<attempt, lock, history, result>>

(***************************************************************************)
(* The lock.  PostgreSQL grants it or not in one statement; the file is    *)
(* looked at, removed when old, and created exclusively.                   *)
(***************************************************************************)
\* Mutant: the answer of pg_try_advisory_lock is not looked at.
AdvisoryLockIgnored(c) ==
    /\ historyBackend = "postgres"
    /\ Moves(c, "lock", "try")
    /\ lock' = OwnLock(c)
    /\ UNCHANGED <<attempt, history, result>>
AdvisoryLock(c) ==
    /\ historyBackend = "postgres"
    /\ Moves(c, "lock", IF Held THEN "skip" ELSE "try")
    /\ lock' = IF Held THEN lock ELSE OwnLock(c)
    /\ UNCHANGED <<attempt, history, result>>

LockFileExists(c) ==
    /\ historyBackend = "jsonl"
    /\ Moves(c, "lock", IF Held THEN "stat" ELSE "create")
    /\ UNCHANGED <<attempt, lock, history, result>>

Raises(c) == result' = [result EXCEPT ![c] = "raised"]

\* The file may be gone by now: stat raises.
StatLockFile(c) ==
    /\ Moves(c, "stat", IF ~Held THEN "end" ELSE IF lock.old THEN "unlink" ELSE "skip")
    /\ IF Held THEN UNCHANGED result ELSE Raises(c)
    /\ UNCHANGED <<attempt, lock, history>>

UnlinkOldLock(c) ==
    /\ Moves(c, "unlink", "create")
    /\ lock' = NoLock
    /\ UNCHANGED <<attempt, history, result>>

\* O_EXCL fails when the file exists; the finally clause removes it anyway.
CreateLockFile(c) ==
    /\ Moves(c, "create", IF Held THEN "release" ELSE "try")
    /\ IF Held THEN UNCHANGED lock /\ Raises(c)
               ELSE lock' = OwnLock(c) /\ UNCHANGED result
    /\ UNCHANGED <<attempt, history>>

(***************************************************************************)
(* The attempts.  Saving the success record is part of the attempt: when   *)
(* it fails, the finished job is tried again.                              *)
(***************************************************************************)
StartJob(c) ==
    /\ Moves(c, "try", "job")
    /\ attempt' = [attempt EXCEPT ![c] = @ + 1]
    /\ UNCHANGED <<lock, history, result>>

JobSucceeds(c) ==
    /\ Moves(c, "job", "save_success")
    /\ UNCHANGED <<attempt, lock, history, result>>

\* Mutant: the attempts are not counted.
AfterFailureForever(c) == "try"
AfterFailure(c) == IF attempt[c] < MaxAttempts THEN "try" ELSE "save_failed"

AttemptFails(c) ==
    /\ Moves(c, "job", AfterFailure(c)) \/ Moves(c, "save_success", AfterFailure(c))
    /\ UNCHANGED <<attempt, lock, history, result>>

Save(c, status) ==
    /\ history' = history \cup {Record(c, status)}
    /\ result' = [result EXCEPT ![c] = status]
    /\ UNCHANGED <<attempt, lock>>

\* Mutant: the loop goes on after a success.
SaveSuccessNoReturn(c) == Moves(c, "save_success", AfterFailure(c)) /\ Save(c, "success")
SaveSuccess(c) == Moves(c, "save_success", "release") /\ Save(c, "success")
SaveFailed(c)  == Moves(c, "save_failed", "release") /\ Save(c, "failed")
SaveSkipped(c) == Moves(c, "skip", "end") /\ Save(c, "skipped")

\* Saving any other record is not retried.
SaveRaises(c) ==
    /\ Moves(c, "save_failed", "release") \/ Moves(c, "skip", "end")
    /\ Raises(c)
    /\ UNCHANGED <<attempt, lock, history>>

\* The file is removed whoever made it.  Mutant: the advisory lock is kept.
ReleaseKeeps(c) ==
    /\ Moves(c, "release", "end")
    /\ UNCHANGED <<lock, attempt, history, result>>
Release(c) ==
    /\ Moves(c, "release", "end")
    /\ lock' = NoLock
    /\ UNCHANGED <<attempt, history, result>>

(***************************************************************************)
(* The process is killed, or a statement outside the attempts raises: the  *)
(* server drops the session's advisory lock, a killed process leaves the   *)
(* file.  A file grows old even while its maker still runs.                *)
(***************************************************************************)
CallDies(c) ==
    /\ pc[c] # "end"
    /\ pc' = [pc EXCEPT ![c] = "end"]
    /\ result' = [result EXCEPT ![c] = "raised"]
    /\ lock' = IF historyBackend = "postgres" /\ lock.owner = c THEN NoLock ELSE lock
    /\ UNCHANGED <<attempt, history>>

LockGetsOld ==
    /\ historyBackend = "jsonl" /\ Held /\ ~lock.old
    /\ lock' = [lock EXCEPT !.old = TRUE]
    /\ UNCHANGED <<pc, attempt, history, result>>

\* One statement of a call.
Step(c) ==
    \/ CheckHistory(c)
    \/ AdvisoryLock(c) \/ LockFileExists(c) \/ StatLockFile(c)
    \/ UnlinkOldLock(c) \/ CreateLockFile(c)
    \/ StartJob(c) \/ JobSucceeds(c) \/ AttemptFails(c)
    \/ SaveSuccess(c) \/ SaveFailed(c) \/ SaveSkipped(c) \/ SaveRaises(c)
    \/ Release(c)

SchedulerNext ==
    (LockGetsOld \/ \E c \in Calls : Step(c) \/ CallDies(c)) /\ UNCHANGED historyBackend

SchedulerSpec == SchedulerInit /\ [][SchedulerNext]_schedulerVars

\* A process that runs goes on, and the job itself ends.
FairSchedulerSpec ==
    SchedulerSpec /\ \A c \in Calls : WF_schedulerVars(Step(c) /\ UNCHANGED historyBackend)

(***************************************************************************)
(* Properties.                                                             *)
(***************************************************************************)
Working == {"try", "job", "save_success", "save_failed"}

\* Types; a call never makes more attempts than it may.
SchedulerTypeOK ==
    /\ historyBackend \in Backends
    /\ pc \in [Calls -> Working \cup {"start", "lock", "stat", "unlink", "create", "skip",
                                      "release", "end"}]
    /\ attempt \in [Calls -> 0..MaxAttempts]
    /\ lock \in Locks
    /\ history \subseteq [call : Calls, key : {RunKey[c] : c \in Calls},
                          status : {"skipped", "success", "failed"}]
    /\ result \in [Calls -> {"none", "skipped", "success", "failed", "raised"}]

\* The docstring's "only one lifecycle job runs at a time", for the advisory
\* lock: whatever calls fail or are killed, two are never both between taking
\* the lock and letting it go.
AdvisoryLockExcludes ==
    historyBackend = "postgres" =>
        \A c, d \in Calls : pc[c] \in Working /\ pc[d] \in Working => c = d

\* A call that returned left exactly one record, of the status it returned, and
\* no retry, failing save or kill ever leaves a second one.
RecordsTellResults ==
    \A c \in Calls :
        /\ result[c] \in {"skipped", "success", "failed"} =>
               {r \in history : r.call = c} = {Record(c, result[c])}
        /\ \A r, s \in history : r.call = s.call => r = s

\* Every call comes to an end, and a killed call does not keep the advisory
\* lock for ever.
CallsEnd ==
    <>[](/\ \A c \in Calls : pc[c] = "end"
         /\ historyBackend = "postgres" => ~Held)
=============================================================================

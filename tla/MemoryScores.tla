---------------------------- MODULE MemoryScores ----------------------------
(***************************************************************************)
(* What becomes of one experience on its way into the long-term memory:    *)
(* the policy (memory/policy.py), the quality, trust and decay scores      *)
(* (memory/quality.py), the failure profile (memory/failure.py), the       *)
(* adjustments before the write (memory/store.py) and the value the        *)
(* lifecycle job later computes from the result (memory/lifecycle.py).     *)
(*                                                                         *)
(* Scores are integers, 10000 for 1.0: the code rounds them to four        *)
(* digits.  How unlike the other records and how specific a text is are    *)
(* inputs, because they are counted on its words.                          *)
(*                                                                         *)
(* An experience (pending_memory): task, tool, result                      *)
(* (tool_result_status), decision, done (the run has ended), evidence (one *)
(* of EVIDENCE_KEYS), reason and data (they are not empty), findings (the  *)
(* privacy scan of all of it), rich (the text: "poor" at the lower end of  *)
(* both word counts, "rich" at the upper), failure (the category of its    *)
(* text), paths.                                                           *)
(***************************************************************************)
EXTENDS Integers

BadResults == {"failed", "blocked", "empty"}
PatchTools == {"apply_patch", "apply_patch_plan", "rollback", "revert_file_patch"}
ReadTools == {"read_file", "summarize_file", "inspect_symbol", "inspect_import_graph"}
RunTools == {"run_tests", "run_targeted_tests", "run_build", "run_typecheck",
             "run_cargo_test", "run_cargo_check", "run_cargo_build"}

Clamped(x) == IF x < 0 THEN 0 ELSE IF x > 10000 THEN 10000 ELSE x
AtMost(x, bound) == IF x < bound THEN x ELSE bound
AtLeast(x, bound) == IF x > bound THEN x ELSE bound
Points(condition, points) == IF condition THEN points ELSE 0

---------------------------------------------------------------------------
(* The policy.                                                             *)

Discarded(p) == p.tool = "none" /\ p.result = "none"

Keep(policy, importance) == [policy |-> policy, importance |-> importance]

(* Expiring or kept for good: the first rule that applies. *)
Retention(p) ==
    IF p.tool = "secret_scan" THEN Keep("ttl", 7000)
    ELSE IF p.result \in BadResults THEN Keep("ttl", 7500)
    ELSE IF p.result = "success" /\ p.evidence THEN Keep("long_term", 9000)
    ELSE IF p.tool \in PatchTools THEN Keep("long_term", 8500)
    ELSE IF p.tool \in ReadTools THEN Keep("ttl", 6000)
    ELSE IF p.result = "success" /\ p.done THEN Keep("long_term", 8000)
    ELSE Keep("ttl", 5000)

Kind(p) ==
    IF p.decision = "fail" \/ p.result \in BadResults THEN "failure"
    ELSE IF p.tool \in PatchTools THEN "patch"
    ELSE IF p.tool \in RunTools \cup {"static_check", "lint_typecheck"} THEN "eval"
    ELSE IF p.tool \in ReadTools THEN "project"
    ELSE "task"

---------------------------------------------------------------------------
(* Privacy: what the text reveals and what the tool is decide how sensitive *)
(* the record is, and that decides who may get it.                         *)

Levels == <<"public", "internal", "confidential", "secret">>
LevelOf(s) == CHOOSE n \in DOMAIN Levels : Levels[n] = s
StrongerSensitivity(s, t) == Levels[AtLeast(LevelOf(s), LevelOf(t))]

ScannedSensitivity(findings) ==
    CASE findings = "secret" -> "secret"
      [] findings = "pii" -> "confidential"
      [] findings = "none" -> "internal"

Sensitivity(p) ==
    IF p.tool = "secret_scan" THEN "secret"
    ELSE StrongerSensitivity("internal", ScannedSensitivity(p.findings))

Visibility(p) ==
    IF Sensitivity(p) \in {"confidential", "secret"} THEN "retrieval_only" ELSE "project"

---------------------------------------------------------------------------
(* Scores of a record about to be written.  Its age is zero.               *)

Decay(p) ==
    IF Retention(p).policy = "long_term" THEN 0
    ELSE IF Kind(p) = "failure" THEN 2500 ELSE 1000

Confidence(p) == IF p.result = "success" THEN 9000 ELSE 6500

Accurate(p) ==
    Clamped(7200 + Points(p.result = "success", 1200) + Points(p.evidence, 1200)
                 - Points(~p.reason, 1200)
                 - Points(p.result \in {"failed", "blocked"} /\ ~p.data, 1500))

Proven(p) ==
    IF p.result \in BadResults THEN 2500
    ELSE IF p.result = "success" /\ p.evidence THEN 10000 ELSE 5500

WordScore(p) == IF p.rich = "rich" THEN 10000 ELSE 0

(* Always actionable: the decision becomes a tag. *)
Quality(p) ==
    Clamped((22 * Accurate(p) + 10 * (10000 - Decay(p)) + (16 + 16) * WordScore(p) + 14 * 8500
               + 12 * (IF p.evidence THEN 10000 ELSE 3500) + 10 * Proven(p)) \div 100)

QualityDecision(p) ==
    IF Quality(p) < 3500 THEN "reject"
    ELSE IF Quality(p) < 5800 THEN "deprioritize" ELSE "store"

(* Feedback: how often earlier uses of the record were good or bad. *)
Trust(p, feedback) ==
    Clamped((45 * Confidence(p) + 20 * Retention(p).importance) \div 100
              + Points(p.result = "success", 1800) - Points(p.result \in BadResults, 800)
              + Points(p.evidence, 1800)
              - Points(Sensitivity(p) \in {"confidential", "secret"}, 500)
              + AtMost(1800, 600 * feedback.positive) - AtMost(2500, 800 * feedback.negative))

Capped(p, judge, importance) ==
    LET judged == CASE judge = "reject" -> AtMost(importance, 2500)
                    [] judge = "deprioritize" -> AtMost(importance, 4500)
                    [] OTHER -> importance
    IN  CASE QualityDecision(p) = "reject" -> AtMost(judged, 2000)
          [] QualityDecision(p) = "deprioritize" -> AtMost(judged, 4500)
          [] OTHER -> judged

AdjustedImportance(p, feedback, judge) ==
    LET mixed == Clamped((55 * Retention(p).importance + 30 * Quality(p)
                            + 15 * (10000 - Decay(p))) \div 100)
        praised == Clamped(mixed + AtMost(1200, 400 * feedback.positive))
    IN  Capped(p, judge, Clamped(praised - AtMost(1800, 600 * feedback.negative)))

---------------------------------------------------------------------------
(* The failure profile raises what the caps lowered.                       *)

RetryClass(category) ==
    CASE category = "permission_blocked" -> "ask_human"
      [] category \in {"environment_issue", "dependency_issue", "timeout"} -> "retry_after_environment_fix"
      [] category \in {"test_failure", "assertion_failure", "syntax_error", "type_error",
                       "build_failure", "rust_compile_error", "import_error"} -> "repair_required"
      [] OTHER -> "non_retryable"

HasFailureProfile(p) ==
    Kind(p) = "failure" \/ p.result \in BadResults \cup {"partial"} \/ p.tool \in RunTools

(* Repairs: a success on one of its files is known. *)
ProfiledImportance(p, importance, repairs) ==
    IF ~HasFailureProfile(p) THEN importance
    ELSE IF repairs THEN AtLeast(importance, 8800)
    ELSE IF RetryClass(p.failure) = "repair_required" THEN AtLeast(importance, 7800)
    ELSE importance

---------------------------------------------------------------------------
(* The record that is stored.                                              *)

(* The lifecycle job's score, in the classes it acts on. *)
LifecycleValue(importance, quality, trust, decay, pinned) ==
    LET score == (35 * importance + 30 * quality + 30 * trust - 25 * decay) \div 100
                    + Points(pinned, 1000)
    IN  IF score <= 2800 THEN "low" ELSE IF score >= 8600 THEN "high" ELSE "mid"

\* Mutant: a promoted record goes on expiring.
GovernedStillExpires(p, feedback, judge, repairs, repeated) ==
    LET promoted == p.result = "success" /\ repeated
        importance == ProfiledImportance(p, AdjustedImportance(p, feedback, judge), repairs)
    IN  [policy |-> Retention(p).policy,
         value |-> LifecycleValue(IF promoted THEN AtLeast(Retention(p).importance, 9500) ELSE importance,
                                  Quality(p), Trust(p, feedback), Decay(p), promoted),
         status |-> IF QualityDecision(p) = "reject" THEN "rejected" ELSE "active"]

(* Repeated: with it, enough matching successes are known. *)
Governed(p, feedback, judge, repairs, repeated) ==
    LET promoted == p.result = "success" /\ repeated
        importance == ProfiledImportance(p, AdjustedImportance(p, feedback, judge), repairs)
    IN  [policy |-> IF promoted THEN "pinned" ELSE Retention(p).policy,
         value |-> LifecycleValue(IF promoted THEN AtLeast(Retention(p).importance, 9500) ELSE importance,
                                  Quality(p), Trust(p, feedback), Decay(p), promoted),
         status |-> IF QualityDecision(p) = "reject" THEN "rejected" ELSE "active"]

(* What the store may expect of a record the writer hands it: what expires  *)
(* never scores high, what is pinned never low, and nothing is rejected:    *)
(* no experience the task committer reports scores that badly.              *)
Evaluations ==
    [policy : {"ttl"}, value : {"low", "mid"}, status : {"active"}]
        \cup [policy : {"long_term"}, value : {"low", "mid", "high"}, status : {"active"}]
        \cup [policy : {"pinned"}, value : {"mid", "high"}, status : {"active"}]
=============================================================================

------------------------------- MODULE Router -------------------------------
(***************************************************************************)
(* The Router (routering/): one request goes through the intent, risk and  *)
(* tool stages, each a model call with JSON repair, a stronger model and a *)
(* local fallback, then the security classifier, the security override,   *)
(* the context policy, conflict detection and the review queue.  A         *)
(* confidence is a percentage.                                             *)
(***************************************************************************)
EXTENDS Integers, FiniteSets, Sequences

CONSTANTS
    Texts,          \* what users ask
    Findings,       \* what the local security patterns and detectors find in a text
    AsksToShow,     \* the texts with an EXFILTRATION_ACTION_KEYWORD
    Rules,          \* the rule set, a sequence of [category, outcome, priority]
    Hits,           \* the rules a text hits, as "typed" and as "redacted" for the models
    Keywords,       \* the default keywords left in the redacted text: "high", "medium", "tool"
    Confidences,    \* what the models may say of their own confidence, a percentage
    Config          \* the settings of .env

TaskTypes == {"search", "write", "chat", "agent"}
RiskLevels == {"low", "medium", "high"}
MaliciousIntents == {"none", "prompt_injection", "unsafe_code_action", "data_exfiltration"}
InjectionRisks == {"none", "suspected", "high"}
Labels == (MaliciousIntents \ {"none"})
            \cup {"sensitive_input_secret", "sensitive_input_pii", "historical_abuse_pattern"}

ASSUME TextsAssumption ==
    /\ Findings \in [Texts -> SUBSET Labels]
    /\ AsksToShow \subseteq Texts

ASSUME ConfigAssumption ==
    /\ Config.repairs \in 0..3
    /\ Config.risk_failure \in {"rule", "conservative"}
    /\ Config.security_failure \in {"none", "raise_risk"}
    /\ Config.low_confidence \in {"fallback", "accept"}
    /\ {Config.escalates, Config.high_needs_strong, Config.classifies} \subseteq BOOLEAN
    /\ Config.high_risk_contexts \subseteq BOOLEAN
    /\ Confidences \subseteq 0..100
    /\ {Config.min_confidence, Config.strong_confidence, Config.review_confidence} \subseteq 0..100

(* The thresholds of .env.example are .50: a fallback's .45 is below them.  *)
ASSUME FallbacksAreUnsure ==
    Config.min_confidence > 45 \/ Config.review_confidence > 45

Lower(a, b) == IF a < b THEN a ELSE b

---------------------------------------------------------------------------
(* The rule set: the matched rule of the highest priority decides, the      *)
(* earlier one among equals.                                               *)

Matched(t, seen, category) == {i \in Hits[t][seen] : Rules[i].category = category}

Precedes(i, j) ==
    \/ Rules[i].priority > Rules[j].priority
    \/ Rules[i].priority = Rules[j].priority /\ i <= j

Decided(t, seen, category, default) ==
    LET matched == Matched(t, seen, category)
    IN  IF matched = {} THEN default
        ELSE Rules[CHOOSE i \in matched : \A j \in matched : Precedes(i, j)].outcome

RuleTask(t, seen) == Decided(t, seen, "task_type", "chat")
RuleRisk(t, seen) == Decided(t, seen, "risk_level", "low")

(* What a failed risk stage says: keywords raise the rules' answer. *)
ConservativeRisk(t) ==
    CASE "high" \in {RuleRisk(t, "redacted")} \cup Keywords[t] -> "high"
      [] RuleRisk(t, "redacted") = "medium" \/ Keywords[t] \cap {"medium", "tool"} # {} -> "medium"
      [] OTHER -> "low"

---------------------------------------------------------------------------
(* Local security, of the text as typed.                                   *)

LocalIntent(t) ==
    CASE \/ "data_exfiltration" \in Findings[t]
         \/ "sensitive_input_secret" \in Findings[t] /\ t \in AsksToShow -> "data_exfiltration"
      [] "prompt_injection" \in Findings[t] -> "prompt_injection"
      [] Findings[t] \cap {"unsafe_code_action", "historical_abuse_pattern"} # {}
           -> "unsafe_code_action"
      [] OTHER -> "none"

LocalInjection(t) ==
    IF "prompt_injection" \notin Findings[t] THEN "none"
    ELSE IF Findings[t] \cap {"data_exfiltration", "unsafe_code_action",
                              "sensitive_input_secret"} # {}
    THEN "high" ELSE "suspected"

Local(t) == [malicious |-> LocalIntent(t), injection |-> LocalInjection(t)]

Rank(signal) ==
    CASE signal \in {"data_exfiltration"} -> 3
      [] signal \in {"prompt_injection", "unsafe_code_action", "high"} -> 2
      [] signal = "suspected" -> 1
      [] OTHER -> 0

Worse(mine, other) == IF Rank(other) > Rank(mine) THEN other ELSE mine

\* Mutant: the classifier's answer replaces the local one.
MergedAsClassified(local, llm) == llm

Merged(local, llm) ==
    [malicious |-> Worse(local.malicious, llm.malicious),
     injection |-> Worse(local.injection, llm.injection)]

(* Without the classifier, or when its call or its answer fails, the local  *)
(* signal stays; the failure makes the decision a fallback.                 *)
Securities(t) ==
    {[signal |-> Local(t), source |-> s] : s \in IF Config.classifies THEN {"fallback"} ELSE {"llm"}}
      \cup (IF Config.classifies
            THEN {[signal |-> Merged(Local(t), llm), source |-> "llm"] :
                    llm \in [malicious : MaliciousIntents, injection : InjectionRisks]}
            ELSE {})

---------------------------------------------------------------------------
(* A stage: what the models may say, and what the stage makes of it.       *)

Parsed(Values) ==
    [value : Values, confidence : Confidences, repaired : {FALSE, Config.repairs > 0}]

(* The call raised, or no repair made its answer valid. *)
NoAnswer == [value |-> "none", confidence |-> 0, repaired |-> FALSE]

NeedsStrong(answer) ==
    /\ Config.escalates
    /\ \/ answer.value = "high" /\ Config.high_needs_strong
       \/ answer.confidence < Config.strong_confidence

Chosen(primary, strong) ==
    IF primary.value = "high" /\ strong.value # "high" THEN primary ELSE strong

(* When the strong model's call fails, the stage has no answer at all.      *)
StageAnswers(Values) ==
    {NoAnswer}
      \cup {p \in Parsed(Values) : ~NeedsStrong(p)}
      \cup {Chosen(p, s) : p \in {q \in Parsed(Values) : NeedsStrong(q)}, s \in Parsed(Values)}

Accepted(answer) ==
    /\ answer # NoAnswer
    /\ answer.confidence >= Config.min_confidence \/ Config.low_confidence = "accept"

Said(answer) ==
    [decision |-> answer.value, confidence |-> answer.confidence, source |-> "llm",
     repaired |-> answer.repaired]

\* Mutant: a fallback reports the confidence the stage models default to.
FallbackConfidently(decision) ==
    [decision |-> decision, confidence |-> 70, source |-> "fallback", repaired |-> FALSE]

Fallback(decision) ==
    [decision |-> decision, confidence |-> 45, source |-> "fallback", repaired |-> FALSE]

IntentStage(t, answer) ==
    IF Accepted(answer) THEN Said(answer) ELSE Fallback(RuleTask(t, "redacted"))

RiskStage(t, answer) ==
    IF Accepted(answer) THEN Said(answer)
    ELSE Fallback(IF Config.risk_failure = "conservative"
                  THEN ConservativeRisk(t) ELSE RuleRisk(t, "redacted"))

ToolNeedsStage(intent, answer) ==
    IF Accepted(answer) THEN Said(answer)
    ELSE Fallback(IF intent.decision = "agent" THEN "true" ELSE "false")

---------------------------------------------------------------------------
(* From the stages to the decision.                                        *)

Aggregated(stages) ==
    [task_type |-> stages.intent.decision, risk_level |-> stages.risk.decision,
     needs_tool |-> stages.tool.decision = "true",
     confidence |-> Lower(stages.intent.confidence,
                          Lower(stages.risk.confidence, stages.tool.confidence))]

Raised(decision, level, cap) ==
    [task_type |-> "agent", risk_level |-> level, needs_tool |-> TRUE,
     confidence |-> Lower(decision.confidence, cap)]

Suspected(signal) ==
    signal.malicious = "none" /\ signal.injection # "none" /\ Config.security_failure = "raise_risk"

AfterSecurity(decision, signal) ==
    IF signal.malicious # "none" THEN Raised(decision, "high", 65)
    ELSE IF Suspected(signal) THEN Raised(decision, "medium", 60)
    ELSE decision

(* A tenant, project or user that .env lists as high-risk. *)
AfterContext(decision, risky) == IF risky THEN Raised(decision, "high", 65) ELSE decision

Overridden(signal, risky) == signal.malicious # "none" \/ Suspected(signal) \/ risky

Source(stages, security, risky) ==
    IF Overridden(security.signal, risky) THEN "security_override"
    ELSE IF "fallback" \in {stages.intent.source, stages.risk.source, stages.tool.source,
                            security.source}
    THEN "fallback" ELSE "llm"

(* What the typed text's rules, the security signal, the context policy and *)
(* the threshold object to.                                                *)
Conflicts(t, decision, signal, risky) ==
    {k \in {"task_type_rule_conflict", "risk_rule_conflict", "security_risk_conflict",
            "low_confidence", "context_policy_conflict"} :
        CASE k = "task_type_rule_conflict" ->
                Matched(t, "typed", "task_type") # {}
                  /\ decision.task_type # RuleTask(t, "typed")
          [] k = "risk_rule_conflict" ->
                Matched(t, "typed", "risk_level") # {}
                  /\ decision.risk_level # RuleRisk(t, "typed")
          [] k = "security_risk_conflict" ->
                signal.malicious # "none" /\ decision.risk_level # "high"
          [] k = "low_confidence" -> decision.confidence < Config.min_confidence
          [] k = "context_policy_conflict" -> risky /\ decision.risk_level # "high"}

(* The reasons for a human's review; a slow answer is one as well.          *)
ReviewReasons(stages, decision, source, conflicts, slow) ==
    {k \in {"risk_level", "security_override", "router_conflict", "latency", "repair_used",
            "low_confidence"} :
        CASE k = "risk_level" -> decision.risk_level = "high"
          [] k = "security_override" -> source = "security_override"
          [] k = "router_conflict" -> conflicts # {}
          [] k = "latency" -> slow
          [] k = "repair_used" -> stages.intent.repaired \/ stages.risk.repaired
                                    \/ stages.tool.repaired
          [] k = "low_confidence" -> decision.confidence < Config.review_confidence}

(* What makes a decision doubtful, whatever the review looks at: a stage    *)
(* that fell back or needed a repair, a decision that was raised.          *)
Doubts(stages, security, risky) ==
    {k \in {"fell_back", "repaired", "raised"} :
        CASE k = "fell_back" ->
                "fallback" \in {stages.intent.source, stages.risk.source, stages.tool.source}
          [] k = "repaired" -> stages.intent.repaired \/ stages.risk.repaired
                                 \/ stages.tool.repaired
          [] k = "raised" -> Overridden(security.signal, risky)}

(* What is kept of router_report: the decision, the risk stage's answer,    *)
(* and whether there were doubts and reasons for a review.                 *)
RouterReport(t, stages, security, risky, slow) ==
    LET decision == AfterContext(AfterSecurity(Aggregated(stages), security.signal), risky)
        source == Source(stages, security, risky)
        conflicts == Conflicts(t, decision, security.signal, risky)
    IN  [text |-> t, task_type |-> decision.task_type, risk_level |-> decision.risk_level,
         needs_tool |-> decision.needs_tool, stage_risk |-> stages.risk.decision,
         doubted |-> Doubts(stages, security, risky) # {},
         reviewed |-> ReviewReasons(stages, decision, source, conflicts, slow) # {}]

StagesOf(t) ==
    LET risks == {RiskStage(t, answer) : answer \in StageAnswers(RiskLevels)}
        tools(intent) == {ToolNeedsStage(intent, answer) : answer \in StageAnswers({"true", "false"})}
    IN  UNION {{[intent |-> intent, risk |-> risk, tool |-> tool] :
                  risk \in risks, tool \in tools(intent)} :
               intent \in {IntentStage(t, answer) : answer \in StageAnswers(TaskTypes)}}

(* Every report router_classifier_node may make of a text. *)
RouterReports(t) ==
    {RouterReport(t, stages, security, risky, slow) :
        stages \in StagesOf(t), security \in Securities(t), risky \in Config.high_risk_contexts,
        slow \in BOOLEAN}

(* The branch of the graph a report leads to. *)
Branch(report) == IF report.task_type \in TaskTypes THEN report.task_type ELSE "chat"
=============================================================================

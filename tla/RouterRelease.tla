--------------------------- MODULE RouterRelease ---------------------------
(***************************************************************************)
(* The Router at work, and the loop that keeps it right: a decision that   *)
(* was wrong is corrected (routering/feedback.py), the correction becomes  *)
(* an eval case, and a release must pass the replay of the cases           *)
(* (eval_runner.py, regression_gate.py, scripts/router_eval.py).           *)
(*                                                                         *)
(* Bounds: MaxObjections, and RequestsFirst: a request writes no file that  *)
(* the commands read but its own event, so its steps commute with theirs   *)
(* and are taken before them.                                              *)
(***************************************************************************)
EXTENDS Router, SequencesExt

CONSTANTS
    Core,           \* router_eval_core.json, a sequence of [text, expected, category]
    Corrections,    \* what developers object to: pairs of [text, expected]
    Limits,         \* the gate's limits in .env, percentages
    MaxCases,       \* BEGINNER_AGENT_MAX_ROUTER_EVAL_CASES
    MaxObjections,   \* bound
    NoReport, NoCorrection, NoVerdict

VARIABLES
    report,      \* State.router_report
    objected,    \* the texts of the decisions somebody noted down as wrong, by decision
    feedback,    \* router_feedback.jsonl, as feedback ids
    cases,       \* router_eval_cases.jsonl
    correcting,  \* the correction between its two appends
    verdict,     \* what the last command said, if it was replay or gate
    promised,    \* history: the corrections a developer was told are recorded
    lost         \* history: those whose case a crash took or newer cases pushed out

routerVars == <<report, objected>>
caseVars == <<feedback, cases, correcting, promised, lost>>
vars == <<report, objected, feedback, cases, correcting, verdict, promised, lost>>

Fields == {"task_type", "risk_level", "needs_tool"}

Decision(r) == [f \in Fields |-> r[f]]

ASSUME ReleaseAssumption ==
    /\ Core \in Seq(Range(Core)) /\ \A i \in DOMAIN Core : Core[i].text \in Texts
    /\ MaxCases \in Nat \ {0} /\ MaxObjections \in Nat
    /\ {Limits.overall, Limits.category, Limits.strict} \subseteq 0..100

\* The mark of no correction is not itself one.
ASSUME NoCorrectionAssumption ==
    \A c \in Corrections, id \in 1..MaxObjections :
        [id |-> id, expected |-> c.expected] # NoCorrection

(* What the Router may make of each text. *)
Reports == [t \in Texts |-> RouterReports(t)]

Decisions == [t \in Texts |-> {Decision(r) : r \in Reports[t]}]

(* A file of at most MaxCases records takes one more. *)
Appended(file, record) ==
    LET longer == Append(file, record)
    IN  SubSeq(longer, 1 + Len(longer) - (IF Len(longer) > MaxCases THEN MaxCases ELSE Len(longer)),
               Len(longer))

(* What is left of a file when the write of it is cut short; the readers    *)
(* skip a line that is not whole.                                          *)
Torn(file) == {SubSeq(file, 1, n) : n \in 0..Len(file)}

---------------------------------------------------------------------------
(* Requests.                                                               *)

RequestsFirst ==
    feedback = <<>> /\ cases = <<>> /\ verdict = NoVerdict

Classify(t) ==
    /\ RequestsFirst /\ report = NoReport
    /\ report' \in Reports[t]
    /\ UNCHANGED <<objected, caseVars, verdict>>

EndRun ==
    /\ report # NoReport
    /\ report' = NoReport
    /\ \/ UNCHANGED objected
       \/ /\ Len(objected) < MaxObjections
          /\ report.text \in {correction.text : correction \in Corrections}
          /\ objected' = Append(objected, report.text)
    /\ UNCHANGED <<caseVars, verdict>>

---------------------------------------------------------------------------
(* Corrections.                                                            *)

\* Mutant: the feedback id names the decision only.
FeedbackIdOfDecision(id, expected) == [decision |-> id]

FeedbackId(id, expected) == [decision |-> id, expected |-> expected]

CaseOf(id, expected) ==
    [text |-> objected[id], expected |-> expected, category |-> "regression_cases"]

(* The decision is known by its saved report, or by its id while the event  *)
(* log still holds it.  A repeated correction is answered as a duplicate.   *)
Correct(id, expected) ==
    /\ report = NoReport /\ correcting = NoCorrection
    /\ [text |-> objected[id], expected |-> expected] \in Corrections
    /\ LET correction == [id |-> id, expected |-> expected]
       IN  IF FeedbackId(id, expected) \in Range(feedback)
           THEN /\ promised' = promised \cup {correction}
                /\ UNCHANGED <<feedback, correcting>>
           ELSE /\ feedback' = Appended(feedback, FeedbackId(id, expected))
                /\ correcting' = correction
                /\ UNCHANGED promised
    /\ verdict' = NoVerdict
    /\ UNCHANGED <<routerVars, cases, lost>>

(* The promised corrections that have no case among the records. *)
Missing(corrections, records) ==
    {c \in corrections : CaseOf(c.id, c.expected) \notin Range(records)}

AppendCase ==
    /\ correcting # NoCorrection
    /\ cases' = Appended(cases, CaseOf(correcting.id, correcting.expected))
    /\ promised' = promised \cup {correcting}
    /\ lost' = lost \cup Missing(promised, cases')
    /\ correcting' = NoCorrection
    /\ UNCHANGED <<routerVars, feedback, verdict>>

(* The command dies: while it writes the feedback, between the two files,   *)
(* or while it writes the case.                                            *)
CommandDies ==
    /\ correcting # NoCorrection
    /\ \/ feedback' \in Torn(feedback) /\ UNCHANGED cases
       \/ /\ cases' \in Torn(Appended(cases, CaseOf(correcting.id, correcting.expected)))
          /\ UNCHANGED feedback
    /\ lost' = lost \cup {correcting} \cup Missing(promised, cases')
    /\ correcting' = NoCorrection
    /\ UNCHANGED <<routerVars, verdict, promised>>

(* A case entered by hand, with no decision to trace it to; the command may *)
(* die over it.                                                            *)
AppendFeedback(correction) ==
    /\ report = NoReport /\ correcting = NoCorrection
    /\ LET case == [text |-> correction.text, expected |-> correction.expected,
                    category |-> "regression_cases"]
       IN  cases' \in Torn(Appended(cases, case))
    /\ lost' = lost \cup Missing(promised, cases')
    /\ verdict' = NoVerdict
    /\ UNCHANGED <<routerVars, feedback, correcting, promised>>

---------------------------------------------------------------------------
(* The replay: each case is routed anew; an answer is the set of fields it  *)
(* got right.                                                              *)

Dataset == IF cases = <<>> THEN Core ELSE cases

Answers(case) ==
    {{f \in Fields : decision[f] = case.expected[f]} : decision \in Decisions[case.text]}

Replays ==
    LET possible == [i \in DOMAIN Dataset |-> Answers(Dataset[i])]
    IN  {answers \in [DOMAIN Dataset -> SUBSET Fields] :
            \A i \in DOMAIN Dataset : answers[i] \in possible[i]}

Rate(part, whole) ==
    IF whole = {} THEN 0 ELSE (1000 * Cardinality(part)) \div Cardinality(whole)

(* summarize_router_eval_results, in thousandths. *)
Metrics(answers) ==
    LET all == DOMAIN answers
    IN  [m \in Fields \cup {"pass_rate"} |->
            Rate({i \in all : IF m = "pass_rate" THEN answers[i] = Fields ELSE m \in answers[i]}, all)]

CategoryMetrics(answers) ==
    [c \in {Dataset[i].category : i \in DOMAIN Dataset} |->
        LET own == {i \in DOMAIN Dataset : Dataset[i].category = c}
        IN  Rate({i \in own : answers[i] = Fields}, own)]

EvalRun(answers) == [metrics |-> Metrics(answers), categories |-> CategoryMetrics(answers)]

Strict == {"high_risk_cases", "prompt_injection_cases", "secret_pii_cases"}

CategoryFloor(c) == IF c \in Strict THEN Limits.strict ELSE Limits.category

(* evaluate_router_regression_gate *)
MeetsFloors(run) ==
    /\ \A m \in DOMAIN run.metrics : run.metrics[m] >= 10 * Limits.overall
    /\ \A c \in DOMAIN run.categories : run.categories[c] >= 10 * CategoryFloor(c)

(* The recorded corrections that were not replayed, or not answered the way *)
(* they ask for, as cases.                                                 *)
Ignored(answers) ==
    {case \in {CaseOf(c.id, c.expected) : c \in promised \ lost} :
        ~\E i \in DOMAIN Dataset : Dataset[i] = case /\ answers[i] = Fields}

(* replay and gate; a baseline would only make the gate stricter.  A second *)
(* replay of the same files has the outcomes of the first.                  *)
Gate ==
    /\ report = NoReport /\ correcting = NoCorrection /\ verdict = NoVerdict
    /\ \E answers \in Replays :
          verdict' = [passed |-> MeetsFloors(EvalRun(answers)), replayed |-> Len(Dataset),
                      ignored |-> Cardinality(Ignored(answers))]
    /\ UNCHANGED <<routerVars, caseVars>>

---------------------------------------------------------------------------

Init ==
    /\ report = NoReport
    /\ objected = <<>>
    /\ feedback = <<>> /\ cases = <<>>
    /\ correcting = NoCorrection
    /\ verdict = NoVerdict
    /\ promised = {} /\ lost = {}

Next ==
    \/ \E t \in Texts : Classify(t)
    \/ EndRun
    \/ \E id \in DOMAIN objected, correction \in Corrections : Correct(id, correction.expected)
    \/ AppendCase
    \/ CommandDies
    \/ \E correction \in Corrections : AppendFeedback(correction)
    \/ Gate

Spec == Init /\ [][Next]_vars

---------------------------------------------------------------------------
(* A request in which the local patterns find an injection, an exfiltration *)
(* or an unsafe action is routed to the agent, at high risk and with tools, *)
(* whatever the stage models, the strong model and the security classifier  *)
(* answer, and whichever of their calls fail (multistage.py:125,            *)
(* security_classifier.py:112).                                            *)
LocalSecurityStands ==
    report # NoReport /\ LocalIntent(report.text) # "none" =>
        report.task_type = "agent" /\ report.risk_level = "high" /\ report.needs_tool

(* A decision that rests on a fallback or on a repaired answer, or that was *)
(* raised, goes to the review queue (review.py:62-80); for the fallback it  *)
(* is only its confidence that puts it there.                              *)
DoubtIsReviewed == report # NoReport /\ report.doubted => report.reviewed

(* A release that passes its replay ignores at most the share of the replayed *)
(* cases that the floors leave open, and this counts the corrections that     *)
(* were recorded and are not even replayed: deduplication, the two files, the *)
(* choice of the dataset and the gate together (feedback.py, eval_runner.py,  *)
(* regression_gate.py).  Excepted are the cases that a crash took from the    *)
(* file or newer ones pushed out.                                            *)
PassedReplayHonoursCorrections ==
    verdict # NoVerdict /\ verdict.passed =>
        \A floor \in {Limits.overall, Limits.category} :
            100 * verdict.ignored <= (100 - floor) * verdict.replayed

(* The stages after the risk stage never lower what it said                 *)
(* (security_classifier.py:21: the classifier may only raise the risk).     *)
RiskIsOnlyRaised ==
    report # NoReport =>
        CASE report.stage_risk = "high" -> report.risk_level = "high"
          [] report.stage_risk = "medium" -> report.risk_level # "low"
          [] OTHER -> TRUE
=============================================================================

---------------------------- MODULE RouterProofs ----------------------------
(***************************************************************************)
(* The Router, proved for every set of texts, rules, thresholds and        *)
(* settings: what the models answer cannot take a request that the local   *)
(* patterns object to below high risk, and a decision that rests on a      *)
(* fallback is reviewed.                                                   *)
(***************************************************************************)
EXTENDS RouterRelease, FiniteSetTheorems, SequenceTheorems, TLAPS

\* The classifier's answer, merged, never takes the malicious intent away.
LEMMA MergeKeepsIntent ==
    ASSUME NEW t \in Texts, LocalIntent(t) # "none",
           NEW security \in Securities(t)
    PROVE  security.signal.malicious # "none"
<1>1. CASE security.signal = Local(t)
  BY <1>1 DEF Local
<1>2. CASE \E llm \in [malicious : MaliciousIntents, injection : InjectionRisks] :
              security.signal = Merged(Local(t), llm)
  <2>1. PICK llm \in [malicious : MaliciousIntents, injection : InjectionRisks] :
          security.signal = Merged(Local(t), llm)
    BY <1>2
  <2>2. security.signal.malicious = Worse(LocalIntent(t), llm.malicious)
    BY <2>1 DEF Merged, Local
  <2>3. Rank("none") = 0
    BY DEF Rank
  <2>4. Rank(LocalIntent(t)) \in Nat
    BY DEF Rank
  <2>5. ~(Rank("none") > Rank(LocalIntent(t)))
    BY <2>3, <2>4
  <2> QED BY <2>2, <2>5 DEF Worse
<1> QED BY <1>1, <1>2 DEF Securities

\* What router_classifier_node reports of a text that the local patterns object to.
LEMMA ObjectionIsHighRisk ==
    ASSUME NEW t \in Texts, LocalIntent(t) # "none",
           NEW r \in RouterReports(t)
    PROVE  r.task_type = "agent" /\ r.risk_level = "high" /\ r.needs_tool
<1>1. PICK stages \in StagesOf(t), security \in Securities(t),
           risky \in Config.high_risk_contexts, slow \in BOOLEAN :
        r = RouterReport(t, stages, security, risky, slow)
  BY DEF RouterReports
<1>2. security.signal.malicious # "none"
  BY MergeKeepsIntent
<1> DEFINE decided == AfterContext(AfterSecurity(Aggregated(stages), security.signal), risky)
<1>3. decided.task_type = "agent" /\ decided.risk_level = "high" /\ decided.needs_tool = TRUE
  BY <1>2 DEF AfterContext, AfterSecurity, Raised
<1> QED BY <1>1, <1>3 DEF RouterReport

---------------------------------------------------------------------------

\* The report is one the node makes of its text.
ReportIsMade == report # NoReport => \E t \in Texts : report \in RouterReports(t) /\ report.text = t

\* Every report is about the text it was made of.
LEMMA ReportNamesItsText ==
    ASSUME NEW t \in Texts, NEW r \in RouterReports(t)
    PROVE  r.text = t
BY DEF RouterReports, RouterReport

LEMMA ReportIsMadeHolds == Spec => []ReportIsMade
<1>1. Init => ReportIsMade
  BY DEF Init, ReportIsMade
<1>2. ReportIsMade /\ [Next]_vars => ReportIsMade'
  <2> SUFFICES ASSUME ReportIsMade, [Next]_vars PROVE ReportIsMade'
    OBVIOUS
  <2>1. CASE \E t \in Texts : Classify(t)
    <3>1. PICK t \in Texts : report' \in RouterReports(t)
      BY <2>1 DEF Classify, Reports
    <3> QED BY <3>1, ReportNamesItsText DEF ReportIsMade
  <2>2. CASE EndRun
    BY <2>2 DEF EndRun, ReportIsMade
  <2>3. CASE \E id \in DOMAIN objected, correction \in Corrections :
                Correct(id, correction.expected)
    BY <2>3 DEF Correct, routerVars, ReportIsMade
  <2>4. CASE AppendCase
    BY <2>4 DEF AppendCase, routerVars, ReportIsMade
  <2>5. CASE CommandDies
    BY <2>5 DEF CommandDies, routerVars, ReportIsMade
  <2>6. CASE \E correction \in Corrections : AppendFeedback(correction)
    BY <2>6 DEF AppendFeedback, routerVars, ReportIsMade
  <2>7. CASE Gate
    BY <2>7 DEF Gate, routerVars, ReportIsMade
  <2>8. CASE UNCHANGED vars
    BY <2>8 DEF vars, ReportIsMade
  <2> QED BY <2>1, <2>2, <2>3, <2>4, <2>5, <2>6, <2>7, <2>8 DEF Next
<1> QED BY <1>1, <1>2, PTL DEF Spec

\* A request the local patterns object to is routed to the agent, at high risk
\* and with tools, whatever the models answer (multistage.py:127).
THEOREM LocalSecurityHolds == Spec => []LocalSecurityStands
<1>1. ReportIsMade => LocalSecurityStands
  BY ObjectionIsHighRisk DEF ReportIsMade, LocalSecurityStands
<1> QED BY <1>1, ReportIsMadeHolds, PTL

---------------------------------------------------------------------------

\* A stage that fell back says so with a confidence of 45; all are percentages.
StageIsSure(stage) ==
    /\ stage.confidence \in 0..100
    /\ stage.source = "fallback" => stage.confidence = 45

LEMMA AnswersAreSure ==
    ASSUME NEW Values, NEW answer \in StageAnswers(Values)
    PROVE  answer.confidence \in 0..100
<1>1. \A p \in Parsed(Values) : p.confidence \in 0..100
  BY ConfigAssumption DEF Parsed
<1>2. CASE answer = NoAnswer
  BY <1>2 DEF NoAnswer
<1>3. CASE answer \in Parsed(Values)
  BY <1>1, <1>3
<1>4. \A p, s \in Parsed(Values) : Chosen(p, s) \in Parsed(Values)
  BY DEF Chosen
<1> QED BY <1>2, <1>3, <1>4 DEF StageAnswers

LEMMA StagesAreSure ==
    ASSUME NEW t \in Texts, NEW stages \in StagesOf(t)
    PROVE  StageIsSure(stages.intent) /\ StageIsSure(stages.risk) /\ StageIsSure(stages.tool)
<1>1. \A answer : answer.confidence \in 0..100 => StageIsSure(Said(answer))
  BY DEF Said, StageIsSure
<1>2. \A decision : StageIsSure(Fallback(decision))
  BY DEF Fallback, StageIsSure
<1>3. \A answer \in StageAnswers(TaskTypes) : StageIsSure(IntentStage(t, answer))
  BY <1>1, <1>2, AnswersAreSure DEF IntentStage
<1>4. \A answer \in StageAnswers(RiskLevels) : StageIsSure(RiskStage(t, answer))
  BY <1>1, <1>2, AnswersAreSure DEF RiskStage
<1>5. \A intent : \A answer \in StageAnswers({"true", "false"}) :
        StageIsSure(ToolNeedsStage(intent, answer))
  BY <1>1, <1>2, AnswersAreSure DEF ToolNeedsStage
<1>6. PICK i \in StageAnswers(TaskTypes), r \in StageAnswers(RiskLevels),
         n \in StageAnswers({"true", "false"}) :
        stages = [intent |-> IntentStage(t, i), risk |-> RiskStage(t, r),
                  tool |-> ToolNeedsStage(IntentStage(t, i), n)]
  BY DEF StagesOf
<1> QED BY <1>3, <1>4, <1>5, <1>6

\* A fallback's low confidence survives everything that is decided after it.
LEMMA FallbackStaysUnsure ==
    ASSUME NEW t \in Texts, NEW stages \in StagesOf(t), NEW signal, NEW risky,
           "fallback" \in {stages.intent.source, stages.risk.source, stages.tool.source}
    PROVE  LET decision == AfterContext(AfterSecurity(Aggregated(stages), signal), risky)
           IN  decision.confidence \in Int /\ decision.confidence <= 45
<1>1. \A d, level, cap : d.confidence \in Int /\ d.confidence <= 45 /\ cap \in Int
        => Raised(d, level, cap).confidence \in Int /\ Raised(d, level, cap).confidence <= 45
  BY DEF Raised, Lower
<1> DEFINE first == Aggregated(stages)
<1>2. first.confidence \in Int /\ first.confidence <= 45
  <2> DEFINE i == stages.intent.confidence
             k == stages.risk.confidence
             n == stages.tool.confidence
  <2>1. i \in Int /\ k \in Int /\ n \in Int
    BY StagesAreSure DEF StageIsSure
  <2>2. i = 45 \/ k = 45 \/ n = 45
    BY StagesAreSure DEF StageIsSure
  <2>3. first.confidence = Lower(i, Lower(k, n))
    BY DEF Aggregated
  <2> HIDE DEF first, i, k, n
  <2> QED BY <2>1, <2>2, <2>3 DEF Lower
<1> DEFINE second == AfterSecurity(first, signal)
<1>3. second.confidence \in Int /\ second.confidence <= 45
  <2> HIDE DEF first
  <2> QED BY <1>1, <1>2 DEF AfterSecurity
<1>4. AfterContext(second, risky).confidence \in Int /\ AfterContext(second, risky).confidence <= 45
  <2> HIDE DEF second
  <2> QED BY <1>1, <1>3 DEF AfterContext
<1> QED BY <1>4

\* Each doubt is a reason for a review, the fallback through its confidence alone.
LEMMA DoubtIsAReason ==
    ASSUME NEW t \in Texts, NEW r \in RouterReports(t), r.doubted
    PROVE  r.reviewed
<1>1. PICK stages \in StagesOf(t), security \in Securities(t),
           risky \in Config.high_risk_contexts, slow \in BOOLEAN :
        r = RouterReport(t, stages, security, risky, slow)
  BY DEF RouterReports
<1> DEFINE decision == AfterContext(AfterSecurity(Aggregated(stages), security.signal), risky)
           source == Source(stages, security, risky)
           conflicts == Conflicts(t, decision, security.signal, risky)
           reasons == ReviewReasons(stages, decision, source, conflicts, slow)
<1>2. Doubts(stages, security, risky) # {}
  BY <1>1 DEF RouterReport
<1>3. SUFFICES reasons # {}
  BY <1>1 DEF RouterReport
<1>4. CASE "fallback" \in {stages.intent.source, stages.risk.source, stages.tool.source}
  <2>1. decision.confidence \in Int /\ decision.confidence <= 45
    BY <1>4, FallbackStaysUnsure
  <2>2. Config.min_confidence \in Int /\ Config.review_confidence \in Int
    BY ConfigAssumption
  <2> HIDE DEF decision
  <2>3. CASE Config.review_confidence > 45
    <3>1. "low_confidence" \in reasons
      BY <2>1, <2>2, <2>3 DEF ReviewReasons
    <3> QED BY <3>1
  <2>4. CASE Config.min_confidence > 45
    <3>1. "low_confidence" \in conflicts
      BY <2>1, <2>2, <2>4 DEF Conflicts
    <3>2. "router_conflict" \in reasons
      BY <3>1 DEF ReviewReasons
    <3> QED BY <3>2
  <2> QED BY <2>3, <2>4, FallbacksAreUnsure
<1>5. CASE stages.intent.repaired \/ stages.risk.repaired \/ stages.tool.repaired
  <2>1. "repair_used" \in reasons
    BY <1>5 DEF ReviewReasons
  <2> QED BY <2>1
<1>6. CASE Overridden(security.signal, risky)
  <2>1. source = "security_override"
    BY <1>6 DEF Source
  <2>2. "security_override" \in reasons
    BY <2>1 DEF ReviewReasons
  <2> QED BY <2>2
<1> QED BY <1>2, <1>4, <1>5, <1>6 DEF Doubts

\* A decision that rests on a fallback, a repair or an override goes to the
\* review queue (review.py:65).
THEOREM DoubtIsReviewedHolds == Spec => []DoubtIsReviewed
<1>1. ReportIsMade => DoubtIsReviewed
  BY DoubtIsAReason DEF ReportIsMade, DoubtIsReviewed
<1> QED BY <1>1, ReportIsMadeHolds, PTL

(***************************************************************************)
(* Corrections.  A developer who was told that a correction is recorded,   *)
(* also because it is a duplicate, finds its case in every later replay,   *)
(* unless a crash or newer cases took it.                                  *)
(***************************************************************************)
ObjectedTexts == {correction.text : correction \in Corrections}
Expectations  == {correction.expected : correction \in Corrections}
Known         == [id : Nat, expected : Expectations]
FeedbackIds   == [decision : Nat, expected : Expectations]
CaseRecords   == [text : ObjectedTexts, expected : Expectations, category : {"regression_cases"}]

IsRecorded(c) == CaseOf(c.id, c.expected) \in Range(cases)

FilesAreTyped ==
    /\ objected \in Seq(ObjectedTexts) /\ Len(objected) <= MaxObjections
    /\ feedback \in Seq(FeedbackIds)
    /\ cases \in Seq(CaseRecords) /\ Len(cases) <= MaxCases
    /\ promised \in SUBSET Known
    /\ \A c \in promised : c.id \in DOMAIN objected
    /\ correcting # NoCorrection => correcting \in Known /\ correcting.id \in DOMAIN objected

PromisesInv ==
    /\ FilesAreTyped
    /\ \A c \in promised \ lost : IsRecorded(c)
    \* What makes a repeated correction a duplicate is on its way or was promised.
    /\ \A c \in Known : FeedbackId(c.id, c.expected) \in Range(feedback) =>
           c \in promised \cup lost \/ (correcting # NoCorrection /\ c = correcting)

\* What Appended leaves in a file.
LEMMA AppendedFile ==
    ASSUME NEW S, NEW file \in Seq(S), NEW r \in S
    PROVE  /\ Appended(file, r) \in Seq(S) /\ Len(Appended(file, r)) <= MaxCases
           /\ r \in Range(Appended(file, r))
           /\ Range(Appended(file, r)) \subseteq Range(file) \cup {r}
<1> DEFINE longer == Append(file, r)
           kept == IF Len(longer) > MaxCases THEN MaxCases ELSE Len(longer)
           first == 1 + Len(longer) - kept
           new == SubSeq(longer, first, Len(longer))
<1>1. MaxCases \in Nat \ {0}
  BY ReleaseAssumption
<1>2. /\ longer \in Seq(S) /\ Len(longer) = Len(file) + 1 /\ Len(file) \in Nat
      /\ longer[Len(longer)] = r /\ \A i \in 1..Len(file) : longer[i] = file[i]
  OBVIOUS
<1> HIDE DEF longer
<1>3. /\ kept \in 1..Len(longer) /\ kept <= MaxCases
      /\ first \in 1..Len(longer) /\ Len(longer) - first + 1 = kept
  <2>1. \A n, m \in Nat \ {0} : LET k == IF n > m THEN m ELSE n
                               IN  /\ k \in 1..n /\ k <= m
                                   /\ 1 + n - k \in 1..n /\ n - (1 + n - k) + 1 = k
    OBVIOUS
  <2>2. Len(longer) \in Nat \ {0}
    BY <1>2
  <2> QED BY <1>1, <2>1, <2>2
<1> HIDE DEF kept, first
<1>4. /\ new \in Seq(S) /\ Len(new) = kept
      /\ \A i \in 1..kept : new[i] = longer[first + i - 1]
  <2>1. /\ Len(longer) \in Int /\ first \in Int /\ first <= Len(longer)
        /\ \A i \in first..Len(longer) : longer[i] \in S
    BY <1>2, <1>3
  <2>2. /\ new \in Seq(S) /\ Len(new) = Len(longer) - first + 1
        /\ \A i \in 1..(Len(longer) - first + 1) : new[i] = longer[first + i - 1]
    BY <2>1, SubSeqProperties
  <2> QED BY <1>3, <2>2
<1> HIDE DEF new
<1>5. Appended(file, r) = new
  BY DEF Appended, longer, kept, first, new
<1>6. r = new[kept] /\ kept \in DOMAIN new
  <2>1. first + kept - 1 = Len(longer) /\ kept \in 1..kept
    BY <1>2, <1>3
  <2> QED BY <1>2, <1>4, <2>1
<1>7. ASSUME NEW i \in DOMAIN new PROVE new[i] \in Range(file) \cup {r}
  <2>1. first + i - 1 \in 1..Len(longer) /\ new[i] = longer[first + i - 1]
    BY <1>2, <1>3, <1>4
  <2> QED BY <1>2, <2>1 DEF Range
<1> QED BY <1>3, <1>4, <1>5, <1>6, <1>7 DEF Range

\* A write that was cut short leaves nothing that was not in the file.
LEMMA TornFile ==
    ASSUME NEW S, NEW file \in Seq(S), NEW left \in Torn(file)
    PROVE  left \in Seq(S) /\ Len(left) <= Len(file) /\ Range(left) \subseteq Range(file)
<1>1. PICK n \in 0..Len(file) : left = SubSeq(file, 1, n)
  BY DEF Torn
<1>2. /\ 1 \in Int /\ n \in Int /\ n <= Len(file) /\ n \in Nat /\ Len(file) \in Nat
      /\ \A i \in 1..n : i \in 1..Len(file) /\ file[i] \in S
  BY <1>1
<1>3. /\ left \in Seq(S) /\ Len(left) = n /\ \A i \in 1..n : left[i] = file[i]
  <2>1. CASE n = 0
    BY <1>1, <1>2, <2>1
  <2>2. CASE n # 0
    BY <1>1, <1>2, <2>2, SubSeqProperties
  <2> QED BY <2>1, <2>2
<1> QED BY <1>2, <1>3 DEF Range

\* The case of a correction is a record, and stays what it is: decisions that
\* were objected to are only added to.
LEMMA CasesAreRecords ==
    ASSUME FilesAreTyped, NEW id \in DOMAIN objected, NEW e \in Expectations
    PROVE  CaseOf(id, e) \in CaseRecords
<1>1. objected[id] \in ObjectedTexts
  BY DEF FilesAreTyped
<1> QED BY <1>1 DEF CaseOf, CaseRecords

\* A case written to the file, or half of such a file, keeps every promise, as
\* far as its case is not gone.
LEMMA WritingKeepsPromises ==
    ASSUME PromisesInv, NEW record \in CaseRecords,
           cases' \in Torn(Appended(cases, record)), Missing(promised, cases') \subseteq lost',
           UNCHANGED objected
    PROVE  /\ cases' \in Seq(CaseRecords) /\ Len(cases') <= MaxCases
           /\ \A c \in promised \ lost' : IsRecorded(c)'
<1>1. cases \in Seq(CaseRecords)
  BY DEF PromisesInv, FilesAreTyped
<1>2. Appended(cases, record) \in Seq(CaseRecords) /\ Len(Appended(cases, record)) <= MaxCases
  BY <1>1, AppendedFile
<1>3. cases' \in Seq(CaseRecords) /\ Len(cases') <= Len(Appended(cases, record))
  BY <1>2, TornFile
<1>4. Len(cases') <= MaxCases
  BY <1>2, <1>3, ReleaseAssumption
<1>5. ASSUME NEW c \in promised \ lost' PROVE IsRecorded(c)'
  BY <1>5 DEF Missing, IsRecorded, CaseOf
<1> QED BY <1>3, <1>4, <1>5

\* The whole file is one of those.
LEMMA WholeFile ==
    ASSUME NEW S, NEW file \in Seq(S)
    PROVE  file \in Torn(file)
<1>1. file = SubSeq(file, 1, Len(file)) /\ Len(file) \in 0..Len(file)
  OBVIOUS
<1> QED BY <1>1 DEF Torn

LEMMA PromisesInvHolds == Spec => []PromisesInv
<1>1. Init => PromisesInv
  BY ReleaseAssumption DEF Init, PromisesInv, FilesAreTyped, Range
<1>2. PromisesInv /\ [Next]_vars => PromisesInv'
  <2> SUFFICES ASSUME PromisesInv, [Next]_vars PROVE PromisesInv'
    OBVIOUS
  <2> USE DEF PromisesInv
  <2>1. CASE \E t \in Texts : Classify(t)
    BY <2>1 DEF Classify, caseVars, FilesAreTyped, IsRecorded, CaseOf
  <2>2. CASE EndRun
    <3>1. UNCHANGED caseVars
      BY <2>2 DEF EndRun
    <3>2. CASE UNCHANGED objected
      BY <3>1, <3>2 DEF caseVars, FilesAreTyped, IsRecorded, CaseOf
    <3>3. CASE /\ Len(objected) < MaxObjections
               /\ report.text \in ObjectedTexts
               /\ objected' = Append(objected, report.text)
      <4>1. /\ objected' \in Seq(ObjectedTexts) /\ Len(objected') <= MaxObjections
            /\ DOMAIN objected \subseteq DOMAIN objected'
            /\ \A id \in DOMAIN objected : objected'[id] = objected[id]
        BY <3>3, ReleaseAssumption DEF FilesAreTyped
      <4>2. FilesAreTyped'
        BY <3>1, <4>1 DEF caseVars, FilesAreTyped
      <4>3. ASSUME NEW c \in promised PROVE IsRecorded(c)' = IsRecorded(c)
        BY <3>1, <4>1, <4>3 DEF caseVars, FilesAreTyped, IsRecorded, CaseOf
      <4> QED BY <3>1, <4>2, <4>3 DEF caseVars
    <3> QED BY <2>2, <3>2, <3>3 DEF EndRun, ObjectedTexts
  <2>3. ASSUME NEW id \in DOMAIN objected, NEW correction \in Corrections,
               Correct(id, correction.expected)
        PROVE  PromisesInv'
    <3> DEFINE e == correction.expected
               c == [id |-> id, expected |-> e]
    <3>1. e \in Expectations /\ id \in 1..MaxObjections /\ id \in Nat
      BY ReleaseAssumption DEF Expectations, FilesAreTyped
    <3>2. c \in Known /\ c # NoCorrection
      BY <3>1, NoCorrectionAssumption DEF Known
    <3>3. UNCHANGED <<objected, cases, lost>> /\ correcting = NoCorrection
      BY <2>3 DEF Correct, routerVars
    <3>4. CASE FeedbackId(id, e) \in Range(feedback)
      <4>1. promised' = promised \cup {c} /\ UNCHANGED <<feedback, correcting>>
        BY <2>3, <3>4 DEF Correct
      <4>2. c \in promised \cup lost
        BY <3>2, <3>3, <3>4
      <4>3. FilesAreTyped'
        BY <3>2, <3>3, <4>1 DEF FilesAreTyped
      <4> QED BY <3>3, <4>1, <4>2, <4>3 DEF IsRecorded, CaseOf
    <3>5. CASE FeedbackId(id, e) \notin Range(feedback)
      <4>1. /\ feedback' = Appended(feedback, FeedbackId(id, e))
            /\ correcting' = c /\ UNCHANGED promised
        BY <2>3, <3>5 DEF Correct
      <4>2. FeedbackId(id, e) \in FeedbackIds
        BY <3>1 DEF FeedbackId, FeedbackIds
      <4>3. /\ feedback' \in Seq(FeedbackIds)
            /\ Range(feedback') \subseteq Range(feedback) \cup {FeedbackId(id, e)}
        BY <4>1, <4>2, AppendedFile DEF FilesAreTyped
      <4>4. FilesAreTyped'
        BY <3>2, <3>3, <4>1, <4>3 DEF FilesAreTyped
      <4>5. ASSUME NEW d \in Known, FeedbackId(d.id, d.expected) \in Range(feedback')
            PROVE  d \in promised \cup lost \/ d = c
        <5>1. CASE FeedbackId(d.id, d.expected) = FeedbackId(id, e)
          BY <5>1 DEF FeedbackId, Known
        <5> QED BY <3>3, <4>3, <4>5, <5>1
      <4> QED BY <3>2, <3>3, <4>1, <4>4, <4>5 DEF IsRecorded, CaseOf
    <3> QED BY <3>4, <3>5
  <2>4. CASE AppendCase
    <3> DEFINE record == CaseOf(correcting.id, correcting.expected)
    <3>1. /\ cases' = Appended(cases, record) /\ promised' = promised \cup {correcting}
          /\ lost' = lost \cup Missing(promised, cases') /\ correcting' = NoCorrection
          /\ correcting # NoCorrection /\ UNCHANGED <<objected, feedback>>
      BY <2>4 DEF AppendCase, routerVars
    <3>2. correcting \in Known /\ correcting.id \in DOMAIN objected
      BY <3>1 DEF FilesAreTyped
    <3>3. record \in CaseRecords
      BY <3>2, CasesAreRecords DEF Known
    <3>7. /\ cases' \in Seq(CaseRecords) /\ record \in Range(cases')
      BY <3>1, <3>3, AppendedFile DEF FilesAreTyped
    <3>4. /\ cases' \in Seq(CaseRecords) /\ Len(cases') <= MaxCases
          /\ \A c \in promised \ lost' : IsRecorded(c)'
      BY <3>1, <3>3, <3>7, WholeFile, WritingKeepsPromises
    <3>5. \A c \in promised' \ lost' : IsRecorded(c)'
      BY <3>1, <3>4, <3>7 DEF IsRecorded, CaseOf
    <3>6. FilesAreTyped'
      BY <3>1, <3>2, <3>4 DEF FilesAreTyped
    <3> QED BY <3>1, <3>5, <3>6
  <2>5. CASE CommandDies
    <3> DEFINE record == CaseOf(correcting.id, correcting.expected)
    <3>1. /\ correcting # NoCorrection /\ correcting' = NoCorrection
          /\ lost' = lost \cup {correcting} \cup Missing(promised, cases')
          /\ UNCHANGED <<objected, promised>>
      BY <2>5 DEF CommandDies, routerVars
    <3>2. record \in CaseRecords
      BY <3>1, CasesAreRecords DEF FilesAreTyped, Known
    <3>3. CASE feedback' \in Torn(feedback) /\ UNCHANGED cases
      <4>1. feedback' \in Seq(FeedbackIds) /\ Range(feedback') \subseteq Range(feedback)
        BY <3>3, TornFile DEF FilesAreTyped
      <4>2. FilesAreTyped'
        BY <3>1, <3>3, <4>1 DEF FilesAreTyped
      <4>3. \A c \in promised' \ lost' : IsRecorded(c)'
        BY <3>1, <3>3 DEF IsRecorded, CaseOf
      <4>4. \A c \in Known : FeedbackId(c.id, c.expected) \in Range(feedback') =>
               c \in promised' \cup lost'
        BY <3>1, <4>1
      <4> QED BY <3>1, <4>2, <4>3, <4>4 DEF FeedbackId
    <3>4. CASE cases' \in Torn(Appended(cases, record)) /\ UNCHANGED feedback
      <4>1. /\ cases' \in Seq(CaseRecords) /\ Len(cases') <= MaxCases
            /\ \A c \in promised \ lost' : IsRecorded(c)'
        BY <3>1, <3>2, <3>4, WritingKeepsPromises
      <4>2. FilesAreTyped'
        BY <3>1, <3>4, <4>1 DEF FilesAreTyped
      <4> QED BY <3>1, <3>4, <4>1, <4>2
    <3> QED BY <2>5, <3>3, <3>4 DEF CommandDies
  <2>6. ASSUME NEW correction \in Corrections, AppendFeedback(correction) PROVE PromisesInv'
    <3> DEFINE record == [text |-> correction.text, expected |-> correction.expected,
                          category |-> "regression_cases"]
    <3>1. /\ cases' \in Torn(Appended(cases, record))
          /\ lost' = lost \cup Missing(promised, cases')
          /\ UNCHANGED <<objected, feedback, correcting, promised>>
      BY <2>6 DEF AppendFeedback, routerVars
    <3>2. record \in CaseRecords
      BY DEF CaseRecords, ObjectedTexts, Expectations
    <3> HIDE DEF record
    <3>3. /\ cases' \in Seq(CaseRecords) /\ Len(cases') <= MaxCases
          /\ \A c \in promised \ lost' : IsRecorded(c)'
      BY <3>1, <3>2, WritingKeepsPromises
    <3>4. FilesAreTyped'
      BY <3>1, <3>3 DEF FilesAreTyped
    <3> QED BY <3>1, <3>3, <3>4
  <2>7. CASE Gate
    BY <2>7 DEF Gate, routerVars, caseVars, FilesAreTyped, IsRecorded, CaseOf
  <2>8. CASE UNCHANGED vars
    BY <2>8 DEF vars, FilesAreTyped, IsRecorded, CaseOf
  <2> QED BY <2>1, <2>2, <2>3, <2>4, <2>5, <2>6, <2>7, <2>8 DEF Next
<1> QED BY <1>1, <1>2, PTL DEF Spec

\* Every correction a developer was told is recorded is in the dataset of the
\* next replay, also one answered as a duplicate, but for a crash between the
\* two appends and for newer cases (feedback.py, eval_runner.py).
PromisesAreReplayed ==
    \A c \in promised \ lost : \E i \in DOMAIN Dataset : Dataset[i] = CaseOf(c.id, c.expected)

THEOREM CorrectionsAreReplayed == Spec => []PromisesAreReplayed
<1>1. PromisesInv => PromisesAreReplayed
  BY DEF PromisesInv, PromisesAreReplayed, IsRecorded, Dataset, Range
<1> QED BY <1>1, PromisesInvHolds, PTL

\* A rate at or above a floor leaves at most the rest to failures.
LEMMA FloorBoundsFailures ==
    ASSUME NEW n \in Nat \ {0}, NEW f \in Nat, f <= n, NEW floor \in 0..100,
           (1000 * (n - f)) \div n >= 10 * floor
    PROVE  100 * f <= (100 - floor) * n
<1> DEFINE q == (1000 * (n - f)) \div n
<1>1. q \in Int /\ q * n <= 1000 * (n - f)
  OBVIOUS
<1>2. q >= 10 * floor
  OBVIOUS
<1> HIDE DEF q
<1>3. (10 * floor) * n <= q * n
  BY <1>1, <1>2
<1>4. (10 * floor) * n <= 1000 * (n - f)
  BY <1>1, <1>3
<1> QED BY <1>4

\* What was ignored is among the cases the replay got wrong.
LEMMA IgnoredWereReplayed ==
    ASSUME PromisesInv, NEW answers, Ignored(answers) # {}
    PROVE  /\ Dataset = cases /\ cases # <<>>
           /\ Ignored(answers) \subseteq {Dataset[i] : i \in {j \in DOMAIN Dataset : answers[j] # Fields}}
<1>1. ASSUME NEW case \in Ignored(answers)
      PROVE  \E i \in DOMAIN cases : cases[i] = case
  BY <1>1 DEF Ignored, PromisesInv, IsRecorded, Range
<1>2. cases # <<>> /\ Dataset = cases
  BY <1>1 DEF Dataset
<1>3. ASSUME NEW case \in Ignored(answers)
      PROVE  \E i \in DOMAIN Dataset : Dataset[i] = case /\ answers[i] # Fields
  <2>1. PICK i \in DOMAIN Dataset : Dataset[i] = case
    BY <1>1, <1>2
  <2>2. answers[i] # Fields
    BY <2>1 DEF Ignored
  <2> QED BY <2>1, <2>2
<1> QED BY <1>2, <1>3

LEMMA PassedReplayIgnoresFew ==
    ASSUME PromisesInv, NEW answers \in Replays, MeetsFloors(EvalRun(answers)),
           NEW floor \in {Limits.overall, Limits.category}
    PROVE  100 * Cardinality(Ignored(answers)) <= (100 - floor) * Len(Dataset)
<1>0. floor \in 0..100
  BY ReleaseAssumption
<1>1. CASE Ignored(answers) = {}
  <2>1. Len(Dataset) \in Nat
    BY ReleaseAssumption DEF Dataset, PromisesInv, FilesAreTyped
  <2>2. Cardinality(Ignored(answers)) = 0
    BY <1>1, FS_EmptySet
  <2> QED BY <1>0, <2>1, <2>2
<1>2. CASE Ignored(answers) # {}
  <2> DEFINE all == DOMAIN answers
             good == {i \in all : answers[i] = Fields}
             failed == {i \in all : answers[i] # Fields}
             n == Len(Dataset)
  <2>1. /\ Dataset = cases /\ cases # <<>> /\ cases \in Seq(CaseRecords)
        /\ Ignored(answers) \subseteq {Dataset[i] : i \in {j \in DOMAIN Dataset : answers[j] # Fields}}
    BY <1>2, IgnoredWereReplayed DEF PromisesInv, FilesAreTyped
  <2>2. all = 1..n /\ n \in Nat \ {0}
    BY <2>1 DEF Replays
  <2>3. IsFiniteSet(all) /\ Cardinality(all) = n
    <3>1. \A k \in Nat : IsFiniteSet(1..k) /\ Cardinality(1..k) = k
      BY FS_Interval
    <3> QED BY <2>2, <3>1
  <2>4. /\ IsFiniteSet(good) /\ IsFiniteSet(failed)
        /\ Cardinality(good) \in Nat /\ Cardinality(failed) \in Nat
        /\ Cardinality(good) = n - Cardinality(failed)
    <3>1. good = all \ failed /\ all \cap failed = failed /\ failed \in SUBSET all
      OBVIOUS
    <3> HIDE DEF all, good, failed, n
    <3>2. IsFiniteSet(failed) /\ IsFiniteSet(good)
      BY <2>3, <3>1, FS_Subset, FS_Difference
    <3>3. Cardinality(all \ failed) = Cardinality(all) - Cardinality(all \cap failed)
      BY <2>3, FS_Difference
    <3> QED BY <2>3, <3>1, <3>2, <3>3, FS_CardinalityType
  <2>5. Cardinality(Ignored(answers)) <= Cardinality(failed)
        /\ Cardinality(Ignored(answers)) \in Nat
    <3> DEFINE f == [i \in failed |-> Dataset[i]]
               wrong == {Dataset[i] : i \in failed}
    <3>1. f \in Surjection(failed, wrong)
      BY DEF Surjection
    <3>2. all = DOMAIN Dataset
      BY <2>1, <2>2
    <3>3. Ignored(answers) \in SUBSET wrong
      BY <2>1, <3>2
    <3> HIDE DEF f, wrong, failed, all
    <3>4. IsFiniteSet(wrong) /\ Cardinality(wrong) <= Cardinality(failed)
      BY <2>4, <3>1, FS_Surjection
    <3>5. /\ IsFiniteSet(Ignored(answers)) /\ Cardinality(Ignored(answers)) <= Cardinality(wrong)
      BY <3>3, <3>4, FS_Subset
    <3> QED BY <2>4, <3>4, <3>5, FS_CardinalityType
  <2>6. Rate(good, all) >= 10 * floor
    <3>1. CASE floor = Limits.overall
      <4>1. EvalRun(answers).metrics = Metrics(answers)
        BY DEF EvalRun
      <4>2. "pass_rate" \in DOMAIN Metrics(answers) /\ Metrics(answers)["pass_rate"] = Rate(good, all)
        BY DEF Metrics
      <4> HIDE DEF good, all
      <4> QED BY <3>1, <4>1, <4>2 DEF MeetsFloors
    <3>2. CASE floor = Limits.category
      <4> DEFINE own == {i \in DOMAIN Dataset : Dataset[i].category = "regression_cases"}
      <4>1. ASSUME NEW i \in DOMAIN Dataset PROVE Dataset[i].category = "regression_cases"
        <5>1. cases[i] \in CaseRecords
          BY <2>1
        <5> QED BY <2>1, <5>1 DEF CaseRecords
      <4>2. own = all
        BY <2>1, <2>2, <4>1
      <4>3. 1 \in DOMAIN Dataset
        BY <2>1
      <4>4. "regression_cases" \in {Dataset[i].category : i \in DOMAIN Dataset}
        BY <4>1, <4>3
      <4>5. /\ "regression_cases" \in DOMAIN CategoryMetrics(answers)
            /\ CategoryMetrics(answers)["regression_cases"]
                  = Rate({i \in own : answers[i] = Fields}, own)
        BY <4>4 DEF CategoryMetrics
      <4>6. EvalRun(answers).categories = CategoryMetrics(answers)
        BY DEF EvalRun
      <4>7. CategoryFloor("regression_cases") = Limits.category
        BY DEF CategoryFloor, Strict
      <4>8. {i \in own : answers[i] = Fields} = good
        BY <4>2
      <4> HIDE DEF own, good, all
      <4> QED BY <3>2, <4>2, <4>5, <4>6, <4>7, <4>8 DEF MeetsFloors
    <3> QED BY <3>1, <3>2
  <2>7. Rate(good, all) = (1000 * (n - Cardinality(failed))) \div n
    <3>1. all # {}
      BY <2>2
    <3> HIDE DEF good, all, failed, n
    <3> QED BY <2>3, <2>4, <3>1 DEF Rate
  <2> HIDE DEF good, all, failed
  <2>8. 100 * Cardinality(failed) <= (100 - floor) * n
    <3>1. Cardinality(failed) <= n
      BY <2>2, <2>4
    <3>2. n \in Nat \ {0} /\ Cardinality(failed) \in Nat
      BY <2>2, <2>4
    <3> HIDE DEF n
    <3>3. (1000 * (n - Cardinality(failed))) \div n >= 10 * floor
      BY <2>6, <2>7
    <3> QED BY <1>0, <3>1, <3>2, <3>3, FloorBoundsFailures
  <2>9. (100 - floor) * n \in Int
    BY <1>0, <2>2
  <2> HIDE DEF n
  <2>10. 100 * Cardinality(Ignored(answers)) <= (100 - floor) * n
    BY <2>4, <2>5, <2>8, <2>9
  <2> QED BY <2>10 DEF n
<1> QED BY <1>1, <1>2

\* For any number of kept cases and any floors, a release that passes its replay
\* ignores no more of the recorded corrections than the floors leave open; one
\* that is not even replayed counts as ignored (feedback.py, regression_gate.py).
THEOREM PassedReplaysHonour == Spec => []PassedReplayHonoursCorrections
<1> USE DEF PassedReplayHonoursCorrections
<1>1. ASSUME Init PROVE PassedReplayHonoursCorrections
  BY <1>1 DEF Init
<1>2. ASSUME PromisesInv, PassedReplayHonoursCorrections, [Next]_vars
      PROVE  PassedReplayHonoursCorrections'
  <2>1. CASE Gate
    <3>1. PICK answers \in Replays :
              verdict' = [passed |-> MeetsFloors(EvalRun(answers)), replayed |-> Len(Dataset),
                          ignored |-> Cardinality(Ignored(answers))]
      BY <2>1 DEF Gate
    <3>2. ASSUME MeetsFloors(EvalRun(answers)), NEW floor \in {Limits.overall, Limits.category}
          PROVE  100 * Cardinality(Ignored(answers)) <= (100 - floor) * Len(Dataset)
      BY <1>2, <3>2, PassedReplayIgnoresFew
    <3> QED BY <3>1, <3>2
  <2>2. CASE \E id \in DOMAIN objected, correction \in Corrections :
                Correct(id, correction.expected)
    BY <2>2 DEF Correct
  <2>3. CASE UNCHANGED verdict
    BY <1>2, <2>3
  <2>4. CASE \E correction \in Corrections : AppendFeedback(correction)
    BY <2>4 DEF AppendFeedback
  <2> QED BY <1>2, <2>1, <2>2, <2>3, <2>4
          DEF Next, Classify, EndRun, AppendCase, CommandDies, vars
<1> QED BY <1>1, <1>2, PromisesInvHolds, PTL DEF Spec
=============================================================================

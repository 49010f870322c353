-------------------------- MODULE PatchPlansProofs --------------------------
(***************************************************************************)
(* Theorems about PatchPlans for any projects, files, fragments, patches   *)
(* and bounds: an approved plan meets the very text its human saw, or what *)
(* came later than every check, and is not applied a second time by an     *)
(* executor that runs again.                                               *)
(***************************************************************************)
EXTENDS PatchPlans, SubsequencesProofs, SequenceTheorems, TLAPS

MaybeText == Texts \cup {None}
PlanType == [patch : Patches, validated : BOOLEAN, hash : MaybeText]
ChangeType ==
    [path : Paths, before : MaybeText, after : MaybeText, from : Projects \X Paths]
Steps == {"ready", "approved", "snapshot", "check", "revalidate", "read", "write", "record",
          "restore"}

\* What the files, the plans and the history hold.
DataType ==
    /\ files \in [Projects \X Paths -> MaybeText]
    /\ active \in Projects
    /\ plans \in Seq(PlanType) /\ reviewed \in Seq(MaybeText)
    /\ Len(reviewed) = Len(plans)
    /\ history \in Seq(ChangeType)
    /\ edits \in Nat

\* The call and how far it is.
CallKnown ==
    /\ at \in Steps
    /\ call \in CallType \cup {None}
    /\ at = "ready" <=> call = None
    /\ call # None => (call.tool = "rollback" <=> call.content # None)
    /\ call # None /\ IsPlanCall => call.plan \in DOMAIN plans /\ call.path = Plan.patch.path
    /\ before \in MaybeText

\* What a step relies on.
StepType ==
    /\ at \in {"check", "revalidate"} => IsPlanCall
    /\ at = "restore" => call.tool = "rollback"
    /\ at = "write" =>
        /\ read \in [where : Projects \X Paths, text : Texts]
        /\ IsPlanCall => Applicable(read.text, Plan.patch)

IInv == DataType /\ CallKnown /\ StepType

---------------------------------------------------------------------------
(* Texts.                                                                  *)

\* A patched text is a text, it is another one, and it differs from the
\* first in the counts of the patch's own fragments only.
LEMMA PatchedText ==
    ASSUME NEW text \in Texts, NEW patch \in Patches, Applicable(text, patch)
    PROVE  /\ Patched(text, patch) \in Texts
           /\ Patched(text, patch) # text
           /\ \A f \in Fragments \ {patch.old, patch.new} : Patched(text, patch)[f] = text[f]
<1>1. patch.old \in Fragments /\ patch.new \in Fragments /\ patch.keeps \in BOOLEAN
  BY PatchesAssumption
<1>2. text \in [Fragments -> Nat]
  BY DEF Texts
<1> DEFINE added == [text EXCEPT ![patch.new] = @ + 1]
<1>3. /\ added \in [Fragments -> Nat] /\ added[patch.new] = text[patch.new] + 1
      /\ \A f \in Fragments \ {patch.new} : added[f] = text[f]
  BY <1>1, <1>2
<1>4. CASE patch.keeps
  <2>1. Patched(text, patch) = added
    BY <1>4 DEF Patched
  <2>2. added # text
    BY <1>1, <1>2, <1>3
  <2> QED BY <2>1, <2>2, <1>3 DEF Texts
<1>5. CASE ~patch.keeps
  <2> DEFINE taken == [added EXCEPT ![patch.old] = @ - 1]
  <2>1. patch.old # patch.new /\ text[patch.old] = 1
    BY <1>5 DEF Applicable
  <2>2. Patched(text, patch) = taken
    BY <1>5 DEF Patched
  <2>3. added[patch.old] = 1
    BY <2>1, <1>1, <1>3
  <2>4. /\ taken \in [Fragments -> Nat] /\ taken[patch.new] = text[patch.new] + 1
        /\ \A f \in Fragments \ {patch.old, patch.new} : taken[f] = text[f]
    BY <2>1, <2>3, <1>1, <1>3
  <2>5. taken # text
    BY <2>4, <1>1, <1>2
  <2> QED BY <2>2, <2>4, <2>5 DEF Texts
<1> QED BY <1>1, <1>4, <1>5

\* So is a formatted one.
LEMMA FormattedText ==
    ASSUME NEW text \in Texts
    PROVE  /\ Formatted(text) \in Texts
           /\ \A f \in Fragments \ {Trailing} : Formatted(text)[f] = text[f]
BY PatchesAssumption DEF Texts, Formatted

---------------------------------------------------------------------------
(* Types.                                                                  *)

LEMMA InitTypes == Init => IInv
<1> SUFFICES ASSUME Init PROVE IInv
  OBVIOUS
<1>1. DataType
  BY PatchesAssumption, EmptySeq DEF Init, DataType, MaybeText
<1>2. CallKnown /\ StepType
  BY DEF Init, CallKnown, StepType, Steps, MaybeText
<1> QED BY <1>1, <1>2 DEF IInv

\* The files of the active project.
LEMMA TextOfType ==
    ASSUME DataType, NEW p \in Paths
    PROVE  /\ Resolve(p) \in Projects \X Paths
           /\ TextOf(p) \in MaybeText
           /\ Exists(p) => TextOf(p) \in Texts
BY DEF DataType, TextOf, Resolve, Exists, MaybeText

\* What validation makes of a plan.
LEMMA ValidatedType ==
    ASSUME NEW plan \in PlanType, NEW text \in Texts
    PROVE  /\ Validated(plan, text) \in PlanType
           /\ Validated(plan, text).patch = plan.patch
           /\ Validated(plan, text).validated => Validated(plan, text).hash = text
           /\ Validated(plan, text).validated => Applicable(text, plan.patch)
<1>1. Applicable(text, plan.patch) \in BOOLEAN
  BY PatchesAssumption DEF Applicable, PlanType
<1> DEFINE ok == Applicable(text, plan.patch)
           result == [plan EXCEPT !.validated = ok, !.hash = IF ok THEN text ELSE None]
<1>2. Validated(plan, text) = result
  BY DEF Validated
<1>3. /\ result \in PlanType /\ result.patch = plan.patch /\ result.validated = ok
      /\ ok => result.hash = text
  <2> HIDE DEF ok
  <2>1. ok \in BOOLEAN
    BY <1>1 DEF ok
  <2> QED BY <2>1 DEF PlanType, MaybeText
<1> QED BY <1>2, <1>3

LEMMA CallsType ==
    ASSUME IInv, NEW c \in Calls \cup Rollbacks
    PROVE  /\ c \in CallType
           /\ c.tool = "rollback" <=> c.content # None
           /\ c.tool = "apply_patch_plan" =>
                c.plan \in DOMAIN plans /\ c.path = plans[c.plan].patch.path
<1> USE DEF IInv, DataType
<1>1. CASE \E i \in DOMAIN plans : c = Call("apply_patch_plan", i, plans[i].patch.path)
  <2> PICK i \in DOMAIN plans : c = Call("apply_patch_plan", i, plans[i].patch.path)
    BY <1>1
  <2>1. plans[i].patch \in Patches
    <3>1. plans[i] \in PlanType
      OBVIOUS
    <3> QED BY <3>1 DEF PlanType
  <2>2. plans[i].patch.path \in Paths /\ i \in Nat
    BY <2>1, PatchesAssumption
  <2> QED BY <2>2 DEF Call, CallType
<1>2. CASE \E p \in Paths : c = Call("format_apply", None, p)
  BY <1>2 DEF Call, CallType
<1>3. CASE c \in Rollbacks
  <2>1. history # <<>> /\ Last(history).before # None /\ c = Rollback(Last(history))
    BY <1>3 DEF Rollbacks
  <2>2. Last(history) \in ChangeType
    BY <2>1 DEF Last
  <2> QED BY <2>1, <2>2 DEF Rollback, CallType, ChangeType, MaybeText
<1> QED BY <1>1, <1>2, <1>3 DEF Calls

\* The call that is being executed.
LEMMA CallFacts ==
    ASSUME IInv, at # "ready"
    PROVE  /\ call \in CallType /\ call # None /\ call.path \in Paths
           /\ IsPlanCall => Plan \in PlanType /\ Plan.patch \in Patches /\ call.plan \in DOMAIN plans
<1>1. call \in CallType /\ call # None
  BY DEF IInv, CallKnown
<1>2. call.path \in Paths
  BY <1>1 DEF CallType
<1>3. ASSUME IsPlanCall PROVE call.plan \in DOMAIN plans /\ Plan \in PlanType
  BY <1>1, <1>3 DEF IInv, CallKnown, DataType, Plan
<1> QED BY <1>1, <1>2, <1>3 DEF PlanType

\* Calls that prepare a change.
LEMMA PrepareTypes ==
    ASSUME IInv, PatchPlanTool \/ ValidatePatchPlanTool \/ Approve
    PROVE  IInv'
<1> USE DEF IInv
<1>1. CASE PatchPlanTool
  <2>1. at = "ready" /\ call = None /\ SameRun
    BY <1>1 DEF PatchPlanTool, Counted, CallKnown
  <2>2. PICK patch \in Patches :
            plans' = Append(plans, [patch |-> patch, validated |-> FALSE, hash |-> None])
    BY <1>1 DEF PatchPlanTool
  <2>3. [patch |-> patch, validated |-> FALSE, hash |-> None] \in PlanType
    BY DEF PlanType, MaybeText
  <2>4. DataType'
    BY <1>1, <2>1, <2>2, <2>3 DEF PatchPlanTool, SameRun, DataType, MaybeText
  <2>5. CallKnown' /\ StepType'
    BY <2>1 DEF SameRun, CallKnown, StepType
  <2> QED BY <2>4, <2>5
<1>2. CASE ValidatePatchPlanTool
  <2>1. at = "ready" /\ call = None /\ SameRun
    BY <1>2 DEF ValidatePatchPlanTool, Counted, CallKnown
  <2>2. PICK i \in DOMAIN plans :
            LET text == TextOf(plans[i].patch.path)
            IN  /\ text # None
                /\ plans' = [plans EXCEPT ![i] = Validated(@, text)]
                /\ reviewed' = [reviewed EXCEPT ![i] = text]
    BY <1>2 DEF ValidatePatchPlanTool
  <2>3. plans[i] \in PlanType /\ plans[i].patch.path \in Paths
    <3>1. plans[i] \in PlanType
      BY DEF DataType
    <3>2. plans[i].patch \in Patches
      BY <3>1 DEF PlanType
    <3> QED BY <3>1, <3>2, PatchesAssumption
  <2> DEFINE text == TextOf(plans[i].patch.path)
  <2>4. text \in Texts
    BY <2>2, <2>3, TextOfType DEF Exists
  <2>5. Validated(plans[i], text) \in PlanType
    BY <2>3, <2>4, ValidatedType
  <2>6. plans' = [plans EXCEPT ![i] = Validated(plans[i], text)] /\ reviewed' = [reviewed EXCEPT ![i] = text]
    BY <2>2
  <2>7. plans' \in Seq(PlanType) /\ reviewed' \in Seq(MaybeText) /\ Len(reviewed') = Len(plans')
    <3> HIDE DEF text
    <3> QED BY <2>4, <2>5, <2>6 DEF DataType, MaybeText
  <2>8. DataType'
    BY <1>2, <2>1, <2>7 DEF ValidatePatchPlanTool, SameRun, DataType
  <2>9. CallKnown' /\ StepType'
    BY <2>1 DEF SameRun, CallKnown, StepType
  <2> QED BY <2>8, <2>9
<1>3. CASE Approve
  <2>1. PICK c \in Calls \cup Rollbacks : call' = c
    BY <1>3 DEF Approve
  <2>2. /\ c \in CallType
        /\ c.tool = "rollback" <=> c.content # None
        /\ c.tool = "apply_patch_plan" => c.plan \in DOMAIN plans /\ c.path = plans[c.plan].patch.path
    BY CallsType
  <2>3. DataType'
    BY <1>3 DEF Approve, DataType
  <2>4. CallKnown' /\ StepType'
    BY <1>3, <2>1, <2>2, NoneAssumption DEF Approve, CallKnown, StepType, Steps, IsPlanCall, Plan
  <2> QED BY <2>3, <2>4
<1> QED BY <1>1, <1>2, <1>3

\* Steps that check, look or give up.
LEMMA CheckTypes ==
    ASSUME IInv, Preflight \/ Snapshot \/ CheckPlan \/ Record
    PROVE  IInv'
<1> USE DEF IInv
<1>1. CASE Preflight
  <2>1. DataType'
    BY <1>1 DEF Preflight, counters, DataType, ghosts
  <2>2. CallKnown' /\ StepType'
    BY <1>1 DEF Preflight, Ready, CallKnown, StepType, Steps, IsPlanCall, Plan, MaybeText
  <2> QED BY <2>1, <2>2
<1>2. CASE Snapshot
  <2>1. DataType'
    BY <1>2 DEF Snapshot, counters, DataType, ghosts
  <2>2. call \in CallType /\ call.path \in Paths /\ call # None
    BY <1>2, CallFacts DEF Snapshot
  <2>3. call.tool \in {"apply_patch_plan", "format_apply", "rollback"}
    BY <2>2 DEF CallType
  <2>4. before' \in MaybeText
    BY <1>2, <2>2, TextOfType DEF Snapshot, MaybeText
  <2>5. /\ at' \in Steps \ {"ready", "write", "revalidate"}
        /\ at' = "check" => IsPlanCall
        /\ at' = "restore" => call.tool = "rollback"
    BY <1>2, <2>3 DEF Snapshot, Steps, IsPlanCall
  <2>6. CallKnown' /\ StepType'
    BY <1>2, <2>2, <2>4, <2>5 DEF Snapshot, CallKnown, StepType, Steps, IsPlanCall, Plan
  <2> QED BY <2>1, <2>6
<1>3. CASE CheckPlan
  <2>1. DataType'
    BY <1>3 DEF CheckPlan, counters, DataType
  <2>2. CallKnown' /\ StepType'
    BY <1>3 DEF CheckPlan, Ready, CallKnown, StepType, Steps, IsPlanCall, Plan, MaybeText
  <2> QED BY <2>1, <2>2
<1>4. CASE Record
  <2>1. call \in CallType /\ call.path \in Paths
    BY <1>4, CallFacts DEF Record
  <2>2. PatchRecord \in ChangeType
    BY <2>1, TextOfType DEF PatchRecord, Change, ChangeType, CallKnown
  <2>3. DataType'
    BY <1>4, <2>2 DEF Record, counters, ghosts, DataType
  <2>4. CallKnown' /\ StepType'
    BY <1>4 DEF Record, Ready, CallKnown, StepType, Steps, MaybeText
  <2> QED BY <2>3, <2>4
<1> QED BY <1>1, <1>2, <1>3, <1>4
\* The second validation changes the plan of the call, but not its patch.
LEMMA RevalidateTypes == IInv /\ Revalidate => IInv'
<1> SUFFICES ASSUME IInv, Revalidate PROVE IInv'
  OBVIOUS
<1> USE DEF IInv
<1>1. at = "revalidate" /\ IsPlanCall /\ call # None
  BY DEF Revalidate, StepType, CallKnown
<1>2. /\ call \in CallType /\ call.path \in Paths /\ Plan \in PlanType
      /\ call.plan \in DOMAIN plans
  BY <1>1, CallFacts
<1>3. CASE ~Exists(call.path)
  <2>1. DataType'
    BY <1>3 DEF Revalidate, DataType, counters
  <2>2. CallKnown' /\ StepType'
    BY <1>3 DEF Revalidate, Ready, CallKnown, StepType, Steps, MaybeText
  <2> QED BY <2>1, <2>2
<1>4. CASE Exists(call.path)
  <2> DEFINE plan == Validated(Plan, TextOf(call.path))
  <2>1. plan \in PlanType /\ plan.patch = Plan.patch
    BY <1>2, <1>4, TextOfType, ValidatedType
  <2>2. /\ plans' = [plans EXCEPT ![call.plan] = plan]
        /\ at' \in {"read", "record"} /\ UNCHANGED <<call, before, read>>
    BY <1>4 DEF Revalidate
  <2> HIDE DEF plan
  <2>3. plans' \in Seq(PlanType) /\ DOMAIN plans' = DOMAIN plans /\ Len(plans') = Len(plans)
    BY <1>2, <2>1, <2>2 DEF DataType
  <2>4. DataType'
    BY <1>4, <2>3 DEF Revalidate, DataType, counters
  <2>5. Plan' = plan
    BY <1>2, <2>2 DEF Plan, DataType
  <2>6. CallKnown' /\ StepType'
    BY <1>1, <2>1, <2>2, <2>3, <2>5 DEF CallKnown, StepType, Steps, IsPlanCall, Plan
  <2> QED BY <2>4, <2>6
<1> QED BY <1>3, <1>4

\* Reading and writing the text.
LEMMA ReadTypes == IInv /\ ReadText => IInv'
<1> SUFFICES ASSUME IInv, ReadText PROVE IInv'
  OBVIOUS
<1> USE DEF IInv
<1>1. DataType'
  BY DEF ReadText, DataType, counters, ghosts
<1>2. at = "read" /\ call # None /\ call.path \in Paths
  BY CallFacts DEF ReadText
<1>3. CASE ~Exists(call.path) \/ (IsPlanCall /\ ~Applicable(TextOf(call.path), Plan.patch))
  BY <1>1, <1>3 DEF ReadText, Ready, CallKnown, StepType, Steps, MaybeText
<1>4. CASE ~(~Exists(call.path) \/ (IsPlanCall /\ ~Applicable(TextOf(call.path), Plan.patch)))
  <2>1. /\ read' = [where |-> Resolve(call.path), text |-> TextOf(call.path)]
        /\ at' \in {"record", "write"} /\ UNCHANGED <<call, before, plans>>
    BY <1>4 DEF ReadText
  <2>2. read' \in [where : Projects \X Paths, text : Texts]
    BY <1>2, <1>4, <2>1, TextOfType
  <2>3. IsPlanCall => Applicable(read'.text, Plan.patch)
    BY <1>4, <2>1
  <2>4. CallKnown'
    BY <1>2, <2>1 DEF CallKnown, Steps, IsPlanCall, Plan
  <2>5. StepType'
    BY <2>1, <2>2, <2>3 DEF StepType, IsPlanCall, Plan
  <2> QED BY <1>1, <2>4, <2>5
<1> QED BY <1>3, <1>4

LEMMA ReplacementType ==
    ASSUME IInv, at = "write"
    PROVE  /\ read.where \in Projects \X Paths /\ read.text \in Texts
           /\ Replacement \in Texts
           /\ IsPlanCall => Replacement = Patched(read.text, Plan.patch)
<1>1. read \in [where : Projects \X Paths, text : Texts]
  BY DEF IInv, StepType
<1>2. CASE IsPlanCall
  <2>1. Plan.patch \in Patches /\ Applicable(read.text, Plan.patch)
    BY <1>2, CallFacts DEF IInv, StepType
  <2> QED BY <1>1, <1>2, <2>1, PatchedText DEF Replacement
<1>3. CASE ~IsPlanCall
  BY <1>1, <1>3, FormattedText DEF Replacement
<1> QED BY <1>1, <1>2, <1>3

LEMMA WriteTypes == IInv /\ (WriteText \/ Restore) => IInv'
<1> SUFFICES ASSUME IInv, WriteText \/ Restore PROVE IInv'
  OBVIOUS
<1> USE DEF IInv
<1>1. CASE WriteText
  <2>1. DataType'
    BY <1>1, ReplacementType DEF WriteText, DataType, counters, MaybeText
  <2>2. CallKnown' /\ StepType'
    BY <1>1 DEF WriteText, CallKnown, StepType, Steps, IsPlanCall, Plan
  <2> QED BY <2>1, <2>2
<1>2. CASE Restore
  <2>1. call \in CallType /\ call.path \in Paths /\ call # None /\ call.tool = "rollback"
    BY <1>2, CallFacts DEF Restore, StepType
  <2>2. call.content \in MaybeText
    BY <2>1 DEF CallType, MaybeText
  <2>3. DataType'
    BY <1>2, <2>1, <2>2, TextOfType DEF Restore, DataType, counters
  <2>4. CallKnown' /\ StepType'
    BY <1>2 DEF Restore, Ready, CallKnown, StepType, Steps, MaybeText
  <2> QED BY <2>3, <2>4
<1> QED BY <1>1, <1>2

\* What happens around the executor.
LEMMA AroundTypes == IInv /\ (SetActiveProject \/ Edit \/ Crash) => IInv'
<1> SUFFICES ASSUME IInv, SetActiveProject \/ Edit \/ Crash PROVE IInv'
  OBVIOUS
<1> USE DEF IInv
<1>1. CASE SetActiveProject
  <2>1. DataType'
    BY <1>1 DEF SetActiveProject, DataType
  <2>2. CallKnown' /\ StepType'
    BY <1>1 DEF SetActiveProject, CallKnown, StepType, IsPlanCall, Plan
  <2> QED BY <2>1, <2>2
<1>2. CASE Edit
  <2>1. PICK where \in DOMAIN files : \E text \in EditedTexts(files[where]) :
            files' = [files EXCEPT ![where] = text]
    BY <1>2 DEF Edit
  <2>2. PICK text \in EditedTexts(files[where]) : files' = [files EXCEPT ![where] = text]
    BY <2>1
  <2>3. files[where] \in MaybeText /\ where \in Projects \X Paths
    BY DEF DataType
  <2>4. text \in MaybeText
    <3>1. CASE files[where] = None
      BY <3>1 DEF EditedTexts, MaybeText, Texts
    <3>2. CASE files[where] # None
      <4>1. files[where] \in [Fragments -> Nat]
        BY <2>3, <3>2 DEF MaybeText, Texts
      <4> QED BY <3>2, <4>1 DEF EditedTexts, MaybeText, Texts
    <3> QED BY <3>1, <3>2
  <2>5. DataType'
    BY <1>2, <2>2, <2>3, <2>4 DEF Edit, DataType
  <2>6. CallKnown' /\ StepType'
    BY <1>2 DEF Edit, CallKnown, StepType, IsPlanCall, Plan
  <2> QED BY <2>5, <2>6
<1>3. CASE Crash
  <2>1. DataType'
    BY <1>3 DEF Crash, DataType
  <2>2. CallKnown' /\ StepType'
    BY <1>3 DEF Crash, CallKnown, StepType, Steps, IsPlanCall, Plan, MaybeText
  <2> QED BY <2>1, <2>2
<1> QED BY <1>1, <1>2, <1>3

LEMMA StutterTypes == IInv /\ UNCHANGED vars => IInv'
BY DEF IInv, DataType, CallKnown, StepType, vars, counters, ghosts, IsPlanCall, Plan

LEMMA TypesHold == Spec => []IInv
<1>1. Init => IInv
  BY InitTypes
<1>2. IInv /\ [Next]_vars => IInv'
  BY PrepareTypes, CheckTypes, RevalidateTypes, ReadTypes, WriteTypes, AroundTypes, StutterTypes
     DEF Next, Executor
<1> QED BY <1>1, <1>2, PTL DEF Spec

\* Every file holds a text or is missing, whatever was patched, formatted,
\* restored or edited, and every step of the executor has its call.
THEOREM TypeCorrect == Spec => []TypeOK
<1>1. IInv => TypeOK
  <2> SUFFICES ASSUME IInv PROVE TypeOK
    OBVIOUS
  <2>1. at = "write" => read.text \in Texts
    BY ReplacementType
  <2> QED BY <2>1 DEF IInv, DataType, CallKnown, TypeOK, MaybeText
<1> QED BY <1>1, TypesHold, PTL
---------------------------------------------------------------------------
(* What was reviewed.                                                      *)

\* Nobody has touched the files since the last check of this call.
Undisturbed == IsPlanCall /\ ~late /\ call.plan \notin overtaken

\* A validated plan has the hash of the text that was shown, and from the last
\* check on, the text is that one.
ReviewInv ==
    /\ \A i \in DOMAIN plans :
        plans[i].validated /\ i \notin overtaken => plans[i].hash = reviewed[i]
    /\ at \in {"revalidate", "read"} /\ Undisturbed => TextOf(call.path) = reviewed[call.plan]
    /\ OnlyReviewedTextIsPatched

LEMMA ReviewStep == IInv /\ IInv' /\ ReviewInv /\ [Next]_vars => ReviewInv'
<1> SUFFICES ASSUME IInv, IInv', ReviewInv, [Next]_vars PROVE ReviewInv'
  OBVIOUS
<1> USE DEF ReviewInv, OnlyReviewedTextIsPatched, Undisturbed
<1>1. CASE PatchPlanTool
  <2>1. at' = "ready" /\ overtaken' = overtaken
    BY <1>1 DEF PatchPlanTool, Counted, SameRun
  <2>2. PICK patch \in Patches :
            plans' = Append(plans, [patch |-> patch, validated |-> FALSE, hash |-> None])
    BY <1>1 DEF PatchPlanTool
  <2>3. reviewed' = Append(reviewed, None)
    BY <1>1 DEF PatchPlanTool
  <2>4. \A i \in DOMAIN plans' :
            plans'[i].validated /\ i \notin overtaken => plans'[i].hash = reviewed'[i]
    <3> TAKE i \in DOMAIN plans'
    <3>1. CASE i \in DOMAIN plans
      BY <2>2, <2>3, <3>1 DEF IInv, DataType
    <3>2. CASE i = Len(plans) + 1
      BY <2>2, <3>2 DEF IInv, DataType
    <3> QED BY <2>2, <3>1, <3>2 DEF IInv, DataType
  <2> QED BY <2>1, <2>4
<1>2. CASE ValidatePatchPlanTool
  <2>1. at' = "ready"
    BY <1>2 DEF ValidatePatchPlanTool, Counted, SameRun
  <2>2. PICK i \in DOMAIN plans :
            LET text == TextOf(plans[i].patch.path)
            IN  /\ text # None
                /\ plans' = [plans EXCEPT ![i] = Validated(@, text)]
                /\ reviewed' = [reviewed EXCEPT ![i] = text]
                /\ overtaken' = overtaken \ {i}
    BY <1>2 DEF ValidatePatchPlanTool
  <2> DEFINE text == TextOf(plans[i].patch.path)
  <2>3. plans[i] \in PlanType /\ plans[i].patch.path \in Paths
    <3>1. plans[i] \in PlanType
      BY DEF IInv, DataType
    <3>2. plans[i].patch \in Patches
      BY <3>1 DEF PlanType
    <3> QED BY <3>1, <3>2, PatchesAssumption
  <2>4. text \in Texts
    BY <2>2, <2>3, TextOfType DEF Exists, IInv
  <2>5. Validated(plans[i], text).validated => Validated(plans[i], text).hash = text
    BY <2>3, <2>4, ValidatedType
  <2>6. /\ plans' = [plans EXCEPT ![i] = Validated(plans[i], text)]
        /\ reviewed' = [reviewed EXCEPT ![i] = text] /\ overtaken' = overtaken \ {i}
    BY <2>2
  <2> HIDE DEF text
  <2>7. \A k \in DOMAIN plans' :
            plans'[k].validated /\ k \notin overtaken' => plans'[k].hash = reviewed'[k]
    BY <2>5, <2>6 DEF IInv, DataType
  <2> QED BY <2>1, <2>7
<1>3. CASE Approve \/ Snapshot \/ Crash
  <2>1. \/ at' \notin {"revalidate", "read", "write"}
        \/ at' = "read" /\ ~IsPlanCall /\ call' = call
    <3>1. CASE Approve \/ Crash
      BY <3>1 DEF Approve, Crash
    <3>2. CASE Snapshot
      <4>1. call.tool \in {"apply_patch_plan", "format_apply", "rollback"}
        BY <3>2, CallFacts DEF Snapshot, CallType
      <4> QED BY <3>2, <4>1 DEF Snapshot, IsPlanCall
    <3> QED BY <1>3, <3>1, <3>2
  <2>2. UNCHANGED <<plans, reviewed, overtaken>>
    BY <1>3 DEF Approve, Snapshot, Crash, ghosts
  <2> QED BY <2>1, <2>2 DEF IsPlanCall
<1>4. CASE Preflight \/ Record \/ Restore \/ WriteText
  <2>1. at' \in {"ready", "snapshot", "record"}
    BY <1>4 DEF Preflight, Record, Restore, WriteText, Ready
  <2>2. UNCHANGED <<plans, reviewed, overtaken>>
    BY <1>4 DEF Preflight, Record, Restore, WriteText, ghosts
  <2> QED BY <2>1, <2>2
<1>5. CASE CheckPlan
  <2>1. UNCHANGED <<plans, reviewed, overtaken, files, active>>
    BY <1>5 DEF CheckPlan
  <2>2. at' \in {"ready", "revalidate", "record"}
    BY <1>5 DEF CheckPlan, Ready
  <2>3. ASSUME at' = "revalidate", Undisturbed'
        PROVE  TextOf(call.path) = reviewed[call.plan] /\ call' = call
    <3>1. call' = call /\ Fresh(Plan, TextOf(call.path))
      BY <1>5, <2>3 DEF CheckPlan, Ready
    <3>2. IsPlanCall /\ call.plan \in DOMAIN plans
      BY <1>5, CallFacts DEF CheckPlan, IInv, StepType
    <3> QED BY <2>1, <2>3, <3>1, <3>2 DEF Fresh, Plan
  <2> QED BY <2>1, <2>2, <2>3 DEF TextOf, Resolve
<1>6. CASE Revalidate
  <2>1. /\ at = "revalidate" /\ IsPlanCall /\ call.plan \in DOMAIN plans /\ call.path \in Paths
        /\ Plan \in PlanType
    BY <1>6, CallFacts DEF Revalidate, IInv, StepType
  <2>2. CASE ~Exists(call.path)
    BY <1>6, <2>2 DEF Revalidate, Ready
  <2>3. CASE Exists(call.path)
    <3> DEFINE text == TextOf(call.path)
               plan == Validated(Plan, text)
    <3>1. text \in Texts
      BY <2>1, <2>3, TextOfType DEF IInv
    <3>2. plan.validated => plan.hash = text
      BY <2>1, <3>1, ValidatedType
    <3>3. /\ plans' = [plans EXCEPT ![call.plan] = plan]
          /\ at' \in {"read", "record"}
          /\ UNCHANGED <<call, files, active, late, reviewed>>
          /\ overtaken' = IF late /\ text # reviewed[call.plan]
                          THEN overtaken \cup {call.plan} ELSE overtaken
      BY <1>6, <2>3 DEF Revalidate
    <3>4. call.plan \notin overtaken' => text = reviewed[call.plan]
      BY <2>1, <3>3
    <3>5. \A k \in DOMAIN plans' :
              plans'[k].validated /\ k \notin overtaken' => plans'[k].hash = reviewed'[k]
      <4> HIDE DEF text, plan
      <4> QED BY <2>1, <3>2, <3>3, <3>4 DEF IInv, DataType
    <3> QED BY <3>3, <3>4, <3>5 DEF TextOf, Resolve
  <2> QED BY <2>2, <2>3
<1>7. CASE ReadText
  <2>1. at = "read" /\ UNCHANGED <<plans, reviewed, overtaken, late, files, active>>
    BY <1>7 DEF ReadText, ghosts
  <2>2. \/ at' \in {"ready", "record"}
        \/ at' = "write" /\ call' = call /\ read'.text = TextOf(call.path)
    BY <1>7 DEF ReadText, Ready
  <2> QED BY <2>1, <2>2 DEF IsPlanCall
<1>8. CASE SetActiveProject \/ Edit
  <2>1. UNCHANGED <<plans, reviewed, overtaken, at, call, read>>
    BY <1>8 DEF SetActiveProject, Edit
  <2>2. at \in {"revalidate", "read", "write"} => late'
    BY <1>8 DEF SetActiveProject, Edit
  <2> QED BY <2>1, <2>2
<1>9. CASE UNCHANGED vars
  BY <1>9 DEF vars, ghosts, TextOf, Resolve, IsPlanCall
<1> QED BY <1>1, <1>2, <1>3, <1>4, <1>5, <1>6, <1>7, <1>8, <1>9 DEF Next, Executor

\* An approved plan is applied to the text its human saw, unless the file or
\* the project changed after the last check of the call.
THEOREM ReviewedTextIsPatched == Spec => []OnlyReviewedTextIsPatched
<1>1. Init => ReviewInv
  BY DEF Init, ReviewInv, OnlyReviewedTextIsPatched
<1>2. ReviewInv => OnlyReviewedTextIsPatched
  BY DEF ReviewInv
<1> QED BY <1>1, <1>2, ReviewStep, TypesHold, PTL DEF Spec
---------------------------------------------------------------------------
(* Once for each review.                                                   *)

\* A spent plan has left its file patched, so that its hash is of another text;
\* the call being executed is not one of them.
SpentInv ==
    /\ \A i \in spent :
        /\ i \in DOMAIN plans
        /\ plans[i].validated => plans[i].hash # TextOf(plans[i].patch.path)
    /\ at = "read" /\ IsPlanCall /\ ~late => Plan.hash = TextOf(call.path)
    /\ at = "write" /\ IsPlanCall /\ ~late =>
        Plan.hash = read.text /\ read.where = Resolve(call.path)
    /\ at \in {"snapshot", "check", "revalidate", "read", "write"} /\ IsPlanCall =>
        call.plan \notin spent

LEMMA SpentStep == IInv /\ IInv' /\ SpentInv /\ [Next]_vars => SpentInv'
<1> SUFFICES ASSUME IInv, IInv', SpentInv, [Next]_vars PROVE SpentInv'
  OBVIOUS
<1> USE DEF SpentInv
<1>1. CASE PatchPlanTool
  <2>1. at' = "ready" /\ UNCHANGED <<spent, files, active>>
    BY <1>1 DEF PatchPlanTool, Counted, SameRun
  <2>2. PICK new : plans' = Append(plans, new)
    BY <1>1 DEF PatchPlanTool
  <2>3. \A i \in DOMAIN plans : i \in DOMAIN plans' /\ plans'[i] = plans[i]
    BY <2>2 DEF IInv, DataType
  <2> QED BY <2>1, <2>3 DEF TextOf, Resolve
<1>2. CASE ValidatePatchPlanTool
  <2>1. at' = "ready" /\ UNCHANGED <<files, active>>
    BY <1>2 DEF ValidatePatchPlanTool, Counted, SameRun
  <2>2. PICK i \in DOMAIN plans, new \in {Validated(plans[k], TextOf(plans[k].patch.path)) : k \in DOMAIN plans} :
            plans' = [plans EXCEPT ![i] = new] /\ spent' = spent \ {i}
    BY <1>2 DEF ValidatePatchPlanTool
  <2>3. \A k \in DOMAIN plans \ {i} : k \in DOMAIN plans' /\ plans'[k] = plans[k]
    BY <2>2 DEF IInv, DataType
  <2> QED BY <2>1, <2>2, <2>3 DEF TextOf, Resolve
<1>3. CASE Approve \/ Crash \/ Record
  <2>1. at' \in {"ready", "approved"} /\ UNCHANGED <<spent, plans, files, active>>
    BY <1>3 DEF Approve, Crash, Record, Ready, ghosts
  <2> QED BY <2>1 DEF TextOf, Resolve
<1>4. CASE Preflight
  <2>1. UNCHANGED <<spent, plans, files, active>> /\ at = "approved"
    BY <1>4 DEF Preflight, ghosts
  <2>2. \/ at' = "ready"
        \/ at' = "snapshot" /\ call' = call /\ (IsPlanCall => Fresh(Plan, TextOf(call.path)))
    BY <1>4 DEF Preflight, Ready
  <2>3. IsPlanCall => call.path = Plan.patch.path
    BY <2>1 DEF IInv, CallKnown
  <2> QED BY <2>1, <2>2, <2>3 DEF Fresh, Plan, IsPlanCall, TextOf, Resolve
<1>5. CASE Snapshot \/ CheckPlan
  <2>1. UNCHANGED <<spent, plans, files, active>> /\ at \in {"snapshot", "check"}
    BY <1>5 DEF Snapshot, CheckPlan, ghosts
  <2>2. \/ at' = "ready"
        \/ call' = call /\ at' \in {"check", "revalidate", "record", "restore"}
        \/ call' = call /\ at' = "read" /\ ~IsPlanCall
    <3>1. CASE CheckPlan
      BY <3>1 DEF CheckPlan, Ready
    <3>2. CASE Snapshot
      <4>1. call.tool \in {"apply_patch_plan", "format_apply", "rollback"}
        BY <3>2, CallFacts DEF Snapshot, CallType
      <4> QED BY <3>2, <4>1 DEF Snapshot, IsPlanCall
    <3> QED BY <1>5, <3>1, <3>2
  <2> QED BY <2>1, <2>2 DEF IsPlanCall, TextOf, Resolve
<1>6. CASE Revalidate
  <2>1. /\ at = "revalidate" /\ IsPlanCall /\ call.plan \in DOMAIN plans /\ call.path \in Paths
        /\ Plan \in PlanType /\ UNCHANGED <<spent, files, active>>
    BY <1>6, CallFacts DEF Revalidate, IInv, StepType
  <2>2. CASE ~Exists(call.path)
    BY <1>6, <2>1, <2>2 DEF Revalidate, Ready, TextOf, Resolve
  <2>3. CASE Exists(call.path)
    <3> DEFINE text == TextOf(call.path)
               plan == Validated(Plan, text)
    <3>1. plan.validated => plan.hash = text
      <4>1. text \in Texts
        BY <2>1, <2>3, TextOfType DEF IInv
      <4> QED BY <2>1, <4>1, ValidatedType
    <3>2. /\ plans' = [plans EXCEPT ![call.plan] = plan]
          /\ at' = IF plan.validated THEN "read" ELSE "record"
          /\ call' = call
      BY <1>6, <2>3 DEF Revalidate
    <3>3. Plan' = plan /\ TextOf(call.path)' = text
      BY <2>1, <3>2 DEF Plan, IInv, DataType, TextOf, Resolve
    <3>4. \A k \in spent : k \in DOMAIN plans' /\ plans'[k] = plans[k]
      <4> HIDE DEF plan
      <4> QED BY <2>1, <3>2 DEF IInv, DataType
    <3> HIDE DEF text, plan
    <3> QED BY <2>1, <3>1, <3>2, <3>3, <3>4 DEF IsPlanCall, TextOf, Resolve
  <2> QED BY <2>2, <2>3
<1>7. CASE ReadText
  <2>1. at = "read" /\ UNCHANGED <<plans, spent, late, files, active>>
    BY <1>7 DEF ReadText, ghosts
  <2>2. \/ at' \in {"ready", "record"}
        \/ /\ at' = "write" /\ call' = call
           /\ read' = [where |-> Resolve(call.path), text |-> TextOf(call.path)]
    BY <1>7 DEF ReadText, Ready
  <2> QED BY <2>1, <2>2 DEF IsPlanCall, Plan, TextOf, Resolve
<1>8. CASE WriteText
  <2>1. /\ at = "write" /\ at' = "record" /\ UNCHANGED <<plans, active, call>>
        /\ files' = [files EXCEPT ![read.where] = Replacement]
        /\ spent' = {i \in {call.plan} : IsPlanCall /\ ~late /\ read.text = reviewed[i]}
    BY <1>8 DEF WriteText
  <2>2. ASSUME IsPlanCall, ~late
        PROVE  /\ call.plan \in DOMAIN plans
               /\ Plan.hash # TextOf(Plan.patch.path)'
    <3>1. /\ Plan.patch \in Patches /\ call.plan \in DOMAIN plans /\ call.path = Plan.patch.path
          /\ Applicable(read.text, Plan.patch) /\ call # None
      BY <2>1, <2>2, CallFacts DEF IInv, CallKnown, StepType
    <3>2. /\ read.where \in Projects \X Paths /\ read.text \in Texts
          /\ Replacement = Patched(read.text, Plan.patch)
      BY <2>1, <2>2, ReplacementType
    <3>3. Replacement # read.text
      BY <3>1, <3>2, PatchedText
    <3>4. files'[read.where] = Replacement
      BY <2>1, <3>2 DEF IInv, DataType
    <3>5. TextOf(Plan.patch.path)' = Replacement
      BY <2>1, <2>2, <3>1, <3>4 DEF TextOf, Resolve, Plan
    <3> QED BY <2>1, <2>2, <3>1, <3>3, <3>5
  <2> QED BY <2>1, <2>2 DEF Plan, TextOf, Resolve
<1>9. CASE SetActiveProject \/ Edit \/ Restore
  <2>1. spent' = {}
    BY <1>9 DEF SetActiveProject, Edit, Restore
  <2>2. at' = "ready" \/ late' \/ at' \notin {"read", "write"}
    BY <1>9 DEF SetActiveProject, Edit, Restore, Ready
  <2> QED BY <2>1, <2>2
<1>10. CASE UNCHANGED vars
  BY <1>10 DEF vars, ghosts, TextOf, Resolve, IsPlanCall, Plan
<1> QED BY <1>1, <1>2, <1>3, <1>4, <1>5, <1>6, <1>7, <1>8, <1>9, <1>10 DEF Next, Executor

\* An executor that runs again after a crash, or is asked again, never applies a
\* plan whose application already stands.
THEOREM AppliedOnce == Spec => []AppliedOncePerReview
<1>1. Init => SpentInv
  BY DEF Init, SpentInv
<1>2. SpentInv => AppliedOncePerReview
  BY DEF SpentInv, AppliedOncePerReview
<1> QED BY <1>1, <1>2, SpentStep, TypesHold, PTL DEF Spec

---------------------------------------------------------------------------
(* The history.                                                            *)

LEMMA ChangesAfterAppend ==
    ASSUME NEW entries \in Seq(ChangeType), NEW e \in ChangeType
    PROVE  Changes(Append(entries, e)) = IF e.before # e.after THEN Append(Changes(entries), e)
                                         ELSE Changes(entries)
<1> DEFINE n == Len(entries)
           longer == Append(entries, e)
           I == {i \in DOMAIN entries : entries[i].before # entries[i].after}
           J == {i \in DOMAIN longer : longer[i].before # longer[i].after}
<1>1. /\ n \in Nat /\ DOMAIN entries = 1..n /\ DOMAIN longer = 1..(n + 1)
      /\ \A i \in 1..n : longer[i] = entries[i]
      /\ longer[n + 1] = e
  OBVIOUS
<1>2. Changes(entries) = Kept(entries, I) /\ Changes(longer) = Kept(longer, J)
  BY DEF Changes
<1>3. I \in SUBSET DOMAIN entries
  OBVIOUS
<1>4. J = IF e.before # e.after THEN I \cup {n + 1} ELSE I
  <2> HIDE DEF n, longer
  <2> QED BY <1>1
<1>5. Kept(longer, I) = Kept(entries, I) /\ Kept(longer, I \cup {n + 1}) = Append(Kept(entries, I), e)
  <2> HIDE DEF I
  <2> QED BY <1>3, KeptAfterAppend
<1> HIDE DEF n, longer, I, J
<1> QED BY <1>2, <1>4, <1>5 DEF longer

\* Unless the call was disturbed, the history and what was really written agree in
\* the changes they have; the executor's snapshot is the text it is about to
\* change; and the entry it is about to record makes up for the one change that
\* may have been written and not recorded.
HistoryInv ==
    /\ written \in Seq(ChangeType)
    /\ ~disturbed =>
        /\ at # "record" => Changes(history) = Changes(written)
        /\ at \in {"check", "revalidate", "read"} => before = TextOf(call.path)
        /\ at = "write" => read = [where |-> Resolve(call.path), text |-> before]
        /\ at = "record" => Changes(Append(history, PatchRecord)) = Changes(written)

\* What the executor records is an entry, and none that counts when it has
\* changed nothing.
LEMMA RecordOfNothing ==
    ASSUME IInv, at # "ready"
    PROVE  /\ PatchRecord \in ChangeType
           /\ before = TextOf(call.path) => Changes(Append(history, PatchRecord)) = Changes(history)
<1>1. call.path \in Paths /\ before \in MaybeText
  BY CallFacts DEF IInv, CallKnown
<1>2. Resolve(call.path) \in Projects \X Paths /\ TextOf(call.path) \in MaybeText
  BY <1>1, TextOfType DEF IInv
<1>3. PatchRecord \in ChangeType
  BY <1>1, <1>2 DEF PatchRecord, Change, ChangeType
<1>4. PatchRecord.before = before /\ PatchRecord.after = TextOf(call.path)
  BY DEF PatchRecord, Change
<1> QED BY <1>3, <1>4, ChangesAfterAppend DEF IInv, DataType

LEMMA HistoryStep == IInv /\ IInv' /\ HistoryInv /\ [Next]_vars => HistoryInv'
<1> SUFFICES ASSUME IInv, IInv', HistoryInv, [Next]_vars PROVE HistoryInv'
  OBVIOUS
<1> USE DEF HistoryInv
<1>1. CASE PatchPlanTool \/ ValidatePatchPlanTool \/ Approve
  <2>1. /\ at = "ready" /\ at' \in {"ready", "approved"}
        /\ UNCHANGED <<history, written, disturbed>>
    BY <1>1 DEF PatchPlanTool, ValidatePatchPlanTool, Approve, Counted, SameRun
  <2> QED BY <2>1
<1>2. CASE Preflight \/ Restore
  <2>1. /\ at # "record" /\ at' \in {"ready", "snapshot"}
        /\ UNCHANGED <<history, written, disturbed>>
    BY <1>2 DEF Preflight, Restore, Ready, ghosts
  <2> QED BY <2>1
<1>3. CASE Snapshot
  <2>1. /\ at = "snapshot" /\ at' \in {"check", "read", "restore"}
        /\ UNCHANGED <<history, written, disturbed, call, files, active>>
        /\ call.tool # "rollback" => before' = TextOf(call.path)
        /\ call.tool = "rollback" => at' = "restore"
    <3>1. call.tool \in {"apply_patch_plan", "format_apply", "rollback"}
      BY <1>3, CallFacts DEF Snapshot, CallType
    <3> QED BY <1>3, <3>1 DEF Snapshot, ghosts
  <2> QED BY <2>1 DEF TextOf, Resolve
<1>4. CASE CheckPlan \/ Revalidate
  <2>1. /\ at \in {"check", "revalidate"}
        /\ UNCHANGED <<history, written, disturbed, files, active>>
        /\ \/ at' = "ready"
           \/ at' \in {"revalidate", "read", "record"} /\ UNCHANGED <<call, before>>
    BY <1>4 DEF CheckPlan, Revalidate, Ready, ghosts
  <2>2. at' # "ready" => PatchRecord' = PatchRecord
    BY <2>1 DEF PatchRecord, Change, TextOf, Resolve
  <2> QED BY <2>1, <2>2, RecordOfNothing DEF TextOf, Resolve
<1>5. CASE ReadText
  <2>1. /\ at = "read"
        /\ UNCHANGED <<history, written, disturbed, files, active>>
        /\ \/ at' = "ready"
           \/ at' = "record" /\ UNCHANGED <<call, before>>
           \/ /\ at' = "write" /\ UNCHANGED <<call, before>>
              /\ read' = [where |-> Resolve(call.path), text |-> TextOf(call.path)]
    BY <1>5 DEF ReadText, Ready, ghosts
  <2>2. at' # "ready" => PatchRecord' = PatchRecord
    BY <2>1 DEF PatchRecord, Change, TextOf, Resolve
  <2> QED BY <2>1, <2>2, RecordOfNothing DEF TextOf, Resolve
<1>6. CASE WriteText
  <2> DEFINE done == Change(read.where, read.text, Replacement)
  <2>1. /\ at = "write" /\ at' = "record"
        /\ UNCHANGED <<history, disturbed, active, call, before>>
        /\ files' = [files EXCEPT ![read.where] = Replacement]
        /\ written' = Append(written, done)
    BY <1>6 DEF WriteText
  <2>2. /\ read.where \in Projects \X Paths /\ read.text \in Texts /\ Replacement \in Texts
        /\ call.path \in Paths
    BY <2>1, ReplacementType, CallFacts
  <2>3. done \in ChangeType
    BY <2>2 DEF Change, ChangeType, MaybeText
  <2>4. written' \in Seq(ChangeType)
    <3> HIDE DEF done
    <3> QED BY <2>1, <2>3
  <2>5. ASSUME ~disturbed
        PROVE  Changes(Append(history, PatchRecord))' = Changes(written)'
    <3>1. read.where = Resolve(call.path) /\ read.text = before
      BY <2>1, <2>5
    <3>2. files'[read.where] = Replacement
      BY <2>1, <2>2 DEF IInv, DataType
    <3>3. PatchRecord' = done
      BY <2>1, <3>1, <3>2 DEF PatchRecord, Change, TextOf, Resolve
    <3>4. Changes(history) = Changes(written) /\ history \in Seq(ChangeType)
      BY <2>1, <2>5 DEF IInv, DataType
    <3> HIDE DEF done
    <3>5. Changes(Append(history, done)) = Changes(Append(written, done))
      BY <2>3, <3>4, ChangesAfterAppend
    <3>6. Append(history, PatchRecord)' = Append(history, done) /\ written' = Append(written, done)
      BY <2>1, <3>3
    <3> QED BY <3>5, <3>6 DEF Changes
  <2> QED BY <2>1, <2>4, <2>5
<1>7. CASE Record
  <2>1. /\ at = "record" /\ at' = "ready" /\ history' = Append(history, PatchRecord)
        /\ UNCHANGED <<written, disturbed>>
    BY <1>7 DEF Record, Ready, ghosts
  <2> QED BY <2>1
<1>8. CASE SetActiveProject \/ Edit
  <2>1. /\ UNCHANGED <<history, written, at>>
        /\ disturbed' = (disturbed \/ at \notin {"ready", "approved"})
    BY <1>8 DEF SetActiveProject, Edit
  <2> QED BY <2>1
<1>9. CASE Crash
  BY <1>9 DEF Crash
<1>10. CASE UNCHANGED vars
  BY <1>10 DEF vars, ghosts, TextOf, Resolve, PatchRecord, Change
<1> QED BY <1>1, <1>2, <1>3, <1>4, <1>5, <1>6, <1>7, <1>8, <1>9, <1>10 DEF Next, Executor

\* Unless a call was disturbed, the history has exactly the changes that were
\* made, with the texts they replaced and left.
THEOREM HistoryTellsChanges == Spec => []HistoryIsWhatHappened
<1>1. Init => HistoryInv
  BY DEF Init, HistoryInv
<1>2. HistoryInv => HistoryIsWhatHappened
  BY DEF HistoryInv, HistoryIsWhatHappened
<1> QED BY <1>1, <1>2, HistoryStep, TypesHold, PTL DEF Spec

---------------------------------------------------------------------------
(* What a write leaves alone.                                              *)

\* Whatever the step of the agent, its write keeps the rest of the file it read.
THEOREM WritesKeepTheRest == Spec => WritesOnlyItsFragments
<1> DEFINE RestKept ==
        at = "write" /\ files' # files /\ files[read.where] = read.text /\ edits' = edits =>
            \A f \in Fragments \ (IF IsPlanCall THEN {Plan.patch.old, Plan.patch.new}
                                  ELSE {Trailing}) :
                files'[read.where][f] = read.text[f]
<1>1. IInv /\ [Next]_vars => RestKept
  <2> SUFFICES ASSUME IInv, [Next]_vars, at = "write", files' # files, edits' = edits
               PROVE  \A f \in Fragments \ (IF IsPlanCall THEN {Plan.patch.old, Plan.patch.new}
                                            ELSE {Trailing}) :
                          files'[read.where][f] = read.text[f]
    OBVIOUS
  <2>1. WriteText
    <3>1. ~Edit
      BY DEF Edit, IInv, DataType
    <3> QED
      BY <3>1 DEF Next, Executor, vars, PatchPlanTool, ValidatePatchPlanTool, Approve, Counted,
                  Preflight, Snapshot, CheckPlan, Revalidate, ReadText, Record, Restore,
                  SetActiveProject, Crash
  <2>2. read.where \in Projects \X Paths /\ read.text \in Texts
    BY ReplacementType
  <2>3. files'[read.where] = Replacement
    BY <2>1, <2>2 DEF WriteText, IInv, DataType
  <2>4. CASE IsPlanCall
    <3>1. Plan.patch \in Patches /\ Applicable(read.text, Plan.patch)
      BY <2>4, CallFacts DEF IInv, StepType
    <3> QED BY <2>2, <2>3, <2>4, <3>1, ReplacementType, PatchedText
  <2>5. CASE ~IsPlanCall
    BY <2>2, <2>3, <2>5, FormattedText DEF Replacement
  <2> QED BY <2>4, <2>5
<1> QED BY <1>1, TypesHold, PTL DEF Spec, WritesOnlyItsFragments

=============================================================================

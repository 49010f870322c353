----------------------------- MODULE PatchPlans -----------------------------
(***************************************************************************)
(* The edits of one agent: patch plans, their validation and application,  *)
(* the formatter and the rollback (tooling/patch_tools.py), as the         *)
(* executor runs them (executor.py) on the files of the active project     *)
(* (tooling/core.py).  Every read and every write of a file is a step; the *)
(* file may be edited by others and the active project may be switched in  *)
(* between.  A node that dies is run again from its start.                 *)
(*                                                                         *)
(* A text is reduced to how often each of the fragments occurs that the    *)
(* patches are about; None stands for a missing file.  The hash of a text  *)
(* is the text.                                                            *)
(***************************************************************************)
EXTENDS Naturals, SequencesExt, Subsequences

CONSTANTS
    None,
    Projects, Home,        \* registered project roots; DEFAULT_PROJECT_ID
    Paths,                 \* relative paths, the same in every project
    Fragments, Trailing,   \* fragments of text; trailing blanks
    Patches,               \* [path, old, new, keeps]: new_text contains old_text
    InitialText,           \* Projects \X Paths -> text
    MaxPlans, MaxCalls,    \* bounds: plans made, and tool calls of the run
    MaxEdits, MaxSwitches, \* bounds: edits by others, switches of the project
    MaxCrashes             \* bound: how often the executor dies

Texts == [Fragments -> Nat]

ASSUME PatchesAssumption ==
    /\ Trailing \in Fragments /\ Home \in Projects
    /\ Patches \subseteq [path : Paths, old : Fragments, new : Fragments, keeps : BOOLEAN]
    /\ InitialText \in [Projects \X Paths -> Texts \cup {None}]

CallType ==
    [tool : {"apply_patch_plan", "format_apply", "rollback"}, plan : Nat \cup {None},
     path : Paths, content : Texts \cup {None}, from : (Projects \X Paths) \cup {None}]

ASSUME NoneAssumption == None \notin CallType

VARIABLES
    files,      \* <<project, path>> -> text, None if there is none
    active,     \* the active project, for every process of this checkout
    plans,      \* patch plans: [patch, validated, hash]
    history,    \* patch_history: [path, before, after, from]
    call,       \* the approved tool call; None between two tasks
    at,         \* where the executor is in it
    before,     \* before_content
    read,       \* what the tool has read, and where; None if nothing
    calls, edits, switches, crashes,    \* how often, see the bounds
    reviewed,   \* plan -> the text it was validated on by its own tool (history)
    written,    \* what the tools really changed, like history (history)
    spent,      \* plans applied as reviewed, the files untouched since (history)
    disturbed,  \* an edit or a switch fell into a call, or a call died (history)
    late,       \* one fell behind the last hash check of this call (history)
    overtaken   \* plans validated again on what a late edit left (history)

counters == <<calls, edits, switches, crashes>>
ghosts == <<reviewed, written, spent, disturbed, late, overtaken>>
vars == <<files, active, plans, history, call, at, before, read, counters, ghosts>>

(* `from` is where a text was taken, which the code does not keep (history). *)
Call(toolName, plan, p) ==
    [tool |-> toolName, plan |-> plan, path |-> p, content |-> None, from |-> None]
Rollback(entry) ==
    [tool |-> "rollback", plan |-> None, path |-> entry.path, content |-> entry.before,
     from |-> entry.from]

Init ==
    /\ files = InitialText /\ active = Home
    /\ plans = <<>> /\ history = <<>>
    /\ call = None /\ at = "ready" /\ before = None /\ read = None
    /\ calls = 0 /\ edits = 0 /\ switches = 0 /\ crashes = 0
    /\ reviewed = <<>> /\ written = <<>> /\ spent = {} /\ disturbed = FALSE /\ late = FALSE
    /\ overtaken = {}

---------------------------------------------------------------------------
(* Files and plans.                                                        *)

(* safe_text_file: relative to the project that is active now. *)
Resolve(p) == <<active, p>>
TextOf(p) == files[Resolve(p)]
Exists(p) == TextOf(p) # None

Applicable(text, patch) ==
    /\ text[patch.old] = 1
    /\ patch.keeps \/ patch.old # patch.new

Patched(text, patch) ==
    LET added == [text EXCEPT ![patch.new] = @ + 1]
    IN  IF patch.keeps THEN added ELSE [added EXCEPT ![patch.old] = @ - 1]

Formatted(text) == [text EXCEPT ![Trailing] = 0]

\* Mutants: validated once is validated for good; it is enough that it fits.
FreshOnceValidated(plan, text) == plan.validated
FreshIfApplicable(plan, text) == plan.validated /\ Applicable(text, plan.patch)

(* The check of the executor and, again, of the tool. *)
Fresh(plan, text) == plan.validated /\ plan.hash = text

Validated(plan, text) ==
    LET ok == Applicable(text, plan.patch)
    IN  [plan EXCEPT !.validated = ok, !.hash = IF ok THEN text ELSE None]

---------------------------------------------------------------------------
(* Calls that change no source.                                            *)

Counted == at = "ready" /\ calls < MaxCalls /\ calls' = calls + 1
SameRun == UNCHANGED <<history, call, at, before, read, edits, switches, crashes>>

PatchPlanTool ==
    /\ Counted /\ Len(plans) < MaxPlans
    /\ \E patch \in Patches :
        /\ Exists(patch.path)
        /\ plans' = Append(plans, [patch |-> patch, validated |-> FALSE, hash |-> None])
    /\ reviewed' = Append(reviewed, None)
    /\ UNCHANGED <<files, active, written, spent, disturbed, late, overtaken>> /\ SameRun

ValidatePatchPlanTool ==
    /\ Counted
    /\ \E i \in DOMAIN plans :
        LET text == TextOf(plans[i].patch.path)
        IN  /\ text # None
            /\ plans' = [plans EXCEPT ![i] = Validated(@, text)]
            /\ reviewed' = [reviewed EXCEPT ![i] = text]
            /\ spent' = spent \ {i}
            /\ overtaken' = overtaken \ {i}
    /\ UNCHANGED <<files, active, written, disturbed, late>> /\ SameRun

SetActiveProject ==
    /\ switches < MaxSwitches /\ switches' = switches + 1
    /\ active' \in Projects \ {active}
    /\ spent' = {}
    /\ disturbed' = (disturbed \/ at \notin {"ready", "approved"})
    /\ late' = (at \notin {"ready", "approved"})
    /\ UNCHANGED <<files, plans, history, call, at, before, read, calls, edits, crashes,
                   reviewed, written, overtaken>>

---------------------------------------------------------------------------
(* The executor.                                                           *)

Ready == /\ at' = "ready" /\ call' = None /\ before' = None /\ read' = None

(* The calls of write tools that may get an approval.  When a check has     *)
(* failed the evaluator asks for the rollback of the last patch, with the   *)
(* text kept for it.                                                        *)
Calls ==
    {Call("apply_patch_plan", i, plans[i].patch.path) : i \in DOMAIN plans}
        \cup {Call("format_apply", None, p) : p \in Paths}

\* Mutant: it asks for it without a text, too.
RollbacksOfAny == IF history = <<>> THEN {} ELSE {Rollback(Last(history))}

Rollbacks ==
    IF history = <<>> \/ Last(history).before = None THEN {} ELSE {Rollback(Last(history))}

Approve ==
    /\ Counted
    /\ call' \in Calls \cup Rollbacks
    /\ at' = "approved"
    /\ late' = FALSE
    /\ UNCHANGED <<files, active, plans, history, before, read, edits, switches, crashes,
                   reviewed, written, spent, disturbed, overtaken>>

IsPlanCall == call.tool = "apply_patch_plan"
Plan == plans[call.plan]

Preflight ==
    /\ at = "approved"
    /\ IF IsPlanCall => Exists(call.path) /\ Fresh(Plan, TextOf(call.path))
       THEN at' = "snapshot" /\ UNCHANGED <<call, before, read>>
       ELSE Ready
    /\ UNCHANGED <<files, active, plans, history, counters, ghosts>>

Snapshot ==
    /\ at = "snapshot"
    /\ before' = IF call.tool = "rollback" THEN None ELSE TextOf(call.path)
    /\ at' = CASE call.tool = "apply_patch_plan" -> "check"
               [] call.tool = "format_apply" -> "read"
               [] call.tool = "rollback" -> "restore"
    /\ UNCHANGED <<files, active, plans, history, call, read, counters, ghosts>>

(* apply_patch_plan_tool.  Its refusals are texts that classify_tool_output *)
(* takes for a success, so the executor records a patch; a missing file is  *)
(* a ValueError, which blocks the call.                                     *)
CheckPlan ==
    /\ at = "check"
    /\ IF ~Exists(call.path) THEN Ready
       ELSE /\ at' = IF Fresh(Plan, TextOf(call.path)) THEN "revalidate" ELSE "record"
            /\ UNCHANGED <<call, before, read>>
    /\ late' = FALSE
    /\ UNCHANGED <<files, active, plans, history, counters, reviewed, written, spent, disturbed,
                   overtaken>>

Revalidate ==
    /\ at = "revalidate"
    /\ IF ~Exists(call.path) THEN Ready /\ UNCHANGED plans
       ELSE LET plan == Validated(Plan, TextOf(call.path))
            IN  /\ plans' = [plans EXCEPT ![call.plan] = plan]
                /\ at' = IF plan.validated THEN "read" ELSE "record"
                /\ UNCHANGED <<call, before, read>>
    /\ overtaken' = IF late /\ Exists(call.path) /\ TextOf(call.path) # reviewed[call.plan]
                    THEN overtaken \cup {call.plan} ELSE overtaken
    /\ UNCHANGED <<files, active, history, counters, reviewed, written, spent, disturbed, late>>

(* apply_patch_tool, whose refusal is a failure, and format_apply_tool,     *)
(* which has nothing to write when all is formatted.                        *)
ReadText ==
    /\ at = "read"
    /\ IF ~Exists(call.path) \/ (IsPlanCall /\ ~Applicable(TextOf(call.path), Plan.patch))
       THEN Ready
       ELSE /\ read' = [where |-> Resolve(call.path), text |-> TextOf(call.path)]
            /\ at' = IF ~IsPlanCall /\ Formatted(read'.text) = read'.text THEN "record" ELSE "write"
            /\ UNCHANGED <<call, before>>
    /\ UNCHANGED <<files, active, plans, history, counters, ghosts>>

\* Mutant: it works on the snapshot.
ReplacementOfSnapshot == IF IsPlanCall THEN Patched(before, Plan.patch) ELSE Formatted(before)

Replacement == IF IsPlanCall THEN Patched(read.text, Plan.patch) ELSE Formatted(read.text)

Change(where, old, new) ==
    [path |-> call.path, before |-> old, after |-> new, from |-> where]

WriteText ==
    /\ at = "write"
    /\ files' = [files EXCEPT ![read.where] = Replacement]
    /\ at' = "record"
    /\ written' = Append(written, Change(read.where, read.text, Replacement))
    /\ spent' = {i \in {call.plan} : IsPlanCall /\ ~late /\ read.text = reviewed[i]}
    /\ UNCHANGED <<active, plans, history, call, before, read, counters, reviewed, disturbed, late,
                   overtaken>>

\* Mutant: the texts are swapped.
PatchRecordSwapped == Change(Resolve(call.path), TextOf(call.path), before)

PatchRecord == Change(Resolve(call.path), before, TextOf(call.path))

Record ==
    /\ at = "record"
    /\ history' = Append(history, PatchRecord)
    /\ Ready
    /\ UNCHANGED <<files, active, plans, counters, ghosts>>

Restore ==
    /\ at = "restore"
    /\ files' = IF Exists(call.path) THEN [files EXCEPT ![Resolve(call.path)] = call.content]
                ELSE files
    /\ spent' = {}
    /\ Ready
    /\ UNCHANGED <<active, plans, history, counters, reviewed, written, disturbed, late,
                   overtaken>>

---------------------------------------------------------------------------
(* Around it.                                                              *)

EditedTexts(text) ==
    {None} \cup IF text = None THEN {[f \in Fragments |-> 0]}
                ELSE {[text EXCEPT ![f] = n] : f \in Fragments, n \in 0..1}

(* Somebody else edits, removes or makes a file. *)
Edit ==
    /\ edits < MaxEdits /\ edits' = edits + 1
    /\ \E where \in DOMAIN files : \E text \in EditedTexts(files[where]) \ {files[where]} :
        files' = [files EXCEPT ![where] = text]
    /\ spent' = {}
    /\ disturbed' = (disturbed \/ at \notin {"ready", "approved"})
    /\ late' = (at \notin {"ready", "approved"})
    /\ UNCHANGED <<active, plans, history, call, at, before, read, calls, switches, crashes,
                   reviewed, written, overtaken>>

(* The thread is resumed at the executor, with the same call. *)
Crash ==
    /\ crashes < MaxCrashes /\ at \notin {"ready", "approved"}
    /\ crashes' = crashes + 1
    /\ at' = "approved" /\ before' = None /\ read' = None
    /\ disturbed' = TRUE
    /\ UNCHANGED <<files, active, plans, history, call, calls, edits, switches,
                   reviewed, written, spent, late, overtaken>>

Executor == Preflight \/ Snapshot \/ CheckPlan \/ Revalidate \/ ReadText \/ WriteText
                \/ Record \/ Restore

Next ==
    \/ PatchPlanTool \/ ValidatePatchPlanTool \/ Approve
    \/ Executor
    \/ SetActiveProject \/ Edit \/ Crash

Spec == Init /\ [][Next]_vars

---------------------------------------------------------------------------
(* Properties.                                                             *)

(* Files hold texts, and every step of the executor has its call. *)
TypeOK ==
    /\ files \in [Projects \X Paths -> Texts \cup {None}]
    /\ active \in Projects
    /\ at = "ready" <=> call = None
    /\ at = "write" => read.text \in Texts
    /\ call # None => (call.tool = "rollback" <=> call.content # None)
    /\ Len(reviewed) = Len(plans)

(* A plan is applied to the very text its validation was about, which the  *)
(* human saw before approving: an edit at any time up to the last hash      *)
(* check stops it.  (A later one does not; and because the application      *)
(* validates the plan again, the plan then passes for reviewed on.)         *)
OnlyReviewedTextIsPatched ==
    at = "write" /\ IsPlanCall /\ ~late /\ call.plan \notin overtaken =>
        read.text = reviewed[call.plan]

(* An executor that died after its write and runs again never applies the   *)
(* plan a second time, even where its patch would fit the patched text.     *)
AppliedOncePerReview == at = "write" /\ IsPlanCall => call.plan \notin spent

(* The patch history, which rollbacks and verifications rely on, has every  *)
(* change with the texts it replaced and left, unless a call was disturbed; *)
(* what else is in it changed nothing.                                      *)
Changes(entries) == Kept(entries, {i \in DOMAIN entries : entries[i].before # entries[i].after})
HistoryIsWhatHappened ==
    at = "ready" /\ ~disturbed => Changes(history) = Changes(written)

(* A write of the agent keeps whatever else is in the file it has read,     *)
(* also what came into it after the snapshot.                               *)
WritesOnlyItsFragments ==
    [][at = "write" /\ files' # files /\ files[read.where] = read.text /\ edits' = edits =>
        \A f \in Fragments \ (IF IsPlanCall THEN {Plan.patch.old, Plan.patch.new} ELSE {Trailing}) :
            files'[read.where][f] = read.text[f]]_vars
=============================================================================

----------------------------- MODULE ToolCalls ------------------------------
(***************************************************************************)
(* One call of a registered tool from the policy to its result: the rule   *)
(* loop (policy.py), the human the policy node or the approval node turns  *)
(* to (approval.py), who may replace the arguments, and the run of the     *)
(* tool (run_tool_model), which validates the arguments once more, because *)
(* the files they name may have changed since the policy looked.           *)
(***************************************************************************)
EXTENDS PolicyChain, ToolRegistry

\* The policy reads the registry itself.
ASSUME RegistryAssumption == ToolSpecs = TOOL_SPECS

VARIABLES
    answer,     \* the human's: "none", "approved", "modified" or "refused"
    result      \* ToolResult: its status, whether the project changed and
                \* whether changed_files says so

callVars == <<vars, answer, result>>

NoResult == [status |-> "none", changed |-> FALSE, reported |-> FALSE]
Blocked == [status |-> "blocked", changed |-> FALSE, reported |-> FALSE]

CallInit == Init /\ answer = "none" /\ result = NoResult

Decide == RunRule /\ UNCHANGED <<answer, result>>

(* Denied: the policy node writes the blocked result itself. *)
Refuse ==
    /\ Finished /\ action = "deny" /\ result = NoResult
    /\ result' = Blocked
    /\ UNCHANGED <<vars, answer>>

Ask ==
    /\ Finished /\ action = "ask" /\ answer = "none"
    /\ answer' \in {"approved", "modified", "refused"}
    /\ result' = IF answer' = "refused" THEN Blocked ELSE NoResult
    /\ UNCHANGED vars

(* The second validation, then the handler: it may refuse, fail or work.    *)
(* Nothing but a validation stands between the approver's arguments and the *)
(* handler.                                                                 *)
HandlerResults(t) ==
    [status : {"success", "partial"}, changed : {t \in ProjectChangers},
     reported : {t \in ReportingTools}]
        \cup [status : {"success", "failed", "empty"}, changed : {FALSE},
              reported : {t \in ReportingTools}]

RunTool ==
    /\ Finished /\ result = NoResult
    /\ action = "allow" \/ answer \in {"approved", "modified"}
    /\ result' \in {Blocked} \cup HandlerResults(context.tool)
    /\ UNCHANGED <<vars, answer>>

CallNext == Decide \/ Refuse \/ Ask \/ RunTool

CallSpec == CallInit /\ [][CallNext]_callVars

---------------------------------------------------------------------------
(* The calls the planner and the approver can make of the registered tools. *)

Validity(t) == IF t \in Registered THEN BOOLEAN ELSE {FALSE}

CallsOf(t) ==
    [tool : {t}, allowed : BOOLEAN, configured : Configured, valid : Validity(t),
     size : SizeClass, human_approved : BOOLEAN, task_risk : {"low", "high"},
     path : PathsOf(t), profile : ProfilesOf(t),
     patch_large : IF t \in PatchTextTools THEN BOOLEAN ELSE {FALSE},
     direct : IF t = "apply_patch" THEN BOOLEAN ELSE {FALSE},
     has_history : IF t = "rollback" THEN BOOLEAN ELSE {FALSE}]

Calls == UNION {CallsOf(t) : t \in ToolName \cup {"unregistered"}}

---------------------------------------------------------------------------
(* Properties.                                                             *)

(* Whatever a handler changes in the project, or about which project it is, *)
(* a human agreed to: the access each tool is registered with covers what   *)
(* its handler does.                                                        *)
ProjectChangesAreApproved ==
    result.changed => context.human_approved \/ answer \in {"approved", "modified"}

(* A run that changed a file of the project names it in changed_files, which *)
(* memory, artifacts and the audit go by.                                    *)
ChangedFilesAreReported ==
    result.changed /\ context.tool \in FileChangers => result.reported
=============================================================================

---------------------------- MODULE PolicyRules ----------------------------
(***************************************************************************)
(* The rules of policy.py: what each rule of POLICY_RULES says about one   *)
(* tool call, and the decision they amount to together.                    *)
(*                                                                         *)
(* A context is the record the code calls PolicyContext.  The arguments of *)
(* the call are reduced to the facts the rules read: their size class, the *)
(* kind of path they name, the size class of the patch text and what the   *)
(* command profile they name does.                                         *)
(***************************************************************************)
EXTENDS Naturals, Sequences

CONSTANTS
    ToolSpecs      \* TOOL_SPECS: tool name -> [access, risk, category, runs],
                   \* runs for the names that start with "run_"

Access     == {"read", "write"}
Risk       == {"low", "medium", "high"}
Category   == {"observe", "understand", "verify", "edit", "security", "audit",
               "memory", "platform"}
Configured == {"allow", "ask", "deny", "unrecognised"}
SizeClass  == {"small", "large", "huge"}       \* up to 8000, up to 20000, more
PathKind   == {"none", "plain", "sensitive", "lockfile", "readme", "internal"}
Profile    == {"none", "writes_cache", "active_project", "both"}

ASSUME ToolSpecsAssumption ==
    /\ DOMAIN ToolSpecs \subseteq STRING \ {"none"}
    /\ \A t \in DOMAIN ToolSpecs :
          ToolSpecs[t] \in
              [access : Access, risk : Risk, category : Category, runs : BOOLEAN]

\* The tools policy.py names one by one.
PatchTextTools == {"apply_patch", "preview_patch", "apply_patch_dry_run", "patch_plan"}
CommandTools   == {"run_allowed_command", "run_package_script"}

Contexts ==
    [tool : STRING, allowed : BOOLEAN, configured : Configured, valid : BOOLEAN,
     size : SizeClass, path : PathKind, patch_large : BOOLEAN, profile : Profile,
     direct : BOOLEAN, human_approved : BOOLEAN, task_risk : {"low", "medium", "high"},
     has_history : BOOLEAN]

Known(c)      == c.tool \in DOMAIN ToolSpecs
Writes(c)     == Known(c) /\ ToolSpecs[c.tool].access = "write"
HasRisk(c, r) == Known(c) /\ ToolSpecs[c.tool].risk = r
InCategory(c, k) == Known(c) /\ ToolSpecs[c.tool].category = k

\* "pass" is a rule that returns without calling PolicyDecision.apply.
Deny(cond) == IF cond THEN "deny" ELSE "pass"
AskUnlessApproved(c, cond) ==
    IF cond /\ ~c.human_approved THEN "ask" ELSE "pass"

ToolSelected(c) == Deny(c.tool = "none")
KnownTool(c)    == Deny(~Known(c))
AllowedTool(c)  == Deny(~c.allowed)

\* Mutant: the approval lifts an "ask" permission.
ConfiguredPermissionLifted(c) ==
    IF c.configured = "ask" THEN AskUnlessApproved(c, TRUE) ELSE Deny(c.configured # "allow")

\* An "ask" permission of an approved task fails the second branch's guard
\* and reaches the third, which denies everything that is not "allow".
ConfiguredPermission(c) ==
    IF c.configured = "deny" THEN "deny"
    ELSE IF c.configured = "ask" /\ ~c.human_approved THEN "ask"
    ELSE Deny(c.configured # "allow")

ValidateArgs(c) == Deny(~c.valid)
ToolArgsSize(c) ==
    IF c.size = "huge" THEN "deny" ELSE AskUnlessApproved(c, c.size = "large")
ToolRisk(c) ==
    AskUnlessApproved(c, HasRisk(c, "high") \/ (HasRisk(c, "medium") /\ c.task_risk = "high"))
WriteRequiresApproval(c) == AskUnlessApproved(c, Writes(c))
PlatformWriteRequiresApproval(c) ==
    AskUnlessApproved(c, Writes(c) /\ InCategory(c, "platform"))
SensitivePath(c) ==
    IF c.path = "sensitive" THEN "deny" ELSE AskUnlessApproved(c, c.path = "lockfile")
GeneratedOrStatePath(c) == Deny(c.path = "internal")
ConfigWriteRequiresApproval(c) ==
    AskUnlessApproved(c, Writes(c) /\ c.path \in {"lockfile", "readme"})
PatchSize(c) == AskUnlessApproved(c, c.tool \in PatchTextTools /\ c.patch_large)
DirectPatchRequiresPlan(c) ==
    IF c.tool = "apply_patch" /\ ~c.direct THEN "deny"
    ELSE AskUnlessApproved(c, c.tool = "apply_patch")
RollbackRequiresHistory(c) == Deny(c.tool = "rollback" /\ ~c.has_history)
CommandProfileRisk(c) ==
    AskUnlessApproved(c,
        /\ c.tool \in CommandTools
        /\ \/ c.profile \in {"writes_cache", "both"}
           \/ c.profile \in {"active_project", "both"} /\ c.task_risk = "high")
HighRiskTask(c) ==
    AskUnlessApproved(c,
        /\ c.task_risk = "high"
        /\ Writes(c) \/ (InCategory(c, "verify") /\ ToolSpecs[c.tool].runs))

\* POLICY_RULES, in the order the loop of evaluate_policy runs them.
RuleOrder ==
    <<"tool_selected", "known_tool", "allowed_tools", "configured_permission",
      "validate_args", "tool_args_size", "tool_risk", "write_requires_approval",
      "platform_write_requires_approval", "sensitive_path", "generated_or_state_path",
      "config_write_requires_approval", "patch_size", "direct_patch_requires_plan",
      "rollback_requires_history", "command_profile_risk", "high_risk_task">>

RuleIndex == 1..17

Verdicts(c) ==
    << ToolSelected(c), KnownTool(c), AllowedTool(c), ConfiguredPermission(c),
       ValidateArgs(c), ToolArgsSize(c), ToolRisk(c), WriteRequiresApproval(c),
       PlatformWriteRequiresApproval(c), SensitivePath(c), GeneratedOrStatePath(c),
       ConfigWriteRequiresApproval(c), PatchSize(c), DirectPatchRequiresPlan(c),
       RollbackRequiresHistory(c), CommandProfileRisk(c), HighRiskTask(c) >>

\* The rules that return at once when the decision is already "deny".
SkippedOnceDenied ==
    RuleIndex \ {1, 2, 3, 4, 6, 13}

\* The decision stated without the loop: the severest verdict of any rule.
PolicyAction(c) ==
    IF \E i \in RuleIndex : Verdicts(c)[i] = "deny" THEN "deny"
    ELSE IF \E i \in RuleIndex : Verdicts(c)[i] = "ask" THEN "ask"
    ELSE "allow"
=============================================================================

-------------------------- MODULE ToolCallsProofs --------------------------
(***************************************************************************)
(* From the policy to a tool's result, in two parts: the rule chain of     *)
(* policy.py, proved for every registry and every set of contexts, and a   *)
(* whole call, proved for every set of calls of the registered tools.      *)
(***************************************************************************)
EXTENDS ToolCalls, TLAPS

---------------------------------------------------------------------------
(* The rule chain: the loop decides the severest verdict of its rules.     *)

USE DEF RuleIndex

\* A rule passes, asks or denies, whatever the context.
LEMMA VerdictType ==
    ASSUME NEW c, NEW i \in RuleIndex
    PROVE  Verdicts(c)[i] \in {"pass", "ask", "deny"}
<1>1. /\ ToolSelected(c) \in {"pass", "ask", "deny"}
      /\ KnownTool(c) \in {"pass", "ask", "deny"}
      /\ AllowedTool(c) \in {"pass", "ask", "deny"}
      /\ ValidateArgs(c) \in {"pass", "ask", "deny"}
      /\ GeneratedOrStatePath(c) \in {"pass", "ask", "deny"}
      /\ RollbackRequiresHistory(c) \in {"pass", "ask", "deny"}
      /\ ConfiguredPermission(c) \in {"pass", "ask", "deny"}
  BY DEF ToolSelected, KnownTool, AllowedTool, ValidateArgs, GeneratedOrStatePath,
         RollbackRequiresHistory, ConfiguredPermission, Deny
<1>2. /\ ToolArgsSize(c) \in {"pass", "ask", "deny"}
      /\ ToolRisk(c) \in {"pass", "ask", "deny"}
      /\ WriteRequiresApproval(c) \in {"pass", "ask", "deny"}
      /\ PlatformWriteRequiresApproval(c) \in {"pass", "ask", "deny"}
      /\ SensitivePath(c) \in {"pass", "ask", "deny"}
      /\ ConfigWriteRequiresApproval(c) \in {"pass", "ask", "deny"}
      /\ PatchSize(c) \in {"pass", "ask", "deny"}
      /\ DirectPatchRequiresPlan(c) \in {"pass", "ask", "deny"}
      /\ CommandProfileRisk(c) \in {"pass", "ask", "deny"}
      /\ HighRiskTask(c) \in {"pass", "ask", "deny"}
  BY DEF ToolArgsSize, ToolRisk, WriteRequiresApproval, PlatformWriteRequiresApproval,
         SensitivePath, ConfigWriteRequiresApproval, PatchSize, DirectPatchRequiresPlan,
         CommandProfileRisk, HighRiskTask, AskUnlessApproved
<1> QED BY <1>1, <1>2 DEF Verdicts

\* The fields of the state keep their types; the reason and the triggered
\* rules are names of rules.
THEOREM TypeCorrect == Spec => []TypeOK
<1> DEFINE Names == {RuleOrder[i] : i \in RuleIndex}
<1>1. Init => TypeOK
  BY InitialContextsAssumption DEF Init, TypeOK, Severity
<1>2. TypeOK /\ [Next]_vars => TypeOK'
  <2> SUFFICES ASSUME TypeOK, [Next]_vars PROVE TypeOK'
    OBVIOUS
  <2>1. CASE RunRule
    <3> DEFINE verdict == Verdicts(context)[rule]
    <3>1. verdict \in {"pass", "ask", "deny"}
      BY <2>1, VerdictType DEF RunRule
    <3>2. context' \in Contexts /\ rule' \in 1..18
      BY <2>1 DEF RunRule, TypeOK
    <3>3. RuleOrder[rule] \in Names
      BY <2>1 DEF RunRule
    <3>4. CASE UNCHANGED <<action, reason, triggered_rules>>
      BY <3>2, <3>4 DEF TypeOK
    <3>5. CASE verdict # "pass" /\ Apply(verdict)
      <4>1. triggered_rules' \in Seq(Names)
        BY <3>3, <3>5 DEF Apply, TypeOK
      <4>2. action' \in DOMAIN Severity /\ reason' \in Names \cup {"default"}
        BY <3>1, <3>3, <3>5 DEF Apply, TypeOK, Severity
      <4> QED BY <3>2, <4>1, <4>2 DEF TypeOK
    <3> QED BY <2>1, <3>4, <3>5 DEF RunRule
  <2>2. CASE UNCHANGED vars
    BY <2>2 DEF vars, TypeOK
  <2> QED BY <2>1, <2>2 DEF Next
<1> QED BY <1>1, <1>2, PTL DEF Spec

\* What the loop has established after the rules before `rule`.
SeverestSoFar ==
    /\ action = "deny" <=> \E i \in 1..(rule - 1) : Verdicts(context)[i] = "deny"
    /\ action = "ask" =>   \E i \in 1..(rule - 1) : Verdicts(context)[i] = "ask"
    /\ action = "allow" => \A i \in 1..(rule - 1) : Verdicts(context)[i] = "pass"

LEMMA SeverestSoFarHolds == Spec => []SeverestSoFar
<1>1. Init => SeverestSoFar
  BY DEF Init, SeverestSoFar
<1>2. TypeOK /\ SeverestSoFar /\ [Next]_vars => SeverestSoFar'
  <2> SUFFICES ASSUME TypeOK, SeverestSoFar, [Next]_vars PROVE SeverestSoFar'
    OBVIOUS
  <2>1. CASE RunRule
    <3> DEFINE V == Verdicts(context)
    <3>1. /\ rule \in RuleIndex /\ rule' = rule + 1 /\ context' = context
          /\ 1..(rule' - 1) = 1..(rule - 1) \cup {rule}
      BY <2>1 DEF RunRule
    <3>2. V[rule] \in {"pass", "ask", "deny"} /\ action \in {"allow", "ask", "deny"}
      BY <3>1, VerdictType DEF TypeOK, Severity
    <3>3. Verdicts(context') = V
      BY <3>1
    <3> HIDE DEF V
    <3>4. /\ action = "deny" <=> \E i \in 1..(rule - 1) : V[i] = "deny"
          /\ action = "ask" =>   \E i \in 1..(rule - 1) : V[i] = "ask"
          /\ action = "allow" => \A i \in 1..(rule - 1) : V[i] = "pass"
      BY DEF SeverestSoFar, V
    <3>5. action' = IF action = "deny" \/ V[rule] = "deny" THEN "deny"
                    ELSE IF action = "ask" \/ V[rule] = "ask" THEN "ask" ELSE "allow"
      BY <2>1, <3>2 DEF RunRule, Apply, V
    <3>6. /\ action' = "deny" <=> \E i \in 1..(rule' - 1) : V[i] = "deny"
          /\ action' = "ask" =>   \E i \in 1..(rule' - 1) : V[i] = "ask"
          /\ action' = "allow" => \A i \in 1..(rule' - 1) : V[i] = "pass"
      BY <3>1, <3>2, <3>4, <3>5
    <3> QED BY <3>3, <3>6 DEF SeverestSoFar
  <2>2. CASE UNCHANGED vars
    BY <2>2 DEF vars, SeverestSoFar
  <2> QED BY <2>1, <2>2 DEF Next
<1> QED BY <1>1, <1>2, TypeCorrect, PTL DEF Spec

\* The chain decides the severest verdict of its rules, for every registry.
THEOREM ChainIsSeverest == Spec => []ChainDecidesSeverest
<1>1. TypeOK /\ SeverestSoFar => ChainDecidesSeverest
  <2> SUFFICES ASSUME TypeOK, SeverestSoFar, Finished PROVE action = PolicyAction(context)
    BY DEF ChainDecidesSeverest
  <2>1. rule - 1 = 17
    BY DEF Finished, RuleOrder, TypeOK
  <2>2. action \in {"allow", "ask", "deny"}
    BY DEF TypeOK, Severity
  <2> QED BY <2>1, <2>2 DEF SeverestSoFar, PolicyAction
<1> QED BY <1>1, TypeCorrect, SeverestSoFarHolds, PTL

\* A write tool is never allowed for a task nobody approved.
LEMMA AllowedWriteIsApproved ==
    ASSUME NEW c, PolicyAction(c) = "allow", Writes(c)
    PROVE  c.human_approved
<1>1. Verdicts(c)[8] = WriteRequiresApproval(c)
  BY DEF Verdicts
<1>2. WriteRequiresApproval(c) # "ask"
  BY <1>1 DEF PolicyAction
<1> QED BY <1>2 DEF WriteRequiresApproval, AskUnlessApproved

THEOREM WritesAreApproved == Spec => []WriteNeedsApproval
<1>1. ChainDecidesSeverest => WriteNeedsApproval
  BY AllowedWriteIsApproved DEF ChainDecidesSeverest, WriteNeedsApproval
<1> QED BY <1>1, ChainIsSeverest, PTL

\* The rule that gave the reason, among those that have run.
ReasonSoFar ==
    action # "allow" =>
        \E i \in 1..(rule - 1) :
            /\ reason = RuleOrder[i]
            /\ Verdicts(context)[i] = action
            /\ \A j \in 1..(i - 1) : Verdicts(context)[j] # action

LEMMA ReasonSoFarHolds == Spec => []ReasonSoFar
<1>1. Init => ReasonSoFar
  BY DEF Init, ReasonSoFar
<1>2. TypeOK /\ SeverestSoFar /\ ReasonSoFar /\ [Next]_vars => ReasonSoFar'
  <2> SUFFICES ASSUME TypeOK, SeverestSoFar, ReasonSoFar, [Next]_vars PROVE ReasonSoFar'
    OBVIOUS
  <2>1. CASE RunRule
    <3> DEFINE V == Verdicts(context)
    <3>1. /\ rule \in RuleIndex /\ rule' = rule + 1 /\ context' = context
          /\ V[rule] \in {"pass", "ask", "deny"} /\ action \in {"allow", "ask", "deny"}
      BY <2>1, VerdictType DEF RunRule, TypeOK, Severity
    <3>2. CASE UNCHANGED <<action, reason>>
      BY <3>1, <3>2 DEF ReasonSoFar
    <3>3. CASE action' = V[rule] /\ action' # action /\ reason' = RuleOrder[rule]
      <4>1. \A j \in 1..(rule - 1) : V[j] # action'
        BY <3>1, <3>3, <2>1 DEF SeverestSoFar, RunRule, Apply
      <4>2. rule \in 1..(rule' - 1)
        BY <3>1
      <4> QED BY <3>1, <3>3, <4>1, <4>2 DEF ReasonSoFar
    <3> QED BY <2>1, <3>1, <3>2, <3>3 DEF RunRule, Apply
  <2>2. CASE UNCHANGED vars
    BY <2>2 DEF vars, ReasonSoFar
  <2> QED BY <2>1, <2>2 DEF Next
<1> QED BY <1>1, <1>2, TypeCorrect, SeverestSoFarHolds, PTL DEF Spec

\* The reason of a decision is the first rule that reached its severity.
THEOREM ReasonDecides == Spec => []ReasonIsDecisive
<1>1. TypeOK /\ ReasonSoFar => ReasonIsDecisive
  <2> SUFFICES ASSUME TypeOK, ReasonSoFar, Finished, action # "allow"
               PROVE  \E i \in RuleIndex :
                          /\ reason = RuleOrder[i]
                          /\ Verdicts(context)[i] = action
                          /\ \A j \in 1..(i - 1) : Verdicts(context)[j] # action
    BY DEF ReasonIsDecisive
  <2>1. rule - 1 = 17
    BY DEF Finished, RuleOrder, TypeOK
  <2> QED BY <2>1 DEF ReasonSoFar
<1> QED BY <1>1, TypeCorrect, ReasonSoFarHolds, PTL

\* No rule loosens the decision.
THEOREM DecisionNeverLoosens == Spec => NeverLoosens
<1>1. TypeOK /\ [Next]_vars => [Severity[action'] >= Severity[action]]_vars
  <2> SUFFICES ASSUME TypeOK, RunRule PROVE Severity[action'] >= Severity[action]
    BY DEF Next
  <2>1. Verdicts(context)[rule] \in {"pass", "ask", "deny"}
    BY VerdictType DEF RunRule
  <2>2. action \in {"allow", "ask", "deny"}
    BY DEF TypeOK, Severity
  <2>3. \/ action' = action
        \/ action' = "deny"
        \/ action = "allow" /\ action' = "ask"
    BY <2>1 DEF RunRule, Apply
  <2> QED BY <2>2, <2>3 DEF Severity
<1> QED BY <1>1, TypeCorrect, PTL DEF Spec, NeverLoosens

---------------------------------------------------------------------------
(* A whole call: it goes through the rule chain, and what it changes in    *)
(* the project a human agreed to and its result reports.                   *)

\* A call runs the rule chain and nothing it does afterwards disturbs it.
LEMMA CallsRunTheChain == CallSpec => Spec
<1>1. CallInit => Init
  BY DEF CallInit
<1>2. [CallNext]_callVars => [Next]_vars
  <2> SUFFICES ASSUME [CallNext]_callVars PROVE [Next]_vars
    OBVIOUS
  <2>1. CASE Decide
    BY <2>1 DEF Decide, Next
  <2>2. CASE Refuse \/ Ask \/ RunTool
    BY <2>2 DEF Refuse, Ask, RunTool
  <2>3. CASE UNCHANGED callVars
    BY <2>3 DEF callVars
  <2> QED BY <2>1, <2>2, <2>3 DEF CallNext
<1> QED BY <1>1, <1>2, PTL DEF CallSpec, Spec

\* Only a changing tool that the chain or a human let through has changed anything.
ChangesWereLetThrough ==
    result.changed =>
        /\ Finished /\ context.tool \in ProjectChangers
        /\ action = "allow" \/ answer \in {"approved", "modified"}

LEMMA ChangesWereLetThroughHolds == CallSpec => []ChangesWereLetThrough
<1>1. CallInit => ChangesWereLetThrough
  BY DEF CallInit, NoResult, ChangesWereLetThrough
<1>2. ChangesWereLetThrough /\ [CallNext]_callVars => ChangesWereLetThrough'
  <2> SUFFICES ASSUME ChangesWereLetThrough, [CallNext]_callVars
               PROVE  ChangesWereLetThrough'
    OBVIOUS
  <2>1. CASE Decide
    <3>1. Finished => ~RunRule
      BY DEF Finished, RuleOrder, RunRule, RuleIndex
    <3> QED BY <2>1, <3>1 DEF Decide, ChangesWereLetThrough
  <2>2. CASE Refuse
    BY <2>2 DEF Refuse, Blocked, ChangesWereLetThrough
  <2>3. CASE Ask
    BY <2>3 DEF Ask, Blocked, NoResult, ChangesWereLetThrough
  <2>4. CASE RunTool
    <3>1. result'.changed => context.tool \in ProjectChangers
      BY <2>4 DEF RunTool, HandlerResults, Blocked
    <3> QED BY <2>4, <3>1 DEF RunTool, Finished, vars, ChangesWereLetThrough
  <2>5. CASE UNCHANGED callVars
    BY <2>5 DEF callVars, vars, Finished, ChangesWereLetThrough
  <2> QED BY <2>1, <2>2, <2>3, <2>4, <2>5 DEF CallNext
<1> QED BY <1>1, <1>2, PTL DEF CallSpec

\* Each tool whose handler changes the project is registered as writing.
LEMMA ChangersWrite ==
    ASSUME context.tool \in ProjectChangers
    PROVE  Writes(context)
<1>1. ProjectChangers \subseteq WriteTools
  BY DEF ProjectChangers, FileChangers, WriteTools
<1>2. ProjectChangers \subseteq Registered
  <2>1. ProjectChangers \subseteq ToolsByCategory.edit \cup ToolsByCategory.platform
    BY DEF ProjectChangers, FileChangers, ToolsByCategory
  <2>2. "edit" \in DOMAIN ToolsByCategory /\ "platform" \in DOMAIN ToolsByCategory
    BY DEF ToolsByCategory
  <2> QED BY <2>1, <2>2 DEF Registered
<1>3. context.tool \in DOMAIN TOOL_SPECS /\ TOOL_SPECS[context.tool].access = "write"
  BY <1>1, <1>2 DEF TOOL_SPECS
<1> QED BY <1>3, RegistryAssumption DEF Writes, Known

\* What a call changes in the project, or about which project it is, a human
\* agreed to, before the policy or after it asked.
THEOREM ChangesAreApproved == CallSpec => []ProjectChangesAreApproved
<1>1. ChangesWereLetThrough /\ WriteNeedsApproval => ProjectChangesAreApproved
  BY ChangersWrite DEF ChangesWereLetThrough, WriteNeedsApproval, ProjectChangesAreApproved
<1> QED BY <1>1, ChangesWereLetThroughHolds, CallsRunTheChain, WritesAreApproved, PTL

\* What a tool changed in a file its result names.
ChangesAreNamed ==
    result.changed => Finished /\ (context.tool \in FileChangers => result.reported)

\* A tool that changed a file of the project says so in changed_files: the
\* table of names in _changed_files_from_tool knows every tool whose handler
\* writes files, and the call the result is about stays the one that was run.
THEOREM ChangesAreReported == CallSpec => []ChangedFilesAreReported
<1>1. CallInit => ChangesAreNamed
  BY DEF CallInit, NoResult, ChangesAreNamed
<1>2. ChangesAreNamed /\ [CallNext]_callVars => ChangesAreNamed'
  <2> SUFFICES ASSUME ChangesAreNamed, [CallNext]_callVars
               PROVE  ChangesAreNamed'
    OBVIOUS
  <2>1. CASE Decide
    <3>1. Finished => ~RunRule
      BY DEF Finished, RuleOrder, RunRule, RuleIndex
    <3> QED BY <2>1, <3>1 DEF Decide, ChangesAreNamed
  <2>2. CASE Refuse
    BY <2>2 DEF Refuse, Blocked, ChangesAreNamed
  <2>3. CASE Ask
    BY <2>3 DEF Ask, Blocked, NoResult, ChangesAreNamed
  <2>4. CASE RunTool
    <3>1. FileChangers \subseteq ReportingTools
      BY DEF FileChangers, ReportingTools
    <3>2. result'.changed => result'.reported = (context.tool \in ReportingTools)
      BY <2>4 DEF RunTool, HandlerResults, Blocked
    <3>3. Finished' /\ context' = context
      BY <2>4 DEF RunTool, Finished, vars
    <3> QED BY <3>1, <3>2, <3>3 DEF ChangesAreNamed
  <2>5. CASE UNCHANGED callVars
    BY <2>5 DEF callVars, vars, Finished, ChangesAreNamed
  <2> QED BY <2>1, <2>2, <2>3, <2>4, <2>5 DEF CallNext
<1>3. ChangesAreNamed => ChangedFilesAreReported
  BY DEF ChangesAreNamed, ChangedFilesAreReported
<1> QED BY <1>1, <1>2, <1>3, PTL DEF CallSpec
=============================================================================

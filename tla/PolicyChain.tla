---------------------------- MODULE PolicyChain ----------------------------
(***************************************************************************)
(* evaluate_policy (policy.py): the loop that runs every rule over one     *)
(* PolicyContext and folds the results into a PolicyDecision.  One step is *)
(* one rule; PolicyRules states the decision without the loop.             *)
(***************************************************************************)
EXTENDS PolicyRules

CONSTANTS
    InitialContexts   \* the calls the loop may be asked about

ASSUME InitialContextsAssumption == InitialContexts \subseteq Contexts

VARIABLES
    context,          \* PolicyContext
    rule,             \* index in RuleOrder of the next rule to run
    action,           \* PolicyDecision.action
    reason,           \* rule that set PolicyDecision.reason, "default" at first
    triggered_rules   \* PolicyDecision.triggered_rules

vars == <<context, rule, action, reason, triggered_rules>>

Severity == [allow |-> 0, ask |-> 1, deny |-> 2]

Init ==
    /\ context \in InitialContexts
    /\ rule = 1
    /\ action = "allow"
    /\ reason = "default"
    /\ triggered_rules = <<>>

\* Mutants of apply: a later rule overrules a denial; a denial does not
\* upgrade an ask; the upgrade keeps the old reason; action and rule swapped.
ApplyOverDeny(verdict) ==
    /\ triggered_rules' = Append(triggered_rules, RuleOrder[rule])
    /\ action' = verdict /\ reason' = RuleOrder[rule]
ApplyFirst(verdict) ==
    /\ triggered_rules' = Append(triggered_rules, RuleOrder[rule])
    /\ IF action = "allow"
       THEN action' = verdict /\ reason' = RuleOrder[rule]
       ELSE UNCHANGED <<action, reason>>
ApplyKeepsReason(verdict) ==
    /\ triggered_rules' = Append(triggered_rules, RuleOrder[rule])
    /\ action' = IF action = "deny" THEN action ELSE verdict
    /\ reason' = IF reason = "default" THEN RuleOrder[rule] ELSE reason
ApplySwapped(verdict) ==
    /\ triggered_rules' = Append(triggered_rules, verdict)
    /\ action' = verdict /\ reason' = RuleOrder[rule]

\* PolicyDecision.apply: always recorded, but it never loosens the decision.
Apply(verdict) ==
    /\ triggered_rules' = Append(triggered_rules, RuleOrder[rule])
    /\ IF action # "deny" /\ (verdict = "deny" \/ (verdict = "ask" /\ action = "allow"))
       THEN action' = verdict /\ reason' = RuleOrder[rule]
       ELSE UNCHANGED <<action, reason>>

RunRule ==
    /\ rule \in RuleIndex
    /\ rule' = rule + 1
    /\ UNCHANGED context
    /\ LET verdict == Verdicts(context)[rule]
       IN IF verdict = "pass" \/ (action = "deny" /\ rule \in SkippedOnceDenied)
          THEN UNCHANGED <<action, reason, triggered_rules>>
          ELSE Apply(verdict)

Next == RunRule

Spec == Init /\ [][Next]_vars

(***************************************************************************)
(* Properties.                                                             *)
(***************************************************************************)
Finished == rule = Len(RuleOrder) + 1

\* The loop keeps its variables in their types.
TypeOK ==
    /\ context \in Contexts
    /\ rule \in 1..18
    /\ action \in DOMAIN Severity
    /\ reason \in {RuleOrder[i] : i \in RuleIndex} \cup {"default"}
    /\ triggered_rules \in Seq({RuleOrder[i] : i \in RuleIndex})

\* The chain decides exactly the severest verdict of its rules: no order of
\* the rules, no early return and no approval changes the outcome.
ChainDecidesSeverest == Finished => action = PolicyAction(context)

\* The reason shown to the approver and written to the audit log is the first
\* rule that reached the final severity, never a rule that was overruled.
ReasonIsDecisive ==
    Finished /\ action # "allow" =>
        \E i \in RuleIndex :
            /\ reason = RuleOrder[i]
            /\ Verdicts(context)[i] = action
            /\ \A j \in 1..(i - 1) : Verdicts(context)[j] # action

\* A rule that runs later never makes the decision more permissive.
NeverLoosens == [][Severity[action'] >= Severity[action]]_vars

\* No write tool leaves the chain allowed without a human approval of its task.
WriteNeedsApproval ==
    Finished /\ action = "allow" /\ Writes(context) => context.human_approved

\* A human approval is never the reason a call is refused: what the chain denies
\* for an approved task it also denies for the same task before the approval.
ApprovalNeverDenies ==
    Finished /\ action = "deny" =>
        PolicyAction([context EXCEPT !.human_approved = FALSE]) = "deny"
=============================================================================

------------------------------ MODULE MCRouter ------------------------------
(* A small Router: a chat, a fix, an injection and a pasted secret.         *)
EXTENDS RouterRelease

MCTexts == {"chat", "fix", "injection", "secret"}

MCFindings ==
    [t \in MCTexts |->
        CASE t = "injection" -> {"prompt_injection"}
          [] t = "fix" -> {"unsafe_code_action"}
          [] t = "secret" -> {"sensitive_input_secret"}
          [] OTHER -> {}]

MCRules ==
    <<[category |-> "task_type", outcome |-> "agent", priority |-> 100],
      [category |-> "risk_level", outcome |-> "high", priority |-> 100],
      [category |-> "risk_level", outcome |-> "medium", priority |-> 90]>>

MCHits ==
    [t \in MCTexts |->
        CASE t = "fix" -> [typed |-> {1, 2, 3}, redacted |-> {1, 2, 3}]
          [] t = "secret" -> [typed |-> {1, 3}, redacted |-> {1}]
          [] OTHER -> [typed |-> {}, redacted |-> {}]]

MCKeywords ==
    [t \in MCTexts |->
        CASE t = "fix" -> {"high"} [] t = "secret" -> {"tool"} [] OTHER -> {}]

MCConfig ==
    [repairs |-> 1, risk_failure |-> "conservative", security_failure |-> "raise_risk",
     low_confidence |-> "fallback", escalates |-> TRUE, high_needs_strong |-> TRUE,
     classifies |-> TRUE, high_risk_contexts |-> BOOLEAN,
     min_confidence |-> 50, strong_confidence |-> 70, review_confidence |-> 50]

Is(task, risk, tool) == [task_type |-> task, risk_level |-> risk, needs_tool |-> tool]

(* Two developers disagree about the fix: one thinks it less risky, which   *)
(* the Router never answers.                                               *)
MCCorrections ==
    {[text |-> "fix", expected |-> Is("agent", "medium", TRUE)],
     [text |-> "fix", expected |-> Is("agent", "high", TRUE)]}

MCCore ==
    <<[text |-> "chat", expected |-> Is("chat", "low", FALSE), category |-> "normal_chat_cases"],
      [text |-> "injection", expected |-> Is("agent", "high", TRUE),
       category |-> "prompt_injection_cases"]>>

(* Floors that let one of three cases fail, as the defaults (90 and 80) let   *)
(* one of ten.                                                               *)
MCLimits == [overall |-> 60, category |-> 65, strict |-> 95]
=============================================================================

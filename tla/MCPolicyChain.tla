--------------------------- MODULE MCPolicyChain ---------------------------
(***************************************************************************)
(* The rule chain and the runs over the whole tool registry, under every   *)
(* configured permission and every combination of the facts a rule reads   *)
(* about a call of that tool.                                              *)
(***************************************************************************)
EXTENDS ToolCalls

MCToolSpecs == TOOL_SPECS
MCInitialContexts == Calls
=============================================================================

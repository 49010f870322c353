---------------------------- MODULE ToolRegistry ----------------------------
(***************************************************************************)
(* The tools of the agent (tooling/registry.py): TOOL_SPECS with the       *)
(* access, risk and category the policy reads, the arguments the schemas   *)
(* allow, the commands a tool may name and what the handlers do to the     *)
(* project.                                                                *)
(***************************************************************************)
EXTENDS Naturals, FiniteSets

(* Those that start commands; the policy knows them by their "run_".       *)
RunTools ==
    {"run_allowed_command", "run_package_script", "run_pytest", "run_ruff",
     "run_ruff_format_check", "run_mypy", "run_uv_import_graph", "run_cargo_check",
     "run_cargo_test", "run_cargo_clippy", "run_cargo_fmt_check", "run_tests",
     "run_targeted_tests", "run_typecheck", "run_build", "run_impacted_tests"}
CheckTools == RunTools \cup {"lint_typecheck", "get_diagnostics", "format_check"}

(* Those that look but leave the project alone.                            *)
PlanTools == {"patch_plan", "validate_patch_plan", "preview_patch", "apply_patch_dry_run",
              "validate_patch_scope"}

ToolsByCategory ==
    [observe |->
        {"list_files", "list_tree", "read_file", "read_file_slice", "search_code", "grep_regex",
         "git_status", "git_diff", "git_diff_file"},
     understand |->
        {"inspect_symbol", "inspect_references", "inspect_import_graph", "inspect_call_graph",
         "build_project_index", "query_project_index", "inspect_function_signature",
         "inspect_class_hierarchy", "detect_project_stack", "detect_test_framework",
         "detect_package_manager", "detect_build_system", "detect_rust_project",
         "inspect_rust_symbols", "inspect_rust_references", "dependency_inspect",
         "summarize_file"},
     verify |->
        CheckTools \cup
        {"parse_rust_errors", "parse_cargo_test_failure", "map_changed_rust_files_to_tests",
         "static_check", "parse_test_failure", "extract_stack_trace", "classify_failure",
         "compare_failure_before_after", "map_changed_files_to_tests", "select_relevant_tests"},
     security |-> {"safe_path_exists", "secret_scan"},
     memory |-> {"checkpoint_load", "checkpoint_save"},
     edit |->
        PlanTools \cup
        {"apply_patch", "apply_patch_plan", "rollback", "revert_file_patch", "format_apply"},
     audit |-> {"read_audit_log", "audit_tool_call", "audit_patch"},
     platform |->
        {"list_allowed_commands", "list_tool_catalog", "describe_tool", "tool_policy_report",
         "list_project_roots", "get_active_project", "register_project_root",
         "set_active_project"}]

Registered == UNION {ToolsByCategory[k] : k \in DOMAIN ToolsByCategory}

\* Mutant: a tool that writes is registered with the default access.
WriteToolsButFormat ==
    {"apply_patch", "rollback", "apply_patch_plan", "revert_file_patch", "checkpoint_save",
     "audit_tool_call", "audit_patch", "register_project_root", "set_active_project"}

WriteTools ==
    {"apply_patch", "rollback", "apply_patch_plan", "revert_file_patch", "format_apply",
     "checkpoint_save", "audit_tool_call", "audit_patch", "register_project_root",
     "set_active_project"}

HighRisk == {"apply_patch", "rollback", "apply_patch_plan", "revert_file_patch"}
MediumRisk == (WriteTools \cup CheckTools \cup PlanTools) \ HighRisk

TOOL_SPECS ==
    [t \in Registered |->
        [access |-> IF t \in WriteTools THEN "write" ELSE "read",
         risk |-> IF t \in HighRisk THEN "high" ELSE IF t \in MediumRisk THEN "medium" ELSE "low",
         category |-> CHOOSE k \in DOMAIN ToolsByCategory : t \in ToolsByCategory[k],
         runs |-> t \in RunTools]]

(* Every name a task may have: the literal the models and the state use.    *)
ToolName == Registered \cup {"none"}

---------------------------------------------------------------------------
(* The arguments.                                                          *)

(* Schemas with a path: to a directory, to a text file, to anything within  *)
(* the project, to a project outside of it.                                 *)
DirectoryTools == {"list_files", "list_tree", "detect_rust_project", "inspect_rust_symbols"}
TextFileTools ==
    {"read_file", "read_file_slice", "git_diff_file", "summarize_file", "format_apply",
     "validate_patch_scope", "preview_patch", "apply_patch_dry_run", "apply_patch", "rollback",
     "revert_file_patch", "patch_plan", "audit_patch"}
AnyPathTools == {"grep_regex", "safe_path_exists", "secret_scan", "inspect_rust_references",
                 "register_project_root"}

(* Which of the kinds of path the rules tell apart can pass the validator:  *)
(* a directory is no lock file, everything else may be any of them.         *)
PathsOf(t) ==
    IF t \in DirectoryTools THEN {"plain", "sensitive", "internal"}
    ELSE IF t \in TextFileTools \cup AnyPathTools
    THEN {"plain", "sensitive", "lockfile", "readme", "internal"}
    ELSE {"none"}

(* ALLOWED_COMMANDS: what a command does to caches and where it is run.     *)
CacheWriters == {"python_compileall", "uv_import_graph", "mypy_beginner_agent",
                 "pytest_beginner_agent", "cargo_check", "cargo_test", "cargo_clippy"}
InActiveProject == {"cargo_check", "cargo_test", "cargo_clippy", "cargo_fmt_check"}
ALLOWED_COMMANDS == CacheWriters \cup InActiveProject
                      \cup {"python_compile_state", "ruff_check", "ruff_format_check"}

ProfileKind(command) ==
    IF command \in CacheWriters
    THEN IF command \in InActiveProject THEN "both" ELSE "writes_cache"
    ELSE IF command \in InActiveProject THEN "active_project" ELSE "none"

(* The scripts of run_package_script reach all but the two compilations.    *)
ScriptCommands == ALLOWED_COMMANDS \ {"python_compileall", "python_compile_state"}

ProfilesOf(t) ==
    CASE t = "run_allowed_command" -> {ProfileKind(c) : c \in ALLOWED_COMMANDS}
      [] t = "run_package_script" -> {ProfileKind(c) : c \in ScriptCommands}
      [] OTHER -> {"none"}

---------------------------------------------------------------------------
(* What the handlers do to the project and to which project that is.       *)

FileChangers == {"apply_patch", "apply_patch_plan", "rollback", "revert_file_patch", "format_apply"}
ProjectChangers == FileChangers \cup {"register_project_root", "set_active_project"}

\* Mutant: the alias of rollback is forgotten.
ReportingToolsButRevert == {"apply_patch_plan", "apply_patch", "format_apply", "rollback"}

(* The tools whose result names the file they changed. *)
ReportingTools ==
    {"apply_patch_plan", "apply_patch", "format_apply", "rollback", "revert_file_patch"}
=============================================================================

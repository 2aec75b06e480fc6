------------------------------- MODULE MCTools -------------------------------
(***************************************************************************)
(* The tools of an agent for TLC: the calls of a response and who allows   *)
(* them, the hooks that run at them, the verification of what they changed *)
(* and the sets of tools that are offered.  A behaviour is one of the four *)
(* and the others stand still; that of the calls has long responses and    *)
(* one change of the mode, or sub-agents, short responses and two changes. *)
(***************************************************************************)
EXTENDS ToolExecution, Hooks, Verification, ToolSets

VARIABLE part     \* which of the models takes its steps

\* A call of each kind the checks tell apart.
C(tool, category, concurrent, content, writes) ==
    [tool |-> tool, category |-> category, concurrent |-> concurrent,
     content |-> content, writes |-> writes]

MCCall ==
    {C("ReadFile", "read", TRUE, <<"file">>, {}),
     C("WriteFile", "write", FALSE, <<"file">>, {"file"}),
     C("WriteFile", "write", FALSE, <<"plan">>, {"plan"}),
     C("WriteFile", "write", FALSE, <<".env">>, {".env"}),
     C("apply_patch", "write", FALSE, <<"file new">>, {"file", "new"}),
     C("Bash", "command", FALSE, <<"pytest">>, {}),
     C("Bash", "command", FALSE, <<"sed -i">>, {"file"}),
     C("Agent", "command", FALSE, <<>>, {}),
     C("NoSuchTool", "read", FALSE, <<>>, {})}

MCUserRules == {[tool |-> "Bash", pattern |-> "git status", effect |-> "ask"]}

MCRegistered == {c.tool : c \in MCCall} \ {"NoSuchTool"}

MCDefinition ==
    {[mode |-> "acceptEdits", tools |-> {}, disallowed |-> {}, isolation |-> ""],
     [mode |-> "acceptEdits", tools |-> {}, disallowed |-> {"Bash"},
      isolation |-> "worktree"]}

\* A hook that may reject, two that run once and one that nobody waits for.
HookOf(event, action, reject, once, async) ==
    [event |-> event, action |-> action, reject |-> reject, once |-> once,
     async |-> async]

MCHookList == <<HookOf("pre_tool_use", "command", TRUE, FALSE, FALSE),
              HookOf("pre_tool_use", "prompt", FALSE, TRUE, FALSE),
              HookOf("post_tool_use", "prompt", FALSE, FALSE, TRUE),
              HookOf("turn_start", "prompt", FALSE, TRUE, FALSE)>>

\* A Python file with a test of its name that does not import it, and a second
\* test that imports both Python files and covers the other; and a script with a
\* test of its name.
MCDirectTest == [f \in Source |-> CASE f = "a.py" -> {"test_a.py"}
                                    [] f = "c.js" -> {"c.test.js"}
                                    [] OTHER -> {}]
MCImports == {<<"a.py", "b.py">>, <<"test_b.py", "a.py">>, <<"test_b.py", "b.py">>}
MCCovers == [t \in Test |-> CASE t = "test_a.py" -> {"a.py"}
                              [] t = "test_b.py" -> {"b.py"}
                              [] OTHER -> {"c.js"}]

\* Two servers with a tool each; two skills with limits that overlap, and one
\* without limits that brings a tool.
MCMcpTools == [s \in {"docs", "db"} |-> {s}]
MCAllowed == [edits |-> {"Edit", "Read"}, reads |-> {"Read", "docs"}, ships |-> {}]
MCCustom == [edits |-> {}, reads |-> {}, ships |-> {"ship"}]

MCInit ==
    /\ part \in {"calls", "agents", "hooks", "verification", "sets"}
    /\ Init /\ HookInit /\ VerificationInit /\ ToolsInit
    /\ part # "verification" => scripts = {}

MCNext ==
    \/ /\ part = "calls" /\ UNCHANGED subs /\ Next /\ modes' <= 1 /\ responses' <= 1
       /\ UNCHANGED <<part, hookVars, verificationVars, toolVars>>
    \/ /\ part = "agents" /\ Next /\ Len(calls') <= 1
       /\ UNCHANGED <<part, hookVars, verificationVars, toolVars>>
    \/ /\ part = "hooks" /\ HookNext
       /\ UNCHANGED <<part, vars, verificationVars, toolVars>>
    \/ /\ part = "verification" /\ VerificationNext
       /\ UNCHANGED <<part, vars, hookVars, toolVars>>
    \/ /\ part = "sets" /\ ToolsNext
       /\ UNCHANGED <<part, vars, hookVars, verificationVars>>

MCSpec == MCInit /\ [][MCNext]_<<part, vars, hookVars, verificationVars, toolVars>>

=============================================================================

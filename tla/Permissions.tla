----------------------------- MODULE Permissions -----------------------------
(***************************************************************************)
(* PermissionChecker: the decision on one tool call, layer after layer.    *)
(* A call is a record: its tool, the category of the tool, whether the     *)
(* tool is safe to run next to others, the files it writes, and its        *)
(* content, a sequence: the path of a file tool, the paths of a patch as   *)
(* one text, the simple commands of a shell command.  There is one path    *)
(* and one simple command of each kind the layers tell apart.              *)
(***************************************************************************)
EXTENDS Integers, Sequences, FiniteSets

Mode == {"default", "acceptEdits", "plan", "bypass", "auto"}
Effect == {"allow", "ask", "deny"}

\* What classify_command makes of the simple commands.
Risk == [command \in {"git status", "sed -i", "pytest", "rm", "pkill python"} |->
            CASE command = "git status" -> "safe"
              [] command \in {"sed -i", "pytest"} -> "confirm"
              [] OTHER -> "deny"]

\* The list of safe commands tells them by their first words: some of them write.
IsSafeCommand(content) == content \in {<<"git status">>, <<"sed -i">>}
IsBanned(content) == \E i \in DOMAIN content : content[i] = "pkill python"
IsSensitiveFile(content) == content = <<".env">>
IsPlanFile(content) == content = <<"plan">>

\* The roots of a checker: the workspace and the temporary directory.  A call
\* without content is not looked at.
InSandbox(content) == content # <<"outside">>

PlanModeAllowedTools == {"Agent", "AskUserQuestion", "present_plan"}
WriteTools == {"WriteFile", "apply_patch"}

-----------------------------------------------------------------------------
(* The rules: what they say of one piece of content, deny before ask before *)
(* allow, wherever they stand.                                              *)

Rule == [tool : STRING, pattern : STRING, effect : Effect]

Evaluate(rules, tool, piece) ==
    LET effects == {r.effect : r \in {s \in rules : s.tool = tool
                                                    /\ s.pattern = piece}}
    IN CASE "deny" \in effects -> "deny"
         [] "deny" \notin effects /\ "ask" \in effects -> "ask"
         [] effects = {"allow"} -> "allow"
         [] OTHER -> "none"

\* A command is allowed when every simple command of it is.
ByRules(rules, c) ==
    LET effects == {Evaluate(rules, c.tool, c.content[i]) : i \in DOMAIN c.content}
    IN CASE "deny" \in effects -> "deny"
         [] "deny" \notin effects /\ "ask" \in effects -> "ask"
         [] effects = {"allow"} -> "allow"
         [] OTHER -> "none"

\* What "always allow" writes down: the family of the first command of a
\* command line, or the exact path; nothing for a call without content.
AlwaysRule(c) ==
    {[tool |-> c.tool, pattern |-> c.content[i], effect |-> "allow"] :
        i \in DOMAIN c.content \cap {1}}

-----------------------------------------------------------------------------
(* The layers.  Each decides, or says "none" and leaves it to the next one. *)

When(condition, effect) == IF condition THEN effect ELSE "none"

PlanException(mode, c) ==
    When(/\ mode = "plan"
         /\ \/ c.tool \in PlanModeAllowedTools
            \/ c.tool \in WriteTools /\ IsPlanFile(c.content),
         "allow")

SafeCommand(c) == When(c.category = "command" /\ IsSafeCommand(c.content), "allow")

BannedCommand(c) == When(c.category = "command" /\ IsBanned(c.content), "deny")

SensitiveFile(mode, c) ==
    When(c.category = "write" /\ mode \in {"acceptEdits", "bypass", "auto"}
         /\ IsSensitiveFile(c.content), "ask")

Bypass(mode) == When(mode = "bypass", "allow")

Sandbox(c) ==
    When(c.category \in {"read", "write"} /\ ~InSandbox(c.content), "deny")

\* Automatic mode, for a command no rule decides: the language model is to be
\* asked when the table is not sure.
AutoRisk(mode, c) ==
    LET risks == {Risk[c.content[i]] : i \in DOMAIN c.content}
    IN IF mode # "auto" \/ c.category # "command" \/ c.content = <<>> THEN "none"
       ELSE CASE "deny" \in risks -> "ask"
              [] "deny" \notin risks /\ "confirm" \in risks -> "classify"
              [] OTHER -> "allow"

ModeMatrix(mode, category) ==
    IF \/ category = "read"
       \/ category = "write" /\ mode \in {"acceptEdits", "auto"}
       \/ mode = "bypass"
    THEN "allow" ELSE "ask"

\* PermissionChecker.check: the first layer that decides.
Check(mode, rules, c) ==
    LET layers == <<PlanException(mode, c), SafeCommand(c), BannedCommand(c),
                    SensitiveFile(mode, c), Bypass(mode), Sandbox(c),
                    ByRules(rules, c), AutoRisk(mode, c),
                    ModeMatrix(mode, c.category)>>
        deciding == CHOOSE i \in DOMAIN layers :
                        /\ layers[i] # "none"
                        /\ \A j \in 1..(i - 1) : layers[j] = "none"
    IN layers[deciding]

=============================================================================

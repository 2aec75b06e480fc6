---------------------------- MODULE ToolExecution ----------------------------
(***************************************************************************)
(* The tool calls of a response: batches, the permission check, the prompt *)
(* and its answers, the rules file that "always allow" extends, the record *)
(* of changed files; and the sub-agents the Agent tool launches, which run *)
(* with a permission checker of their own next to the loop.                *)
(***************************************************************************)
EXTENDS Permissions

CONSTANTS
    Call,            \* the calls of the model
    UserRules,       \* the rules of the user and of the project
    Registered,      \* the tools of the registry
    Definition,      \* the definitions of agents
    Launches,        \* how sub-agents are launched
    SubAgent,        \* the sub-agents
    MaxCalls,        \* bound: calls in one response
    MaxResponses,    \* bound: responses
    MaxModes         \* bound: changes of the mode

\* What calls write: a tool that is safe next to others nothing, nor do a read and
\* the tools of plan mode; a path that is the plan only the plan.
ASSUME CallAssumption ==
    /\ Call \subseteq [tool : STRING, category : {"read", "write", "command"},
                       concurrent : BOOLEAN, content : Seq(STRING), writes : SUBSET STRING]
    /\ \A c \in Call :
          /\ c.concurrent \/ c.category = "read" \/ c.tool \in PlanModeAllowedTools
                => c.writes = {}
          /\ IsPlanFile(c.content) => c.writes \subseteq {"plan"}
    /\ Registered \subseteq STRING /\ UserRules \subseteq Rule
    /\ Launches \subseteq {"typed", "fork", "teammate"}
    /\ Definition \subseteq [mode : Mode, tools : SUBSET STRING, disallowed : SUBSET STRING,
                             isolation : {"", "worktree"}]

VARIABLES
    mode,            \* Agent.permission_mode and PermissionChecker.mode
    localRules,      \* what the file of local rules says
    unreadable,      \* that file does not parse
    always,          \* history: the calls answered "always" since it did not
    calls, results,  \* the calls of the response and those that are answered
    running,         \* calls of a parallel batch, in the order they finished
    waiting,         \* what the next call waits for
    changed,         \* _changed_files
    touched,         \* history: the files that were really changed, each with the call
    subs,            \* the sub-agents that were launched
    responses, modes

rules == <<localRules, unreadable, always>>
response == <<calls, results, running, waiting>>
files == <<changed, touched>>
bounds == <<responses, modes>>
vars == <<mode, rules, response, files, subs, bounds>>

NotLaunched ==
    [mode |-> "none", planning |-> FALSE, apart |-> FALSE, tools |-> {}, wrote |-> {}]

Init ==
    /\ mode = "default"
    /\ localRules = {} /\ unreadable = FALSE /\ always = {}
    /\ calls = <<>> /\ results = <<>> /\ running = <<>> /\ waiting = "none"
    /\ changed = {} /\ touched = {}
    /\ subs = [s \in SubAgent |-> NotLaunched]
    /\ responses = 0 /\ modes = 0

-----------------------------------------------------------------------------
(* The mode and the rules.                                                 *)

\* shift+tab and the commands, at any moment.
SetMode ==
    /\ modes < MaxModes
    /\ mode' \in Mode \ {mode}
    /\ modes' = modes + 1
    /\ UNCHANGED <<rules, response, files, subs, responses>>

LoadLocal == IF unreadable THEN {} ELSE localRules

RulesLoadedOnce == UserRules

\* Every check reads the files again.
Rules == UserRules \cup LoadLocal

\* Somebody edits the file and leaves it unreadable.
BreakRules ==
    /\ ~unreadable /\ localRules # {}
    /\ unreadable' = TRUE
    /\ always' = {}
    /\ UNCHANGED <<mode, localRules, response, files, subs, bounds>>

\* append_local_rule: what can be read is written back with the new rule.
AppendLocalOnlyNew(new) == localRules' = new /\ unreadable' = FALSE

AppendLocal(new) ==
    IF new = {} THEN UNCHANGED <<localRules, unreadable>>
    ELSE localRules' = LoadLocal \cup new /\ unreadable' = FALSE

-----------------------------------------------------------------------------
(* The response and its batches.                                           *)

Respond ==
    /\ calls = <<>> /\ responses < MaxResponses
    /\ responses' = responses + 1
    /\ \E n \in 1..MaxCalls : calls' \in [1..n -> Call]
    /\ UNCHANGED <<mode, rules, results, running, waiting, files, subs,
                   modes>>

NextCall == Len(results) + 1

SafeIfWrite(c) == c.concurrent \/ c.category = "write"

\* partition_tool_calls: a tool that is registered and safe to run with others.
Safe(c) == c.concurrent /\ c.tool \in Registered

\* The neighbours that are all safe make one batch.
BatchEnd ==
    IF NextCall > Len(calls) \/ ~Safe(calls[NextCall]) THEN NextCall
    ELSE CHOOSE j \in NextCall..Len(calls) :
            /\ \A k \in NextCall..j : Safe(calls[k])
            /\ j < Len(calls) => ~Safe(calls[j + 1])

Batch == NextCall..BatchEnd

InParallel == Cardinality(Batch) > 1

Touched(c) == touched \cup {c} \X c.writes

\* _record_changed_file: the arguments of a patch hold no path, and commands are
\* not looked at.
NamesItsFile(c) == c.category = "write" /\ c.tool # "apply_patch"
RecordedOf(c) == IF NamesItsFile(c) THEN c.writes ELSE {}

\* _execute_single_tool_direct: a call of a parallel batch ends.  Neither the
\* rules nor the record of changed files are consulted.
FinishParallel ==
    /\ InParallel
    /\ \E k \in Batch :
          /\ \A i \in DOMAIN running : running[i] # k
          /\ running' = Append(running, k)
          /\ touched' \in {touched, Touched(calls[k])}
    /\ UNCHANGED <<mode, rules, calls, results, waiting, changed, subs,
                   bounds>>

InOrderOfCompletion == running
InOrderOfCalls == [k \in 1..Len(running) |-> Len(results) + k]

\* gather returns the results in the order of the calls.
Gathered == InOrderOfCalls

CollectParallel ==
    /\ InParallel /\ Len(running) = Cardinality(Batch)
    /\ results' = results \o Gathered
    /\ running' = <<>>
    /\ UNCHANGED <<mode, rules, calls, waiting, files, subs, bounds>>

-----------------------------------------------------------------------------
(* A call on its own.                                                      *)

Current == calls[NextCall]

Turn == NextCall <= Len(calls) /\ ~InParallel

Answered == results' = Append(results, NextCall) /\ waiting' = "none"

UnknownTool ==
    /\ Turn /\ Current.tool \notin Registered
    /\ Answered
    /\ UNCHANGED <<mode, rules, calls, running, files, subs, bounds>>

\* The agents of definition d see the tools that are not kept from all agents or
\* from this one, and of these the ones it names.
AllAgentDisallowedTools ==
    {"dispatch", "Agent", "present_plan", "ExitPlanMode", "EnterPlanMode"}

AgentTools(d) ==
    LET visible == (Registered \ AllAgentDisallowedTools) \ d.disallowed
    IN IF d.tools = {} THEN visible ELSE visible \cap d.tools

\* A fork is defined on the spot, with no limits; a teammate gets the mode that
\* bypasses the checks whatever its definition is.
Defined(how, d) ==
    CASE how = "fork" ->
            [mode |-> "bypass", tools |-> {}, disallowed |-> {}, isolation |-> ""]
      [] how = "teammate" -> [d EXCEPT !.mode = "bypass", !.isolation = "worktree"]
      [] OTHER -> d

\* Who works in a worktree of its own; a definition may ask for one.
Apart(how, d) == Defined(how, d).isolation = "worktree"

SubModeAsDefined(how, d) == Defined(how, d).mode

\* A parent in plan mode makes its sub-agents read-only, but not those that work in
\* a worktree.
SubMode(how, d) ==
    IF mode = "plan" /\ ~Apart(how, d) THEN "plan" ELSE Defined(how, d).mode

Launch ==
    \E s \in SubAgent, how \in Launches, d \in Definition :
        /\ subs[s] = NotLaunched
        /\ subs' = [subs EXCEPT ![s] =
              [mode |-> SubMode(how, d), planning |-> mode = "plan",
               apart |-> Apart(how, d), tools |-> AgentTools(Defined(how, d)),
               wrote |-> {}]]

\* The tool runs, and a write tool that succeeds is recorded; or it fails, a
\* patch perhaps after some of its writes.  An Agent call launches a sub-agent or
\* fails.
Run ==
    /\ \/ /\ touched' = Touched(Current)
          /\ changed' = changed \cup RecordedOf(Current)
       \/ /\ Current.tool = "apply_patch"
          /\ \E some \in SUBSET Current.writes :
                touched' = touched \cup {Current} \X some
          /\ UNCHANGED changed
       \/ UNCHANGED files
    /\ \/ Current.tool = "Agent" /\ Launch
       \/ UNCHANGED subs
    /\ Answered

Refuse == Answered /\ UNCHANGED <<files, subs>>

CheckCall ==
    /\ Turn /\ waiting = "none" /\ Current.tool \in Registered
    /\ LET verdict == Check(mode, Rules, Current)
       IN \/ verdict = "allow" /\ Run
          \/ verdict = "deny" /\ Refuse
          \/ /\ verdict \in {"ask", "classify"}
             /\ waiting' = verdict
             /\ UNCHANGED <<results, files, subs>>
    /\ UNCHANGED <<mode, rules, calls, running, bounds>>

\* The language model lets the command pass, or it does not, fails or is late.
Classify ==
    /\ waiting = "classify"
    /\ \/ Run
       \/ waiting' = "ask" /\ UNCHANGED <<results, files, subs>>
    /\ UNCHANGED <<mode, rules, calls, running, bounds>>

Answer(what) ==
    /\ waiting = "ask"
    /\ IF what = "deny" THEN Refuse ELSE Run
    /\ IF what = "always"
       THEN AppendLocal(AlwaysRule(Current)) /\ always' = always \cup {Current}
       ELSE UNCHANGED rules
    /\ UNCHANGED <<mode, calls, running, bounds>>

\* Every call is answered: the results go to the model, or too many unknown
\* tools end the run without them.
EndResponse ==
    /\ calls # <<>> /\ Len(results) = Len(calls)
    /\ calls' = <<>> /\ results' = <<>>
    /\ UNCHANGED <<mode, rules, running, waiting, files, subs, bounds>>

-----------------------------------------------------------------------------
(* A sub-agent: _execute_tool_noninteractive, with no rules of its own.  A *)
(* call that would ask is refused, unless the model lets it pass.          *)

SubAllows(s, c) ==
    LET verdict == Check(subs[s].mode, {}, c)
    IN \/ verdict = "allow"
       \/ verdict = "ask" /\ subs[s].mode = "bypass"
       \/ verdict = "classify"

SubCall(s) ==
    /\ subs[s] # NotLaunched
    /\ \E c \in Call :
          /\ c.tool \in subs[s].tools
          /\ SubAllows(s, c)
          /\ subs' = [subs EXCEPT ![s].wrote = @ \cup {c} \X c.writes]
    /\ UNCHANGED <<mode, rules, response, files, bounds>>

-----------------------------------------------------------------------------

Next ==
    \/ SetMode \/ BreakRules
    \/ Respond \/ FinishParallel \/ CollectParallel
    \/ UnknownTool \/ CheckCall \/ Classify \/ EndResponse
    \/ \E what \in {"deny", "allow", "always"} : Answer(what)
    \/ \E s \in SubAgent : SubCall(s)

Spec == Init /\ [][Next]_vars

-----------------------------------------------------------------------------
(* Properties.                                                             *)

\* The results stand in the order of the calls, each call with one, whichever
\* calls ran in parallel and in whatever order these ended.
ResultsInCallOrder == \A k \in DOMAIN results : results[k] = k

\* Verification is told of every file that a tool which names its file changed,
\* also when other calls ran next to it.
ChangedAreRecorded == \A t \in touched : NamesItsFile(t[1]) => t[2] \in changed

\* It is told of the files of a patch too (violated, see the README).
PatchesAreRecorded == \A t \in touched : t[1].category = "write" => t[2] \in changed

\* A call the user allowed for good is not asked about again, unless a stronger
\* rule or the sensitive file says so, or the rules file was broken.  Compound
\* commands and calls without content are not covered by what is written down.
AlwaysMeansAlways ==
    waiting = "ask" =>
        \/ Current \notin always
        \/ Len(Current.content) # 1
        \/ IsSensitiveFile(Current.content)
        \/ ByRules(UserRules, Current) # "none"

\* A rule that could be read is still there after another one is added.
RulesAreKept == [][LoadLocal \subseteq LoadLocal' \/ unreadable']_vars

\* A sub-agent that was launched while planning, in the directory of the chat,
\* changes no file but the plan, even after the loop has left plan mode.  Left out
\* are the commands of the safe list, which plan mode lets pass and which may write.
PlannersOnlyRead ==
    \A s \in SubAgent :
        subs[s].planning /\ ~subs[s].apart =>
            \A w \in subs[s].wrote :
                \/ w[2] = "plan"
                \/ w[1].category = "command" /\ IsSafeCommand(w[1].content)

\* The same of every sub-agent and every command (violated, see the README).
PlannersWriteNothing ==
    \A s \in SubAgent :
        subs[s].planning => \A w \in subs[s].wrote : w[2] = "plan"

\* In plan mode the loop changes no file but the plan unless the user agrees
\* (violated, see the README).
PlanModeAsks ==
    [][mode = "plan" /\ waiting # "ask" =>
          \A t \in touched' \ touched : t[2] = "plan"]_vars

=============================================================================

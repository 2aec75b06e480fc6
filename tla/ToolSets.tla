------------------------------ MODULE ToolSets ------------------------------
(***************************************************************************)
(* Which tools the agent of the chat is offered: the registry of the chat, *)
(* the narrowed copies that skills and the coordinator mode put in its     *)
(* place, the tools that MCP servers and LoadSkill add while others hold   *)
(* a copy, and what sub-agents get of them.  A registry is an object: it   *)
(* is known by its place in heap, and the agent and _full_registry refer   *)
(* to one.  A run waits for the MCP servers, a slash command does not.     *)
(***************************************************************************)
EXTENDS Naturals, Sequences, FiniteSets

CONSTANTS
    Work,       \* tools that do work
    McpTools,   \* function: an MCP server to the tools it offers
    Skill,      \* the skills that are installed
    Allowed,    \* allowedTools of each skill, {} for all
    Custom,     \* tools of the tool.json of each skill
    MaxCopies   \* narrowed copies made (bound)

VARIABLES
    heap,       \* the registries: the chat's first, copies after it
    agentAt,    \* agent.registry
    fullAt,     \* agent._full_registry, 0 while there is none
    coordinator,
    mcp,        \* connecting, up, failed (nobody has the manager) or closed
    active,     \* agent.active_skills
    narrowedBy, \* skills whose allowedTools took effect
    loaded,     \* tools that LoadSkill registered
    child       \* the tools of the sub-agent that was made last

toolVars == <<heap, agentAt, fullAt, coordinator, mcp, active, narrowedBy, loaded, child>>

Servers == DOMAIN McpTools
\* Tools with is_system_tool, which every filter of a skill keeps.
System == {"LoadSkill", "TeamCreate", "TeamDelete", "SyntheticOutput", "AskUser", "EnterPlanMode"}
CoordinatorTools == {"Agent", "SendMessage", "SyntheticOutput", "TeamCreate", "TeamDelete"}
Disallowed == {"Agent", "present_plan", "ExitPlanMode", "EnterPlanMode"}

ToolsInit ==
    /\ heap = <<Work \cup System \cup {"Agent", "present_plan", "ExitPlanMode"}>>
    /\ agentAt = 1 /\ fullAt = 0 /\ coordinator = FALSE
    /\ mcp = "connecting" /\ active = {} /\ narrowedBy = {} /\ loaded = {} /\ child = {}

Offered == heap[agentAt]

\* The agent gets a new registry with some of the tools of its own.
Replace(tools) ==
    /\ Len(heap) <= MaxCopies
    /\ heap' = Append(heap, tools)
    /\ agentAt' = Len(heap) + 1

----------------------------------------------------------------------------
\* Where the tools of the servers go: the registry of the chat.
McpTargetOfAgent == agentAt
McpTarget == 1

\* _init_mcp ends.  A server that did not connect is left out; the listing of
\* one that fails breaks off, with the tools of those before it registered.
McpConnects(up, listed) ==
    /\ mcp = "connecting"
    /\ heap' = [heap EXCEPT ![McpTarget] = @ \cup UNION {McpTools[s] : s \in listed}]
    /\ mcp' = IF listed = up THEN "up" ELSE "failed"
    /\ UNCHANGED <<agentAt, fullAt, coordinator, active, narrowedBy, loaded, child>>

\* Leaving the chat closes the manager, which takes its tools out again.
McpCloses ==
    /\ mcp = "up" /\ mcp' = "closed"
    /\ heap' = [heap EXCEPT ![1] = @ \ UNION {McpTools[s] : s \in Servers}]
    /\ UNCHANGED <<agentAt, fullAt, coordinator, active, narrowedBy, loaded, child>>

\* filter_tool_registry: fails unless each allowed tool is in the registry.
Narrowed(s) == Allowed[s] \cup (Offered \cap System)

\* The command of a skill in inline mode: whatever the filter said, the skill
\* is active from then on.
UseSkill(s) ==
    /\ active' = active \cup {s}
    /\ IF Allowed[s] # {} /\ Allowed[s] \subseteq Offered
       THEN Replace(Narrowed(s)) /\ narrowedBy' = narrowedBy \cup {s}
       ELSE UNCHANGED <<heap, agentAt, narrowedBy>>
    /\ UNCHANGED <<fullAt, coordinator, mcp, loaded, child>>

----------------------------------------------------------------------------
\* Tool calls of a run.
Calls(tool) == mcp # "connecting" /\ mcp # "closed" /\ tool \in Offered

\* LoadSkill pins the skill and registers its own tools, but not its limits.
LoadSkill(s) ==
    /\ Calls("LoadSkill")
    /\ active' = active \cup {s}
    /\ heap' = [heap EXCEPT ![agentAt] = @ \cup Custom[s]]
    /\ loaded' = loaded \cup Custom[s]
    /\ UNCHANGED <<agentAt, fullAt, coordinator, mcp, narrowedBy, child>>

\* TeamCreate in coordinator mode keeps the registry for the sub-agents.
CreateTeam ==
    /\ Calls("TeamCreate")
    /\ coordinator' = TRUE
    /\ fullAt' = agentAt
    /\ Replace(Offered \cap CoordinatorTools)
    /\ UNCHANGED <<mcp, active, narrowedBy, loaded, child>>

\* TeamDelete changes neither the mode nor a registry.

\* A sub-agent or a teammate is made from _full_registry or the agent's own.
Spawn ==
    /\ Calls("Agent")
    /\ child' = heap[IF fullAt = 0 THEN agentAt ELSE fullAt] \ Disallowed
    /\ UNCHANGED <<heap, agentAt, fullAt, coordinator, mcp, active, narrowedBy, loaded>>

ToolsNext ==
    \/ \E up \in SUBSET Servers : \E listed \in SUBSET up : McpConnects(up, listed)
    \/ McpCloses
    \/ \E s \in Skill : UseSkill(s) \/ LoadSkill(s)
    \/ CreateTeam \/ Spawn

ToolsSpec == ToolsInit /\ [][ToolsNext]_toolVars

----------------------------------------------------------------------------
\* What a skill's allowedTools took away stays away: neither a later skill, nor
\* the servers that connect after it, nor the coordinator mode gives the agent
\* back a tool, apart from those LoadSkill adds (skills/executor.py,
\* filter_tool_registry; app.py, _init_mcp; team_create.py).
LimitsHold ==
    \A s \in narrowedBy : Offered \subseteq Allowed[s] \cup System \cup loaded

\* The coordinator gives work away, and the sub-agents have the whole registry
\* (team_create.py, "keep the full registry for the sub-agents").
SubAgentsKeepTools ==
    fullAt # 0 => Work \subseteq heap[fullAt]

\* The tools of connected servers, which the prompt of the agent announces
\* (app.py, _init_mcp), are offered to it unless it coordinates.
McpToolsAreOffered ==
    mcp = "up" /\ ~coordinator =>
        UNION {McpTools[s] : s \in Servers} \cap heap[1] \subseteq Offered

\* A skill whose tools are installed is given them, or the full registry.
SkillsGetTheirTools ==
    \A s \in active : Allowed[s] \subseteq heap[1] /\ ~coordinator => Allowed[s] \subseteq Offered

=============================================================================

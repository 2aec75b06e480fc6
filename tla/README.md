# XHX-Agent in TLA+

Models, model-checking runs and machine-checked proofs about XHX-Agent, the
coding agent under `src/src/xhx_agent` (paths below are relative to that
directory). The modules describe the parts of the program that keep state over
several awaits, several actors or several sessions; each definition has the
lines it stands for in `PROJECT.json` (`map`).

To check a run: `tlc -workers 2 -config <run>.cfg <Module>`; to check the proofs:
`tlapm <Module>_proofs.tla`, for the eight modules under *Proofs*.

## The system

One process with one event loop. The chat (`tui/app.py`, a Textual application)
owns a conversation, a session file and an agent. A prompt starts a *run*, an
asyncio task that drives `Agent.run` (`agents/agent_runner.py`): the loop compacts
the history when it has grown, injects context, asks the model, executes the
tools it calls and appends their results, until an answer calls no tool.
Everything else meets the run at its awaits: key presses, slash commands, the
poller that reports background agents, the widgets that resolve its futures.
`xhx run`, the JSON-RPC loop and sub-agents drive the shorter loop
`run_to_completion`; several processes may share a workspace and its files.

| Part | State it keeps | Operations | What is hard |
|---|---|---|---|
| Agent loop (`agents/agent_runner.py`) | position in the loop, counters, changed files | `run`, `run_to_completion`, `manual_compact` | every await; commands that edit the history meanwhile |
| Conversation, compaction (`conversation.py`, `context/manager.py`) | the history, flags of the injected context, circuit breaker | append, inject, group, keep a tail, rebuild | a call must keep its results through every cut |
| Result budget (`context/manager.py` 92–432) | `seen_ids`, `replacements`, `snipped_through_turn`, the directory of stored results | store, cut, clone for a fork, empty the directory | decisions must be stable over requests, compactions, rewinds and forks |
| Model clients (`client.py`, `models/routing.py`) | calls in progress, which client of the chain is asked | stream, collect, fall back, continue a cut reply | errors before and after the first event; parts of parallel calls |
| Tool execution, permissions (`agents/agent_runner.py`, `safety/permissions/`) | results so far, changed files, mode, rules file | batch, check, ask, execute, record, always allow | parallel and serial paths differ; a mode that changes while somebody is asked |
| Verification gate (`agents/agent_runner.py`, `verification/`, `repo_intel/impact.py`) | changed files, passed, attempts | infer tests, run, repair | flags that outlive the run they are of |
| Hooks (`hooks/`) | once-only marks, buffer of messages | match, run, collect | one engine for the loop and its sub-agents |
| Tools on offer (`tools/`, `skills/`, `teams/coordinator.py`) | registries and their narrowed copies | connect servers, use and load skills, coordinate, spawn | copies that do not see what the original gains |
| Session log (`memory/__init__.py`, `tui/app.py`) | the file, `_session_saved_count`, `history_cursor` | append at turn end, at completion, in `finally`; boundary record; load | three cursors into a list that others shorten and extend; crashes |
| Headless runs (`runtime/`, `cli/`, `evidence/store.py`, `evals/replay.py`) | trace, transcript, summary, session index | run, resume, compact, replay | several files of one run, several processes, kills |
| Run control (`tui/app.py`) | `_streaming`, `_agent_task`, queues of news | prompts, interrupts, Escape, ctrl-c, poller, plan approval | several starters of runs, cancellation at every await |
| Prompts (`tui/app.py`, `tools/ask_user.py`) | futures, widgets, `_pending_*` | ask, show, answer, time out, cancel | answers to a future nobody awaits; one slot, many askers |
| Plan mode (`tui/app.py`, `tools/*plan*`) | mode, `_pre_plan_mode`, flags and text in the tools, the dialog | enter, leave, submit, approve | flags that outlive a cancelled run; text read twice |
| Background tasks, teams (`agents/task_manager.py`, `teams/`) | task status, queue of ended tasks, mail directories, members | launch, follow up, cancel, report, send, poll, delete | reports once and in the end; mail of members that come and go |
| Task board (`teams/shared_task.py`, `tools/task_*.py`) | tasks in memory and in a file | create, get, list, update | memory and file that disagree after a failed write |
| Sub-agents (`tools/agent_tool.py`) | nothing beyond the above | foreground, background, teammate, in a worktree | life in the background, mode and tools fixed at launch |
| File history (`filehistory/`, `cache.py`, file tools) | backups, versions, snapshots, contents | edit, snapshot, rewind, cache | one version counter for edits, turns and rewinds |
| Worktrees (`worktree/`, its tools and command) | directories, handles in use, sessions file | create, enter, exit, clean up, restore | sub-agents share the manager; restarts; git that fails |
| Repository index (`repo_intel/`) | `index.json`, its SQLite mirror | build, update, query | files edited between the steps, other processes |
| Memory of facts (`memory/`) | `.xhx/memories.md`, records | extract, inject, recall, clear | a file rewritten from what was read before a model was asked |
| Context pack (`context/compiler.py`) | – | candidates, packing | pure |
| Shell, web and search tools, checkpoints, evaluations, prompts, configuration | – | – | see *Not modelled* |

`PROJECT.json` lists every part with what is modelled of it and, for those that
are not, the reason; its `hazards` name the lines where something can go wrong
that a test would hardly reach, and the properties that cover them.

How parts interact: the run awaits futures that widgets resolve (*Prompts*); it
yields events from which the chat writes the session file (*SessionLog*) and
takes plan submissions (*PlanMode*); commands and Escape act on the conversation
and the task of the run (*AgentLoop*, *RunControl*); ended background tasks and
mail become runs (*Teams*, *RunControl*); a final answer passes the gate
(*Verification*) and makes a snapshot of the files (*FileHistory*); the calls of a
response pass the checks, whose mode sub-agents inherit (*ToolExecution*), and fire
the hooks all runs share (*Hooks*); sub-agents and the chat share one worktree manager
(*Worktrees*); a fork copies the decisions of its parent about results and stores its
own in the same directory (*ResultBudget*); before a request the recalled memories
are packed (*Memory*, *ContextPack*), after it the reply is taken from whichever
client answered (*Clients*); runs from the command line leave files that later ones
resume (*Headless*).

## Modules

### Conversation, AgentLoop, MCAgentLoop

`Conversation` is the history: a message is a role and a set of tool-call ids;
texts and token counts are abstracted. Its operators are the injection of the
environment and the memories, `build_messages`, the grouping, the kept tail and
its alignment, the rebuilt history. `AgentLoop` is the coroutine: `pc` is the
await or yield where it stands, one action per piece between two of them
(`TurnTop`, the summary of a compaction and its failures, the request, the
response, the gate, the execution, the results). `Interactive` chooses between
`run` and `run_to_completion`. Compactions are records of who waits for a summary
and which tail it will put back, because `/compact` is dispatched during a run too.
The threshold of a compaction is a choice, so that one may happen at every point
where the code tests it. Tools are abstracted to: they answered, they
were unknown, they changed files.
`MCAgentLoop` takes both loops into one run (`Loops`): the chat's, and with
`Interactive` FALSE the one of sub-agents and headless runs. It adds a history
variable, whether the user has given `/rewind`, which the property about the context
of requests needs.

### SessionLog

The session file as a sequence of records and the two cursors. Messages are
numbered, so that a property can say which are in the file, how often and in what
order. Actions: the context is injected, messages appear, `TurnComplete`,
`CompactNotification`, `LoopComplete` and the `finally` clause write; `/compact`,
`/rewind` and `/session new` change the history; the process crashes or exits and the session is
loaded again with `FilterUnresolved`. The chat dispatches commands during a run, too
(`tui/app.py` 1253–1269); `StreamingCommands` names those the user gives then.
`/compact` and `/rewind` act on the conversation under the run; after `/session new` the
chat has another conversation and the run goes on in its own (`away`), whose end is in no
file. The picker of `/resume`, opened during a run, is not modelled.

### Headless

Runs of `xhx run` (with --continue and --resume), of the JSON-RPC loop and of the
benchmarks: several processes, each a record of where it stands. A run writes its
trace turn by turn, its transcript in two steps (a file that is replaced in place is
empty before it is full), then its line of the index; `xhx compact` replaces the
transcript of the last line; `Replay` is what `xhx replay` makes of a trace. A process
may be killed at any point (`CompactDies` lets `xhx compact` die, too). An entry of the
index is what --continue or --resume asks for, without the task text. Runs that are
recorded go through `record_session` (`runtime/session.py` 139–173) and
`_record_run_session` (`cli/main.py` 160–187); the RPC loop and the benchmarks
record none. Writes of the trace that fail, which the loops swallow, are left out.

### SharedTasks

The one store a team has in a process: dictionary, counter and file. Every write may
fail before it touches the file or leave it torn; reads overwrite what is in the file
and keep what only memory has; `TeamDelete` drops the store. A task is known by the
call that created it, so that a property can say whose id it is.

### RunControl

The runs as tasks with a stage (created, preparing, running, asking, stopping), the flag
`_streaming`, the task `_agent_task`, the message pump that waits for a run it
interrupts, the slot of the permission prompt (`_pending_perm_request`), the dialog of a
plan, ended tasks and mail for the lead. A run asks for permission once at most, which
is a bound. The pump delivers the answer (`Answer`), so none arrives while a handler waits
for the end of a run: if the run swallows the cancellation, as the shell tool does
(`tools/bash.py` 115–143), and asks afterwards, the two wait for each other (`Stuck`).

### Prompts

The permission widget, the question widget, their futures, the slot of the one
`AskUserQuestion` tool that the chat and all background agents share, five
minutes' timeout, Escape and ctrl-c. A future is open exactly as long as somebody
waits for it. Two things of Textual are taken from its documented behaviour:
priority bindings of the application come before those of a widget, and an
exception in a message handler ends the application. The removal of an old widget
and the mounting of a new one are one step. One run at a time: overlapping
runs are the subject of `RunControl`.

### PlanMode, MCDialogs

The permission mode, the mode to go back to, the flags and texts in the two
submitting tools, the plan file and the approval dialog. A run may be started by
a notification under an open dialog. `MCDialogs` notes in a history variable what
has happened so far that a promise does not survive: a run was cut off, ExitPlanMode
was used (for `ShownIsRequested`), the mode was changed by shift+tab or `/permission`.
`ExecutedIsShown` supposes that present_plan has been used (`planText # None`): a plan
that only ExitPlanMode submitted is read from its file for the dialog and once more
for the execution (`tui/app.py` 1736–1742), and a notification run under the dialog may
have rewritten it.

### Teams, TaskLifecycle

`Teams` has the background tasks, the mail directories as sequences, the
membership of one team and the poller of the chat. In the program `PathIsText` is
FALSE: saving the team raises, and no teammate is ever launched
(`MembersAreLaunched` below). The run sets it to TRUE and describes what the rest of
the code does when that write succeeds. Names of mail files sort in the order of
writing. `TaskLifecycle` is the abstract specification: launched at most once,
over once, reported once with the true outcome; `Teams` implements it under the
mapping `Lifecycle` (property `ReportsTrueOutcome`).

### Permissions, ToolExecution

`Permissions` is `PermissionChecker.check` as a pure function of mode, rules and call:
nine layers, the first that decides wins. There is one path and one simple command
of each kind that a layer tells apart; a call is its tool, its category, what it
writes and its content as the rules see it. One of the safe commands is `sed -i`, which
the list lets pass and which writes. `ToolExecution` takes the calls of a
response through it: neighbours that are safe run in parallel, past checks and
records; the others are checked, asked about or classified by a model, run and
recorded. "Always allow" extends a rules file that others may have broken. The mode
changes at any moment. Sub-agents are launched with a mode of their own
(`SubMode`) and act from then on next to the loop, in the directory of the chat or in a
worktree (`Apart`): the mode of the latter is the one of their definition, also when the
chat is planning (`tools/agent_tool.py` 536–547). `Launches` names the kinds of launch; a
definition may ask for isolation. What sub-agents wrote is noted with the call that
wrote it.

### Hooks

One engine: the marks of once-only hooks, the buffer of prompt messages, tasks of
asynchronous hooks. Each run passes its events (those of the chat and of
`run_to_completion` differ) and, at each, the matching hooks one after the other with
awaits between: a run has the set of those it has not started, and the next of its steps
starts them in their order up to the first it waits for (`Started`). Of asynchronous hooks
it is counted how many are in flight. What a hook's process does is that it ends.
Conditions are taken to hold.

### Verification

The gate of a chat: changes by path, by patch and by shell; `infer_verification`
with its choice between changed tests, tests named after a file, tests that the
import graph reaches, and all; the repair attempts; further prompts of the same
chat. The files are of two languages (`Python` and others), whose tests are run by
commands of their own, the latter as far as `package.json` has a script for it
(`Scripts`, `TakesTargets`); without any command the gate passes
(`agents/agent_runner.py` 626–629). Configuration files, such as `pyproject.toml`, as
changed files are left out. Which tests find a file broken is given by `Covers`.

### ToolSets

Registries as objects on a heap: the chat's and the narrowed copies that skills and
`TeamCreate` put in its place, while servers connect and `LoadSkill` adds tools.

### FileHistory

Contents are numbers that say when they were written. Tools that invalidate the
cache and those that do not (shell, `apply_patch`) are different actions; patches
write several files and may fail between two (with one file, as in the run, a patch
changes it or does not). `/rewind` pops messages, chooses a
snapshot and restores it.

### Worktrees

The manager's methods do not await while they hold the lock, so each is one step; but it
may fail half-way, as `Faults` says: git exits with an error when asked what changed, the
setup of a new worktree raises after it was added and before it is recorded
(`worktree/manager.py` 57–73), a removal fails unnoticed (244–250), the sessions file is not
written or torn (204–212). `missed` notes the worktrees that such a failure kept out of the
records; `MaxFailures` bounds the steps in which something fails. A worktree is what git and
its mtime tell: commits, uncommitted work, a branch, its age. EnterWorktree and
ExitWorktree are the chat's and its sub-agents', who keep both tools.

### RepoIndex

The index in its steps: fingerprint, symbols, imports, calls and references, the file
(emptied, then filled), the mirror. Texts are edited between any two steps and other
processes load, build and write. An update keeps what it has of files whose size and
time are unchanged. `Text` is the set of texts an edit may write, of which `text` has one per
path. Edges come from the texts by the rules of the code (`Resolve`, `Callee`), the caps on
their number aside. One of the files is `tsconfig.json` (`Config`): what it says of paths
decides where an import is looked for (`Candidates`), and an update that keeps the edges of
an unchanged file does not resolve them again (`repo_intel/index.py` 97–103). `ways` notes
what the file has said so far.

### ContextPack, Memory

`ContextPack` is the packing of the context compiler, candidates by priority into a
budget, and `Recall`, the choice of memories; `Memory` uses both for the memories a
prompt gets, and has the file of facts: extraction reads it, asks a model and rewrites
it, one at a time in a process; conversations are cleared and compacted, the memory
is cleared, processes leave. The model is taken to keep what it is shown.
The file is rewritten in place (`memory/auto_memory.py` 181); a write that fails half-way is
left out.

### ResultBudget

`apply_tool_result_budget` runs before each request, on a copy of the history. A
history is a sequence of sets of results (one set per message; the empty set is the
answer that ends a turn), a result an id and a form: short, long, huge, stored,
snipped. Lengths are a function of the form. `Fresh`, `Oversized`, `Surplus` and
`ToSnip` are the three passes in closed form, the sort of pass 2 included. `sent` is
what the last request showed, which the provider has in its prefix cache. Actions:
a request, results, a final answer, an abort, a fork and its end, a compaction (of
either agent, which empties the directory of both), `/rewind`, and a restart with a
resume, which starts from an empty replacement state because nothing calls
`reconstruct_replacement_state`. A fork as a teammate would not copy the state; no teammate
is launched. A resume of another session within one process,
where the state stays, is left out. The assumption says that previews alone
never pass the limit of a message, which takes about 93 calls in one message.

### Clients

A model call: the replies of a provider and the event streams that may carry them
(external, from how the three clients read them), the accumulation of tool calls, the
chain of clients, the collector, and the branch of the loop for replies cut at the
output limit. A Chat Completions reply that has calls and ends with "stop", whose calls
the client drops (`client.py` 518–520), is left out. The arguments of a call arrive in
two parts, which is enough for them to be whole, half or mixed up.

### MCDialogs, MCSession, MCTools, MCFiles, MCRequests

Each puts together, for one run, the models of one area: the dialogs, what is
written to files and read back, the tools, the files of the project, the requests.
The models of an area share no variable, and interleaving them would only multiply
their states, so a variable `part` chooses at the start which of them takes the
steps and the others stand still: TLC checks each of them completely and the
invariants of all. `MCTools` also gives the calls, hooks, tests and skills that the
constants stand for; the calls are two of its parts, one with long responses, one change of
the mode and no sub-agents, one with short ones, two changes and sub-agents.

## What the runs show

| Run | Shows | Bounds and why they are enough |
|---|---|---|
| `loop` (MCAgentLoop) | results stay with calls, requests and summary requests are well formed and carry the context, the kept tail is current, every run ends, of the chat's loop and of `run_to_completion` | 3 calls, 2 in one response, 2 prompts, histories past a compaction that keeps 3 messages (1 in the second loop): a boundary can fall before, inside and after a group; gate, retry and breaker limits of 1 are reached and passed |
| `control` (RunControl) | no prompt is dropped or waits for ever, and news is heard, unless the chat is stuck | two prompts, one task or one mail, each run asks once: up to three runs, two of them at once, of which one is interrupted while it asks or before |
| `dialogs` (MCDialogs) | who waits can be answered, the input comes back; the plan shown is the one submitted, the one executed the one shown once present_plan was used; the mode comes back | three requests and questions, two askers: a widget left over, its successor, and another asker in the slot; three plans, four runs: one on the screen, one submitted under it, one after |
| `teams` (Teams) | mail conserved, a deleted team silent, each task reported once, truly and in the end | two members and an ordinary agent, a window of two polls: follow-ups, a member that ends while another writes to it |
| `session` (MCSession) | what was said is in the chat's file, up to the cursor during a run, while only `/session new` is given in one; a listed run can be resumed with all it said and replays as recorded; a reported task stays on the board | 4 messages, 6 records: a turn with a call, its results and a second prompt, a crash between any two writes; two processes and two runs of two turns: one resumes or compacts what the other just wrote; four tasks: one of a failed write, one of a torn one and two after |
| `tools` (MCTools) | results in the order of calls, changes recorded, "always" kept, planners in the chat's directory write nothing but the plan, safe commands aside, hook messages added once, the first answer verified where there is a test command, limits of skills kept | responses of three calls of eight kinds: a batch with a call before or behind it; one change of mode between any two steps, or two with a sub-agent, so that one falls after its launch; two runs with four events each; three sources and their tests in two languages, three states of `package.json`, two repairs; three skills, two servers, three copies |
| `files` (MCFiles) | backups keep their contents, a sole edit is undone, reads are current; no worktree forgotten but after a failure, no work of the session lost to a sub-agent's clean-up or an unconfirmed ExitWorktree; an index that passes for current is, up to `tsconfig.json` | one file, three contents, two versions, five messages, snapshots dropped at two, two conversations, two rewinds: a rewind of what was edited after another one; one worktree of each kind, one commit, one failure of any kind and one restart, in either order; three files and `tsconfig.json`, two processes, two edits: an edit during a build by each |
| `requests` (MCRequests) | a message stays within its limit, a result is shown as before; facts stay until cleared; a reply is taken from one client and as written | 5 messages, two results of the main agent, long ones of which two are too much; one turn kept and a batch of two: the cursor advances, falls back and advances again, a fork with a placeholder of its own; two facts told in different extractions; a chain with one client of each protocol, two calls in a reply, three requests with one recovery |

A component's own specification run alone with the constants of its area fires every
action it has. The types (`TypeOK`) of the modules that state them hold under the same
bounds; only those of `AgentLoop` are among the listed properties, the others say less than
what is listed.

Some properties hold under a condition that the module names. A constant switches
the trouble off (`StreamingCommands`, `StopsWhenCut`, `EscapeIn`, `Faults`,
`CompactDies`, `Launches`, `Process`), or a history variable conditions the property
(`rewound`, `happened`, `restarts`, `missed`, `ways`), or it names states it says nothing of
(`Stuck`, `Apart`, `HasTestCommand`). Where the code leaves the condition, it leaves the
property; the next section says how.

## What the code does not keep

Four runs (`expect: violation`) show disagreements between the code and its
documentation in full:

- `compact_while_streaming`: `/compact` during a run orphans tool results, which
  `README.md` excludes (`NoOrphanResult`).
- `transcript_pairs`: `xhx compact` separates results from their calls, which the head of
  `context/compaction.py` excludes (`TranscriptsKeepPairs`).
- `worktree_heads`: after a restart ExitWorktree removes commits without
  `discard_changes`, which the description of the tool excludes
  (`UnconfirmedExitKeepsCommits`).
- `second_team`: a second TeamCreate leaves sub-agents without working tools, which the
  comment there excludes (`SubAgentsKeepTools`).

The others are stated at the end of the modules, under the heading of this section or
with a remark that they are violated, or are the conditions mentioned above. Each is
violated in TLC under the specification of its own module (or of the MC module named)
with the constants of its area's configuration, changed as the table says.

| Statement | Module | Change of the configuration | What happens, and who says otherwise |
|---|---|---|---|
| `RewindRemovesWholeTurn` | AgentLoop | – | `/rewind` stops at the assistant message before tool results and keeps the call (comment at `commands/handlers/rewind.py:31`) |
| `ContextSent` without `~rewound` | MCAgentLoop | – | rewinding the first turn also pops the environment and the memories, which have the user's role, while `env_injected` stays set: they are never sent again |
| `VerifiedBeforeCompletion` | AgentLoop | MaxIterations = 3, IdleCommands = {} | `_verification_passed` is never reset: later changes complete unverified (`runtime/config.py:55`) |
| `AnswersAreVerified` | Verification | Ways = {"path"} suffices | the same, and the gate asks only about files that WriteFile and EditFile name, and about changed tests only where there are some (comment at `agents/agent_runner.py:379`) |
| `FirstAnswerIsVerified` without `HasTestCommand` | Verification | – | without a test script nothing is run, and the gate passes (`agents/agent_runner.py:379`) |
| `SpokenIsLogged`, `LoggedUpToCursor` | SessionLog | StreamingCommands = {"compact"} or {"rewind"} | during a run the commands shorten the history below the cursors; the rest is empty, and the saved count jumps to its end |
| `SpokenIsLogged` | SessionLog | StopsWhenCut = TRUE | the saved count is not moved by a compaction; a cancelled run then flushes nothing (comment at `tui/app.py:1629`) |
| `LoggedOnce` | SessionLog | – | the context is inserted in front of `history_cursor`: the first prompt is written twice (comment at `tui/app.py:1989`) |
| `ResumedResultsFollowCall` | SessionLog | – | after a compaction whose tail ends in results they are written again without their call (`README.md:25`) |
| `IndexedIsResumable` | Headless | CompactDies = TRUE | a transcript is replaced in place: killed there, `xhx compact` leaves an empty file |
| `ReplayTellsOutcome` | Headless | – | a trace without an end replays as a success (comment at `evals/replay.py:28`) |
| `ErrorsChangeNothing` | SharedTasks | – | a call that failed to write has changed memory, and a later write saves it (`teams/shared_task.py:44`) |
| `RunIsAgentTask` | RunControl | MaxPrompts = 0 | the poller makes two runs of one ended teammate (`commands/defaults.py:83`) |
| `ApprovedPlansAreTaken` | RunControl | – | a notification run starts before the approval, which is then dropped (`tests/test_tui_app_flows.py:42`) |
| `ReasonReachesTool` | RunControl | – | the reason of a cancel is set in another task's context (comment at `tui/app.py:1257`) |
| `ChatIsNeverStuck` | RunControl | – | a command swallows the cancellation (`tools/bash.py` 115–143) and its run asks for permission; the handler that waits for that run (`tui/app.py` 1264) keeps the answer from it (1914) |
| `EveryoneIsHeard` | RunControl | EscapeIn with "preparing" | `_streaming` stays set without a run (`tui/app.py:1059`) |
| `ChatStaysUp` | Prompts | – | the answer to a cancelled run's widget raises in the handler (comment at `tui/app.py:1621`) |
| `EscapeDenies` | Prompts | – | the application's Escape comes before the widget's (`tui/permission_dialog.py:30`) |
| `QuestionsAreShown` | Prompts | – | a question that times out on the screen blocks the poller (`tools/ask_user.py:3`) |
| `ShownIsRequested`, `ExecutedIsShown` without `"abort"` | MCDialogs | – | flags and text of a cancelled run are taken by the next one (`tui/app.py:1585`, `tools/present_plan.py:31`) |
| `ExecutedIsShown` without `planText # None` | MCDialogs | – | the plan of ExitPlanMode is read from its file again after the approval (`tui/app.py` 1736–1742) |
| `ShownIsRequested` with ExitPlanMode | MCDialogs | – | the text of an earlier present_plan is preferred to the plan file (`tools/exit_plan_mode.py:17`) |
| `LeavingRestoresMode` without `"mode"` | MCDialogs | – | shift+tab saves no mode; `/permission plan` in plan mode saves plan mode (`commands/handlers/plan.py:15`) |
| `MembersAreLaunched` | Teams | PathIsText = FALSE | a Path cannot be written as JSON (`teams/models.py:27`) |
| `AvailableMeansListening` | Teams | – | the lead hears of an idle member after the member's window closed (`teams/manager.py:119`) |
| `LeadMailIsRead` | Teams | – | idle announcements go to a directory nobody reads (`teams/manager.py:125`) |
| `DeletedTeamIsStopped` | Teams | – | no handle is ever registered, so none is cancelled (`teams/manager.py:71`) |
| `PatchesAreRecorded` | ToolExecution | – | the arguments of a patch have no path to record (docstring at `agents/agent_runner.py:530`) |
| `PlannersWriteNothing` | ToolExecution | – | a sub-agent in a worktree keeps the mode of its definition; in the directory of the chat the safe list lets `sed -i`, `tee` and `find -delete` pass (comment at `tools/agent_tool.py:190`) |
| `PlanModeAsks` | ToolExecution | – | a call that was asked about, or classified, before the mode changed to plan runs after it |
| `OnceRunsOnce` | Hooks | – | hooks are matched before they are marked: two runs at one event both start one that is to run once |
| `PromptReachesItsRun` | Hooks | – | whoever collects first takes the message of another run's hook |
| `RejectStopsTool` | Hooks | – | the engine logs the failure of a rejecting hook and raises nothing for the loops to catch (docstring at `hooks/engine.py:53`) |
| `McpToolsAreOffered` | ToolSets | – | servers that connect after a skill narrowed the registry add to the one that was replaced |
| `SkillsGetTheirTools` | ToolSets | – | a second skill whose tools the first took away is announced and gets none of them (the log at `skills/executor.py:74` says "full registry") |
| `RewindUndoesRemovedEdits` | FileHistory | Shell = FALSE | a snapshot refers to the last edit's backup only (comment at `commands/handlers/rewind.py:37`) |
| `RewindRemovesCreatedFiles` | FileHistory | Shell = FALSE | a created file gets a backup after its creation (same comment) |
| `RewindKeepsEarlierTurns` | FileHistory | Shell = FALSE | every snapshot names all files ever tracked (`commands/handlers/rewind.py:65`) |
| `ReadsAreCached` | FileHistory | – | an empty cache is false, so it is never filled (`cache.py:4`) |
| `PatchIsAtomic` | FileHistory | File = {f1, f2}, MaxMessages = 4 | writes are not undone when a later one fails (`tools/patch.py:29`) |
| `RemoveTakesBranch` | Worktrees | – | a worktree that was entered has lost its branch (`tools/exit_worktree.py:21`) |
| `StaleIsUnused` | Worktrees | – | age is the mtime of the directory, not of the work (`worktree/manager.py:120`) |
| `EnterToolEnters` | Worktrees | – | EnterWorktree does not set the agent's directory (`tools/enter_worktree.py:19`) |
| `ExitSparesAgents` | Worktrees | – | `/worktree exit --remove` takes the last one, a sub-agent's (`tools/exit_worktree.py:40`) |
| `RestoredIsOwn` | Worktrees | – | the last entry may be a sub-agent's worktree (`worktree/manager.py:179`) |
| `FoundAfterFailures` | Worktrees | as in `files` | a worktree is added before it is recorded; the file is written in place and a failure swallowed; a removal that failed is taken for one |
| `StaleKeepsWork` | Worktrees | – | what looks old is removed by force, with commits, uncommitted work and branch (`worktree/manager.py` 119–144) |
| `RemovalKeepsWork` | Worktrees | Faults = {"git"} | a nonzero exit of git counts as no change (`worktree/manager.py:105`) |
| `CompleteWhenCurrent` | RepoIndex | – | what an unchanged file says depends on files that were added or changed since |
| `FollowsConfigWhenCurrent` | RepoIndex | – | edges of unchanged files are kept when `tsconfig.json` changes (`repo_intel/index.py` 97–103) |
| `QueriesFollowIndex` | RepoIndex | – | the mirror is queried, also when the last synchronisation failed (docstring at `repo_intel/db.py:3`) |
| `StoredResultsAreThere` | ResultBudget | – | a compaction of either agent empties the directory while previews in the kept tail, or in a fork, name its files (`context/manager.py:222`) |
| `DecisionsSurviveRestart` | ResultBudget | – | the records of the decisions are written and never read: a resumed session decides anew (`context/manager.py:261`) |
| `FactsSurvive` | Memory | Process = {p1, p2}, MaxTalk = 3 | two processes rewrite one file from what each read before it asked |
| `ClearedStaysCleared` | Memory | – | an extraction that read before `/memory clear` writes the facts back |
| `UserFactsAreShown` | Memory | UserFacts = {f1} | a project file, even an empty one, hides the user's |
| `RecalledAreInjected` | Memory | Budget = 2 | the project map, which no loop uses, takes the place of a memory in the pack |
| `TruncatedIsContinued` | Clients | – | only the Anthropic client reports a cut reply |
| `FailuresFallBack` | Clients | Chain <- ChainOfResponses | the Responses client does not know the event of a failed reply: the empty answer is taken (`README.md:29`) |
| `CallsAreAsWritten` | Clients | – | arguments that do not parse become an empty object and the tool is called with it |

These are not claims about how likely the behaviour is.

## Fairness

- `AgentLoop`: weak fairness of the loop's step and of the ends of summaries, in
  `MCAgentLoop` of whichever loop `part` chose. The
  model answers, fails or the stream breaks off; tools end; permission prompts are
  answered. The event loop schedules every ready task.
- `RunControl`: weak fairness of each run, of the prompt that waits for a cancelled run,
  of the user's answer once the pump takes it, and of the poller, a timer of two
  seconds. A run that asks takes no step without that answer or a cancellation. That a
  run ends once it is in its try block is `EveryRunEnds` of `AgentLoop`.
- `Teams`: weak fairness of each agent's own steps and of the end of the chat's
  run. Strong fairness of the chat's poll, which is enabled between runs
  only: the timer fires again and again, and between two runs there is time for it.

No fairness is assumed of the user, of failures, of cancellation or of crashes.

## Proofs

TLC checks each property on one instance; the theorems state it for every value of
the constants that satisfies the modules' named assumptions. For each component there
is an inductive invariant that adds to the property what keeps it true; it is named
below with what it is needed for. The same names are in the modules.

`Conversation_proofs` has the lemmas about the history: appending, inserting the
context, cutting a prefix at an aligned point and rebuilding keep every result
directly behind the call it answers and no call made twice; `FilterUnresolved` makes a
well-formed request of such a history.

`AgentLoop_proofs`:

- `TypeCorrect`: `Spec => []TypeOK`.
- `ResultsStayWithCalls` (`ResultsFollowCall`) and `NothingLostToCompaction`
  (`KeptTailIsCurrent`), both for `StreamingCommands = {}`: with `/compact` during a
  run the first is false (`compact_while_streaming`). Neither is inductive. The
  invariant `PairingInv` adds that the history is not empty in a run, that every tail
  a waiting compaction holds is a suffix of the history, that one compaction waits at
  a time, and that the calls being executed are those of the last message.
- `RequestsStayWellFormed` (`RequestsWellFormed`), under the same hypothesis.
  `RequestInv` adds that no two messages make the same call and that the same holds of
  the histories that are being summarised: only then is a call that is left in part
  the one whose results follow.
- `ContextIsSent` (`ContextSent`) for `Interactive`, as in the run: both loops, and
  whatever `/compact` does during one. The proof sees each step as one of six changes of
  the head of the history (`HeadStep`): kept, sent, injected, rebuilt with the context,
  rebuilt without it, when the run is to inject it before it goes on.

`Session_proofs`:

- `SpokenStaysLogged` (`SpokenIsLogged`) and `LoggedBeforeCursor` (`LoggedUpToCursor`),
  for `CommandsWait` (neither `/compact` nor `/rewind` during a run) and
  `~StopsWhenCut`; stopped after its history was cut, a run flushes nothing. `LogInv`
  says of a prefix that it is logged (`UpTo`), and that this holds up to the saved count
  while nothing was cut, up to the cursor in a run, and of the whole history between
  runs. Loading is reading from the last boundary on (`LastBoundary`), and an appended
  record is read behind the others.
- `IndexStaysInAgreement` (`IndexAgreesWithTrace`) and, for `~CompactDies`,
  `IndexedStaysResumable` (`IndexedIsResumable`). `HeadlessInv`: a run has its number, and
  so its files, for itself until its line is in the index (`RunsApart`); what it has
  written by each of its steps (`RunsSound`); a transcript is torn only while it is
  replaced (`LinesSound`). Two compactions may replace one transcript, so a compaction
  of a compaction must be one of the original (`CompactedTwice`).
- `ReportedTasksStay` (`ReportedStay`). `BoardInv` says what memory and, while it can be
  read, the file have in common: the reported tasks under their ids, and a counter past
  them.

`Files_proofs`:

- `HistoryTypesStay`, and `SnapshotsStaySound` (`SnapshotsKeepContents`). `HistoryInv`: a
  snapshot refers to versions that were given out (`SnapshotsAgree`), a later one to later
  versions (`SnapshotsGrow`), so that what a rewind sets the counters to is past all
  that the kept snapshots refer to.
- `RewindRestoresContent` (`RewindUndoesSoleEdit`) by `AttemptsAgree`: since the last rewind
  no version was given out twice.
- `ReadsStayCurrent` (`ReadsAreCurrent`): the cache is empty, and an empty one is not used.
- `WorktreesTypesStay`, `NoneForgotten` (`NothingForgotten`), by `Findable`: a worktree
  that was neither left on purpose nor missed in a failure is both in use and in the
  file. `WorkIsKept` (`RemovalKeepsWork`), for `"git" \notin Faults`, by `BasesKnown`:
  until a restart the manager knows the commit a worktree with a branch started from.
- `IndexStaysFresh` (`FreshWhenCurrent`), from `IndexAssumption` and for any processes. What
  an index says of a file is tied to the stamp it has for it: `IndexInv` says of every
  index, in the file or in the hands of a process, that of a file with that stamp it
  says only what the file says now (`Says`), its imports resolved in one of the `ways` so far,
  and holds every symbol (`Holds`).

`Tools_proofs`, from `CallAssumption` (a tool that is safe next to others writes nothing,
nor do reads and the tools of plan mode, and writing the plan writes the
plan), `HookAssumption` and `VerificationAssumption`:

- `OrderKept` (`ResultsInCallOrder`) and `ChangesRecorded` (`ChangedAreRecorded`) by
  `OrderInv`. A parallel batch records nothing, so the second needs that every call
  of a batch is safe: `BatchIsSafe` shows that the batch the code cuts out ends before
  the first call that is not.
- `RulesKept`: the action property `RulesAreKept`. `AlwaysStays` (`AlwaysMeansAlways`) by
  `AlwaysInv`: what was allowed for good is in the rules that can be read, and no layer
  before the rules asks about it, unless the file is sensitive or a rule of the user does.
- `PlannersBound` (`PlannersOnlyRead`), of sub-agents that work in the directory of the
  chat, their safe commands aside. `PlannerInv` says that the mode of such a sub-agent
  is `plan` for good; `PlanAllows`, that the first deciding layer of `Check` then allows
  nothing else that writes another file.
- `LimitsStay` (`LimitsHold`). `LimitsInv` adds that an agent with limits never holds the
  first registry, the only one the servers change.
- `EachPromptOnce` (`PromptsAddedOnce`). Messages are numbered as they are emitted;
  `MessagesInv` says that the buffer and the conversations are a partition of the numbers
  given out (`Parts`).
- `FirstAnswerVerified` (`FirstAnswerIsVerified`): until the first answer nothing has
  passed the gate, and the tests it runs include those named after a changed file
  (`NamedTestsRun`), which therefore pass when it does (`NamedTestsPass`).

`Prompts_proofs`:

- `RequestsAnswerable` (`WaitingIsAnswerable`) and `InputReturns` (`InputComesBack`), for any
  background agents.
- `DialogShowsRequest` (`ShownIsRequested`), `ApprovedIsExecuted` (`ExecutedIsShown`) and
  `PlanModeRestores` (`LeavingRestoresMode`), for any number of runs and plans, by `PlanInv`.
  Its parts say up to which event of `happened` each holds: between runs nothing asks for
  approval (`AskedInRun`), what was submitted is the text (`SubmittedIsText`), the dialog
  shows it until the next is taken (`DialogIsText`), which is why `ApprovedIsExecuted` is about
  plans of present_plan alone; the saved mode is the one left
  (`PreIsEntered`).

`Teams_proofs`:

- `TasksKeepPromise`: `Spec => ReportsTrueOutcome`, the refinement of
  `TaskLifecycle`, by `QueueInv`, which says that the queue of ended tasks
  has no duplicates and holds exactly those that are over and unreported.
- `MailsConserved`: `Spec => []MailConserved`. Conservation is about sums over the
  members; `MailInv` adds the types of the mail variables, and `WaitersAreTeammates`
  that only members wait on a mailbox.
- `DeletedStaysSilent`: `Spec => []DeletedTeamIsSilent`. The members of a deleted team are
  forgotten (`MailInv`), so that nothing is announced to the lead's id.

`Requests_proofs`:

- `TypeCorrect`: `Spec => []TypeOK` of `ResultBudget`, for all lengths, limits and bounds.
- `SentResultsStable`: `Spec => SentResultsAreStable`. That a request repeats the one
  before it follows from two facts about a result that was sent: the agent has seen
  it, so it is not fresh and never stored later, and the state decides exactly what was
  sent (`Settled`). What still changes is cut by pass 3, and a batch that is full was
  filled by growth, since the cursor falls back with the history (`FullBatchIsNew`).
  `StableInv` adds that the ids of a history are distinct (`OneEach`) and
  below the agent's counter (`IdsAreGiven`), so that a new result or a fork's
  placeholder was never sent, and that no run stands between a restart and its first
  request, when a fork would copy decisions that do not cover the history.
- `BudgetKept`: `Spec => []WithinBudget`. The limit is on a sum that pass 2 brings down
  result by result; `StoringFits` shows that it gets there: what it stores is a prefix
  of the results by length (`SurplusIsPrefix`), and when it stores all, the previews are
  within the limit by `ResultBudgetAssumption`. `BudgetInv` adds that a message is decided
  whole or not at all (`AllOrNothing`), so that pass 2 never starts from decisions it must
  not change, and that no result is in two messages (`Apart`). What pass 3 cuts gets no
  longer.
- `FactsStay` (`FactsSurvive`), when one process works on the project: two lose each other's
  facts. `MemoryInv`: an extraction in flight is the only one and was told all that the file
  holds, whatever is cleared, compacted or left meanwhile.
- `RepliesTaken` (`TakenAsWritten`), for any chain of clients and any number of calls.
  `ClientInv` says where the collector is in a reply that reaches its end (`OnTheWay`):
  before a call, between its parts, before its end, or at one of the six places in two
  mixed calls; the slots and the calls are then what the events so far make of them
  (`Filled`, `Passed`). The stream of a reply is a chain of rests, each beginning with the
  events of a call (`FlattenRests`). A client is replaced only while the response is
  empty.

The assumptions of the theorems are the named `ASSUME`s of the modules, which TLC
evaluates in the runs, and the conditions named above, each of which holds in a run; the
section *What the code does not keep* has what happens without it. The exception is
`Interactive`: it only says which loop the chat's part of `MCAgentLoop` is.

The provers do no induction over data. Where a definition is a recursive function of a
number or of a set (`FilterUnresolved`, `TurnsLess`, `Without`, `FlattenSeq`, the sum
over a set), what holds of all its values is proved from the least argument of which it
would not: `Least` for numbers, `MinimalSet` for finite sets. The sums of
`Requests_proofs` (`SumLaws`, `SumMonotone`, `SumMinus`) come from the definition of the
community module's `SumFunction` that way.

Only model-checked: the liveness properties (`EveryRunEnds`, `EveryoneIsHeard`,
`PromptGetsItsTurn`, `EveryTaskReported`), for the prover does neither `ENABLED` nor fairness;
and so everything about `RunControl`, where they are all there is. Each of the other
properties of the passing runs is the statement of a theorem.

## Plan

Done: the loop with its compaction, budget and clients, the chat around it, the
files and worktrees, background agents and teams, the session and headless runs,
the tools with permissions, hooks, verification and registries, the index and the
memory, and the proofs above.

To come, in this order:

1. `RunControl`, `PlanMode` and `Prompts` over one notion of a run. Each has its own
   now; what one knows of the other two is a bit that changes at any time.
2. An abstract conversation that `AgentLoop` and `SessionLog` both implement, so that
   what the file holds can be stated of what the loop did.

## Not modelled

- **Wire formats and messages.** How a history becomes the messages of a provider,
  and the parsing of its streams beyond what `Clients` says of order and parts: text
  to text, no state.
- **Rendering.** Widgets, panes, status lines, progress and broadcasts of teams; of
  widgets only what resolves a future is modelled.
- **Command line.** Argument parsing and formatting; of `cli/` the sessions and their
  resumption are in `Headless`.
- **Parsers** of `SKILL.md`, definitions of agents, hooks and sources: their results
  are constants of the models.
- **The shell, web and search tools.** They start programs or ask services; for the
  state of the agent only what they write, fail or time out with matters, which the
  tools of `ToolExecution` and `FileHistory` have.
- **Checkpoints and policy.** `create_checkpoint`, `decide_tool` and
  `decide_with_checker` have no caller.
- **Deferred tools.** No tool of the program asks to be deferred.
- **Names of agents.** A registry that nothing resolves a name in.
- **Evaluations**: a loop over headless runs. **Prompts and configuration**: text and
  constants read once.
- **Unused code**: `models/openai_compatible.py` serves only the summaries of
  `xhx compact`; `adopt_running`, `write_memory`, `propose_memories`, `write_evidence` and
  `prune` have no caller in the program.

----------------------------- MODULE RunControl -----------------------------
(***************************************************************************)
(* Who starts, interrupts and ends the runs of the chat (tui/app.py): the  *)
(* user's prompts, the approval of a plan, Escape, /cancel and ctrl-c, and *)
(* the poller that turns background tasks that ended and mail for the lead *)
(* into runs of their own.                                                 *)
(*                                                                         *)
(* A run is the asyncio task of one _send_message call.  What it does to   *)
(* the conversation is AgentLoop; here it is only where it stands:         *)
(*   created    waiting for its first step, or for the MCP servers         *)
(*   preparing  _streaming is set, the try block is not entered yet        *)
(*   running    in the try block                                           *)
(*   asking     there, waiting for the answer to a permission prompt       *)
(*   stopping   cancelled there, not yet through its finally block         *)
(***************************************************************************)
EXTENDS Integers, Sequences, FiniteSets

CONSTANTS
    EscapeIn,       \* the stages of a run in which the user presses Escape
    CtrlC,          \* the user interrupts with ctrl-c
    SlowStart,      \* MCP servers are still connecting when runs are created
    Asks,           \* some tool of a run asks for permission
    MaxPrompts,     \* bound: prompts and plan approvals
    MaxNews         \* bound: background tasks that end, and mails a teammate
                    \* sends to the lead

ASSUME ControlAssumption ==
    /\ EscapeIn \subseteq {"created", "preparing", "running", "asking",
                           "stopping"}
    /\ CtrlC \in BOOLEAN /\ SlowStart \in BOOLEAN /\ Asks \in BOOLEAN
    /\ MaxPrompts \in Nat /\ MaxNews \in Nat

VARIABLES
    streaming,      \* _streaming
    agentTask,      \* _agent_task: the index of a run, or NoRun
    runs,           \* every task created so far, in order
    pump,           \* the run on_chat_input_submitted awaits, or NoRun
    pumpReason,     \* cancel_reason in the context of the message pump
    pending,        \* the run of _pending_perm_request, or NoRun
    dialog,         \* the plan approval is shown
    inputEnabled,   \* the chat input accepts text
    ended, mail,    \* _notify_queue and the lead's mailbox
    prompts, news

plan == <<dialog, inputEnabled>>
shown == <<pending, plan>>
background == <<ended, mail, news>>
vars == <<streaming, agentTask, runs, pump, pumpReason, shown,
          prompts, background>>

NoRun == 0
Stage == {"created", "preparing", "running", "asking", "stopping", "over"}
Reason == {"", "interrupt"}
Run == [stage : Stage, reason : Reason, mayAsk : BOOLEAN]

\* The context of a task is a copy of its creator's.  A run asks once at most,
\* which is a bound.
NewRun(reason) == [stage |-> "created", reason |-> reason, mayAsk |-> Asks]
Over == [stage |-> "over", reason |-> "", mayAsk |-> FALSE]

\* The message pump takes the next event of the user.  A run that does not wait
\* for MCP servers takes its first step before that, in the iteration of the
\* event loop that follows its creation.
PumpFree ==
    /\ pump = NoRun
    /\ SlowStart \/ \A r \in DOMAIN runs : runs[r].stage # "created"

Alive(r) == r # NoRun /\ runs[r].stage # "over"

Init ==
    /\ streaming = FALSE /\ agentTask = NoRun /\ runs = <<>>
    /\ pump = NoRun /\ pumpReason = ""
    /\ pending = NoRun /\ dialog = FALSE /\ inputEnabled = TRUE
    /\ ended = 0 /\ mail = 0
    /\ prompts = 0 /\ news = 0

-----------------------------------------------------------------------------
(* The life of a run.                                                      *)

Start(r) ==
    /\ runs[r].stage = "created"
    /\ runs' = [runs EXCEPT ![r].stage = "preparing"]
    /\ streaming' = TRUE
    /\ UNCHANGED <<agentTask, pump, pumpReason, shown, prompts, background>>

EnterTry(r) ==
    /\ runs[r].stage = "preparing"
    /\ runs' = [runs EXCEPT ![r].stage = "running"]
    /\ UNCHANGED <<streaming, agentTask, pump, pumpReason, shown, prompts,
                   background>>

\* A tool needs the user's permission: a widget takes the place of an earlier
\* one, whose run keeps waiting, and the input is off until it is answered.
\* There is no timeout.
Ask(r) ==
    /\ runs[r].stage = "running" /\ runs[r].mayAsk
    /\ runs' = [runs EXCEPT ![r].stage = "asking", ![r].mayAsk = FALSE]
    /\ pending' = r /\ inputEnabled' = FALSE
    /\ UNCHANGED <<streaming, agentTask, pump, pumpReason, dialog, prompts,
                   background>>

\* What is left of the finally block once the run is logged: _finish_streaming
\* and _process_task_notifications.  Each task that was a teammate's leaves a
\* mail for the lead; the tasks are answered by one new run.  A plan the run
\* presented is shown last.
ReportTasks(rest, reason) ==
    /\ IF ended > 0
       THEN /\ runs' = Append(rest, NewRun(reason))
            /\ agentTask' = Len(runs')
       ELSE runs' = rest /\ agentTask' = NoRun
    /\ ended' = 0 /\ mail' \in mail..(mail + ended)

ShowPlanOrNot ==
    \/ UNCHANGED plan
    \/ dialog' = TRUE /\ inputEnabled' = FALSE

Finish(r) ==
    /\ runs[r].stage \in {"running", "stopping"}
    /\ streaming' = FALSE
    /\ ReportTasks([runs EXCEPT ![r] = Over], runs[r].reason)
    /\ ShowPlanOrNot
    /\ UNCHANGED <<pump, pumpReason, pending, prompts, news>>

-----------------------------------------------------------------------------
(* Cancelling.                                                             *)

\* task.cancel().  Before its first step the coroutine does not run at all; before
\* the try block the CancelledError leaves it without the finally block; in the try
\* block it reaches the finally block, unless a command executing in the shell
\* takes it for an interrupt, by the reason in the context of the run, and returns
\* the output so far: then the run goes on.
Cancelled(r) ==
    IF runs[r].stage \in {"created", "preparing"}
    THEN runs' = [runs EXCEPT ![r] = Over]
    ELSE \/ runs' = [runs EXCEPT ![r].stage = "stopping"]
         \/ /\ runs[r].stage = "running" /\ runs[r].reason = "interrupt"
            /\ UNCHANGED runs

CancelKey ==
    /\ PumpFree
    /\ Alive(agentTask) /\ runs[agentTask].stage \in EscapeIn
    /\ Cancelled(agentTask)
    /\ UNCHANGED <<streaming, agentTask, pump, pumpReason, shown, prompts,
                   background>>

\* ctrl-c does not wait for the run it cancels.
HandleCtrlC ==
    /\ CtrlC /\ PumpFree
    /\ streaming
    /\ IF Alive(agentTask) THEN Cancelled(agentTask)
       ELSE UNCHANGED runs
    /\ streaming' = FALSE /\ agentTask' = NoRun
    /\ inputEnabled' = TRUE
    /\ UNCHANGED <<pump, pumpReason, pending, dialog, prompts, background>>

-----------------------------------------------------------------------------
(* What the user asks for.                                                 *)

\* _dispatch_command, or send_user_message: while a run streams the text is
\* dropped without a word.
Dispatch(streamingNow, taskNow) ==
    IF streamingNow
    THEN agentTask' = taskNow /\ UNCHANGED runs
    ELSE /\ runs' = Append(runs, NewRun(pumpReason))
         /\ agentTask' = Len(runs')

\* A prompt typed while a run streams cancels it and waits for its end.  The
\* reason is set in the context of the message pump.
Interrupt ==
    /\ streaming /\ Alive(agentTask)
    /\ pumpReason' = "interrupt"
    /\ Cancelled(agentTask)
    /\ pump' = agentTask
    /\ UNCHANGED <<streaming, agentTask>>

Prompt ==
    /\ PumpFree /\ inputEnabled
    /\ prompts < MaxPrompts
    /\ prompts' = prompts + 1
    /\ \/ Interrupt
       \/ /\ ~(streaming /\ Alive(agentTask))
          /\ streaming' = FALSE     \* _finish_streaming when the flag was stuck
          /\ Dispatch(FALSE, NoRun)
          /\ UNCHANGED <<pump, pumpReason>>
    /\ UNCHANGED <<shown, background>>

\* The run the handler waits for has ended.
FinishStreaming ==
    streaming' = FALSE /\ Dispatch(FALSE, NoRun)

PromptGoesOnOnceFree ==
    /\ pump # NoRun /\ ~Alive(pump) /\ ~streaming
    /\ FinishStreaming
    /\ pump' = NoRun
    /\ UNCHANGED <<pumpReason, shown, prompts, background>>

PromptGoesOn ==
    /\ pump # NoRun /\ ~Alive(pump)
    /\ FinishStreaming
    /\ pump' = NoRun
    /\ UNCHANGED <<pumpReason, shown, prompts, background>>

\* The user chooses to execute the plan, or answers it with feedback.
ApprovePlan ==
    /\ PumpFree /\ dialog
    /\ prompts < MaxPrompts
    /\ prompts' = prompts + 1
    /\ dialog' = FALSE /\ inputEnabled' = TRUE
    /\ Dispatch(streaming, agentTask)
    /\ UNCHANGED <<streaming, pump, pumpReason, pending, background>>

\* The user answers a permission prompt, which the message pump hands to the run.
\* (The answer to the widget of a run that was cancelled ends the application:
\* ChatStaysUp of Prompts.  Here the user does not give it.)
Answer ==
    /\ PumpFree
    /\ pending # NoRun /\ runs[pending].stage = "asking"
    /\ runs' = [runs EXCEPT ![pending].stage = "running"]
    /\ pending' = NoRun /\ inputEnabled' = TRUE
    /\ UNCHANGED <<streaming, agentTask, pump, pumpReason, dialog, prompts,
                   background>>

-----------------------------------------------------------------------------
(* The background.                                                         *)

TaskEnds ==
    /\ news < MaxNews
    /\ news' = news + 1 /\ ended' = ended + 1
    /\ UNCHANGED <<streaming, agentTask, runs, pump, pumpReason, shown,
                   prompts, mail>>

MailArrives ==
    /\ news < MaxNews
    /\ news' = news + 1 /\ mail' = mail + 1
    /\ UNCHANGED <<streaming, agentTask, runs, pump, pumpReason, shown,
                   prompts, ended>>

\* Every two seconds: first the tasks, then the mail, to which the tasks add.
\* Each creates a run, and neither waits for it to set _streaming.
PollTasksOnly ==
    /\ ~streaming
    /\ ended > 0
    /\ ReportTasks(runs, "")
    /\ UNCHANGED <<streaming, pump, pumpReason, shown, prompts, news>>

Poll ==
    /\ ~streaming
    /\ ended + mail > 0
    /\ \E notes \in 0..ended :
          LET forTasks == IF ended > 0 THEN <<NewRun("")>> ELSE <<>>
              forMail == IF mail + notes > 0 THEN <<NewRun("")>> ELSE <<>>
          IN runs' = runs \o forTasks \o forMail
    /\ agentTask' = Len(runs')
    /\ ended' = 0 /\ mail' = 0
    /\ UNCHANGED <<streaming, pump, pumpReason, shown, prompts, news>>

-----------------------------------------------------------------------------

RunStep(r) == Start(r) \/ EnterTry(r) \/ Ask(r) \/ Finish(r)

UserStep == CancelKey \/ HandleCtrlC \/ Prompt \/ ApprovePlan \/ Answer

Next ==
    \/ \E r \in DOMAIN runs : RunStep(r)
    \/ PromptGoesOn \/ Poll
    \/ UserStep
    \/ TaskEnds \/ MailArrives

Spec == Init /\ [][Next]_vars

\* The event loop runs every task and the poller's timer; EveryRunEnds of
\* AgentLoop is why a run that has entered its try block and waits for nobody
\* comes to its end.  A run that asks goes on when it is answered: the user
\* answers, as soon as the message pump takes the answer.
MaxRun == MaxPrompts + 2 * MaxNews

FairSpec ==
    /\ Spec
    /\ \A r \in 1..MaxRun : WF_vars(r \in DOMAIN runs /\ RunStep(r))
    /\ WF_vars(Answer)
    /\ WF_vars(PromptGoesOn)
    /\ WF_vars(Poll)

-----------------------------------------------------------------------------
(* Properties.                                                             *)

\* Every variable stays in its type.
TypeOK ==
    /\ streaming \in BOOLEAN /\ dialog \in BOOLEAN
    /\ inputEnabled \in BOOLEAN
    /\ runs \in Seq(Run) /\ Len(runs) <= MaxRun
    /\ agentTask \in 0..Len(runs) /\ pump \in 0..Len(runs)
    /\ pending \in 0..Len(runs)
    /\ pumpReason \in Reason
    /\ ended \in 0..MaxNews /\ mail \in 0..MaxNews
    /\ prompts \in 0..MaxPrompts

\* The handler of a prompt waits for the run it interrupted, and that run waits
\* for an answer which only this handler could let through.  It takes a command
\* in the shell that swallowed the cancellation.
Stuck == pump # NoRun /\ runs[pump].stage = "asking"

\* Every background task that ended, and all mail for the lead, reaches the
\* conversation, unless the chat is stuck.
EveryoneIsHeard == ended + mail > 0 ~> (ended + mail = 0 \/ Stuck)

\* A prompt typed while a run streams is not dropped and gets its turn, unless the
\* chat is stuck: the handler has cleared the flag of the run it interrupted, and
\* of whatever started while it waited, before it dispatches.
PromptGetsItsTurn ==
    /\ [][pump # NoRun /\ pump' = NoRun => Len(runs') > Len(runs)]_vars
    /\ pump # NoRun ~> (pump = NoRun \/ Stuck)

-----------------------------------------------------------------------------
(* What the documentation of the code says and the code does not keep: the   *)
(* README tells how each of these comes to be violated.                      *)

\* The handler of a prompt never waits for a run that waits for the user.
ChatIsNeverStuck == ~Stuck

\* The run that executes is the one _agent_task names, where Escape, /cancel
\* and the next prompt look for it.
RunIsAgentTask ==
    \A r \in DOMAIN runs : runs[r].stage = "running" => agentTask = r

\* No plan the user approves is dropped because a run streams that the user did
\* not start.
ApprovedPlansAreTaken == [][dialog /\ ~dialog' => Len(runs') > Len(runs)]_vars

\* The run a prompt interrupts is told that it is an interrupt.
ReasonReachesTool ==
    [][\A r \in DOMAIN runs :
          pump = NoRun /\ pump' = r => runs[r].reason = "interrupt"]_vars

=============================================================================

------------------------------ MODULE PlanMode -------------------------------
(***************************************************************************)
(* Plan mode: the ways into it and out of it, the two tools by which the   *)
(* model submits a plan (present_plan and ExitPlanMode), and the approval  *)
(* dialog, whose answer sets the permission mode and sends the plan back   *)
(* to be executed.  A plan is a number, 0 is none.                         *)
(***************************************************************************)
EXTENDS Integers

CONSTANTS
    MaxPlans,        \* bound: plans written or presented
    MaxRuns          \* bound: runs

VARIABLES
    mode,          \* Agent.permission_mode
    pre,           \* _pre_plan_mode
    entered,       \* the mode that was left for plan mode the last time
    run,           \* a run is in progress
    runs,          \* runs so far
    presented,     \* PresentPlanTool._exit_requested
    exited,        \* ExitPlanModeTool._exit_requested
    planText,      \* PresentPlanTool._plan_text
    planFile,      \* what the plan file holds
    plans,         \* plans so far
    submitted,     \* the plan this run submitted last, or File
    dialog,        \* the plan above the approval dialog on the screen
    input          \* the chat input is enabled

modes == <<mode, pre, entered>>
tools == <<presented, exited, planText, planFile, plans, submitted>>
chat == <<run, runs, dialog, input>>
vars == <<modes, tools, chat>>

ModeCycle == <<"default", "acceptEdits", "auto", "plan", "bypass">>
Mode == {ModeCycle[i] : i \in DOMAIN ModeCycle}
None == 0
File == -1       \* "the plan file, as it is when the dialog appears"

Init ==
    /\ mode = "default" /\ pre = "default" /\ entered = "default"
    /\ run = FALSE /\ runs = 0
    /\ presented = FALSE /\ exited = FALSE
    /\ planText = None /\ planFile = None /\ plans = 0
    /\ submitted = None /\ dialog = None /\ input = TRUE

-----------------------------------------------------------------------------
(* The mode.                                                               *)

ToMode(m) ==
    /\ mode' = m
    /\ entered' = IF m = "plan" /\ mode # "plan" THEN mode ELSE entered

SetPlanModeUnsaved(enabled) ==
    /\ ToMode(IF enabled THEN "plan" ELSE pre)
    /\ UNCHANGED pre

SetPlanMode(enabled) ==
    /\ ToMode(IF enabled THEN "plan" ELSE pre)
    /\ pre' = IF enabled THEN mode ELSE pre

\* /plan
PlanCommand ==
    /\ input
    /\ SetPlanMode(mode # "plan")
    /\ UNCHANGED <<tools, chat>>

\* EnterPlanMode, a tool of the model.
EnterTool ==
    /\ run /\ mode # "plan"
    /\ SetPlanMode(TRUE)
    /\ UNCHANGED <<tools, chat>>

\* /permission: plan mode is entered even from plan mode.
PermissionCommand ==
    /\ input
    /\ \E m \in Mode : IF m = "plan" THEN SetPlanMode(TRUE)
                       ELSE ToMode(m) /\ UNCHANGED pre
    /\ UNCHANGED <<tools, chat>>

\* shift+tab
CycleKey ==
    /\ \E i \in 1..5 : ModeCycle[i] = mode /\ ToMode(ModeCycle[(i % 5) + 1])
    /\ UNCHANGED <<pre, tools, chat>>

-----------------------------------------------------------------------------
(* A run and the tools that submit a plan.                                 *)

Begin ==
    /\ run' = TRUE /\ runs' = runs + 1
    /\ submitted' = None

\* A prompt, or a notification, which the input does not hold up.
StartRun ==
    /\ ~run /\ runs < MaxRuns
    /\ Begin
    /\ UNCHANGED <<modes, presented, exited, planText, planFile, plans, dialog,
                   input>>

WritePlan ==
    /\ run /\ plans < MaxPlans
    /\ plans' = plans + 1
    /\ planFile' = plans'
    /\ UNCHANGED <<modes, presented, exited, planText, submitted, chat>>

\* present_plan, in any mode.
PresentPlan ==
    /\ run /\ plans < MaxPlans
    /\ plans' = plans + 1
    /\ presented' = TRUE /\ planText' = plans' /\ submitted' = plans'
    /\ UNCHANGED <<modes, exited, planFile, chat>>

ExitPlan ==
    /\ run /\ mode = "plan" /\ planFile # None
    /\ exited' = TRUE /\ submitted' = File
    /\ UNCHANGED <<modes, presented, planText, planFile, plans, chat>>

PlanFromFile == IF planFile # None THEN planFile ELSE planText

\* What the dialog shows, and again what is executed.
PlanToShow == IF planText # None THEN planText ELSE planFile

EndRunKeepsRequest ==
    /\ run
    /\ run' = FALSE
    /\ IF presented \/ exited THEN dialog' = PlanToShow /\ input' = FALSE
       ELSE UNCHANGED <<dialog, input>>
    /\ UNCHANGED <<modes, tools, runs>>

\* The loop is complete: a request for approval is taken and shown.
EndRun ==
    /\ run
    /\ run' = FALSE
    /\ IF presented \/ exited THEN dialog' = PlanToShow /\ input' = FALSE
       ELSE UNCHANGED <<dialog, input>>
    /\ presented' = FALSE /\ exited' = FALSE
    /\ UNCHANGED <<modes, planText, planFile, plans, submitted, runs>>

\* Cancelled by Escape or by ctrl-c, which enables the input; or failed.
AbortRun ==
    /\ run
    /\ run' = FALSE
    /\ input' \in {input, TRUE}
    /\ UNCHANGED <<modes, tools, runs, dialog>>

-----------------------------------------------------------------------------
(* The answer to the dialog.                                               *)

Close == dialog # None /\ dialog' = None /\ input' = TRUE

SendAlways == Begin

\* While a run is in progress nothing is sent.
Send == IF run THEN UNCHANGED <<run, runs, submitted>> ELSE Begin

Approve(m) ==
    /\ Close
    /\ ToMode(m)
    /\ Send
    /\ UNCHANGED <<pre, presented, exited, planText, planFile, plans>>

ApproveYolo == Approve("bypass")

ApproveManual == Approve(pre)

Feedback ==
    /\ Close
    /\ Send
    /\ UNCHANGED <<modes, presented, exited, planText, planFile, plans>>

-----------------------------------------------------------------------------

\* The tools, the dialog and the commands as they are meant to be used together.
Regular ==
    \/ PlanCommand \/ EnterTool
    \/ StartRun \/ WritePlan \/ PresentPlan \/ EndRun
    \/ runs < MaxRuns /\ (ApproveYolo \/ ApproveManual \/ Feedback)

ChangeMode == PermissionCommand \/ CycleKey

Next == Regular \/ ChangeMode \/ ExitPlan \/ AbortRun

Spec == Init /\ [][Next]_vars

-----------------------------------------------------------------------------
(* Properties.                                                             *)

\* Every variable stays in its type, and a plan that was submitted can be shown.
TypeOK ==
    /\ mode \in Mode /\ pre \in Mode /\ entered \in Mode
    /\ run \in BOOLEAN /\ input \in BOOLEAN /\ runs \in 0..MaxRuns
    /\ plans \in 0..MaxPlans
    /\ planText \in 0..plans /\ planFile \in 0..plans /\ dialog \in 0..plans
    /\ submitted \in {File} \cup 0..plans
    /\ presented => planText # None
    /\ exited => planFile # None

=============================================================================

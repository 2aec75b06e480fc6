------------------------------ MODULE MCDialogs ------------------------------
(***************************************************************************)
(* The dialogs of the chat for TLC: the prompts for permission and the     *)
(* questions, and plan mode with its approval dialog.  The two share no    *)
(* state that their models keep, so a behaviour is one of either and the   *)
(* other stands still.  PlanMode has a history variable: the things done   *)
(* so far that a promise of the dialog or of the mode does not survive.    *)
(* Without its conditions each of the action properties below is violated, *)
(* which the README tells of under what the code does not keep.            *)
(***************************************************************************)
EXTENDS Prompts

CONSTANTS MaxPlans, MaxRuns

VARIABLES
    part,          \* which of the two models takes its steps
    happened,
    mode, pre, entered, planRun, runs, presented, exited, planText, planFile, plans,
    submitted, dialog, planInput

planVars == <<mode, pre, entered, planRun, runs, presented, exited, planText,
              planFile, plans, submitted, dialog, planInput>>

P == INSTANCE PlanMode WITH run <- planRun, input <- planInput

Note(what) == happened' = happened \cup {what}

PlanNext ==
    \/ P!Regular /\ UNCHANGED happened
    \/ P!ChangeMode /\ Note("mode")
    \/ P!ExitPlan /\ Note("ExitPlanMode")
    \/ P!AbortRun /\ Note("abort")

MCInit == part \in {"prompts", "plan"} /\ Init /\ happened = {} /\ P!Init

MCNext ==
    \/ part = "plan" /\ PlanNext /\ UNCHANGED <<part, vars>>
    \/ part = "prompts" /\ Next /\ UNCHANGED <<part, planVars, happened>>

MCSpec == MCInit /\ [][MCNext]_<<part, vars, happened, planVars>>

DialogAppears == dialog' # None /\ dialog' # dialog

\* The approval dialog appears only after a run in which the model submitted a
\* plan, as long as no run was cut off; and it shows the plan submitted last, as
\* long as ExitPlanMode was not used next to present_plan.
ShownIsRequested ==
    [][DialogAppears =>
          /\ "abort" \notin happened => submitted # None
          /\ submitted # None /\ "ExitPlanMode" \notin happened
                => dialog' = submitted]_planVars

Approval == dialog # None /\ dialog' = None /\ (P!ApproveYolo \/ P!ApproveManual)

\* Once the model has used present_plan, the plan that is sent to be executed is
\* the one the user saw when approving, even if another run has submitted one in
\* the meantime, as long as no run was cut off.  Without a text of present_plan,
\* planText = None, the plan of ExitPlanMode is read from its file for the dialog
\* and read again for the execution; a notification run under the dialog may have
\* rewritten it, and the property without that condition is violated.
ExecutedIsShown ==
    [][Approval /\ runs' > runs /\ "abort" \notin happened /\ planText # None
       => P!PlanToShow = dialog]_planVars

\* Leaving plan mode, by command or by approving a plan for manual execution,
\* restores the mode that was left for it, as long as the mode was changed by
\* neither shift+tab nor /permission.
LeavingRestoresMode ==
    [][mode = "plan" /\ (P!PlanCommand \/ P!ApproveManual) /\ "mode" \notin happened
       => mode' = entered]_planVars

=============================================================================

---------------------------- MODULE Prompts_proofs ----------------------------
(***************************************************************************)
(* For any agents in the background and any number of requests and         *)
(* questions: a run that waits for permission can be answered, and the     *)
(* user gets the input back.  For any number of runs and of plans: the     *)
(* dialog shows what the model submitted, what is executed is what the     *)
(* dialog showed, and plan mode is left for the mode it was entered from.  *)
(***************************************************************************)
EXTENDS MCDialogs, TLAPS

\* A request has a number; the run that waits for it is answered by the widget.
DialogInv ==
    /\ requests \in Nat
    /\ run = "permission" => request # None
    /\ WaitingIsAnswerable
    /\ InputComesBack

\* Whatever stops the run, no run waits afterwards and the widgets stay.
LEMMA CancelKeepsDialogs ==
    ASSUME DialogInv, CancelRun, input' = input \/ input' = TRUE
    PROVE  DialogInv'
BY DEF DialogInv, WaitingIsAnswerable, InputComesBack, CancelRun

\* Every step keeps a waiting run answerable and brings the input back.
LEMMA DialogStep ==
    ASSUME DialogInv, [Next]_vars
    PROVE  DialogInv'
<1> USE DEF DialogInv, WaitingIsAnswerable, InputComesBack, None, permission, question
<1>1. CASE Submit
  BY <1>1 DEF Submit
<1>2. CASE RunEnds
  BY <1>2 DEF RunEnds
<1>3. CASE Escape \/ HandleCtrlC \/ Interrupt
  <2>1. CancelRun /\ (input' = input \/ input' = TRUE)
    BY <1>3 DEF Escape, HandleCtrlC, Interrupt
  <2> QED
    BY <2>1, CancelKeepsDialogs
<1>4. CASE AskPermission
  BY <1>4 DEF AskPermission
<1>5. CASE Respond
  BY <1>5 DEF Respond
<1>6. CASE RespondLate
  BY <1>6 DEF RespondLate
<1>7. CASE PollAskUser
  BY <1>7 DEF PollAskUser, MayShow, Waiting
<1>8. CASE AnswerQuestion
  BY <1>8 DEF AnswerQuestion, Resumed
<1>9. ASSUME NEW a \in Asker, AskQuestion(a)
      PROVE  DialogInv'
  BY <1>9 DEF AskQuestion
<1>10. ASSUME NEW a \in Asker, TimeOut(a)
       PROVE  DialogInv'
  BY <1>10 DEF TimeOut, Resumed
<1>11. ASSUME NEW a \in Asker, CancelBackground(a)
       PROVE  DialogInv'
  BY <1>11 DEF CancelBackground
<1>12. CASE UNCHANGED vars
  BY <1>12 DEF vars
<1> QED
  BY <1>1, <1>2, <1>3, <1>4, <1>5, <1>6, <1>7, <1>8, <1>9, <1>10, <1>11, <1>12 DEF Next

\* A run that waits for permission has its own request in the widget, and the
\* answer goes to its future (app.py, _handle_permission_request).
THEOREM RequestsAnswerable == Spec => []WaitingIsAnswerable
<1>1. Init => DialogInv
  BY DEF Init, DialogInv, WaitingIsAnswerable, InputComesBack
<1>2. DialogInv /\ [Next]_vars => DialogInv'
  BY DialogStep
<1>3. DialogInv => WaitingIsAnswerable
  BY DEF DialogInv
<1> QED
  BY <1>1, <1>2, <1>3, PTL DEF Spec

\* While the input is disabled a widget is shown whose answer enables it, in
\* whatever order questions, answers, timeouts and cancellations come (app.py).
THEOREM InputReturns == Spec => []InputComesBack
<1>1. Init => DialogInv
  BY DEF Init, DialogInv, WaitingIsAnswerable, InputComesBack
<1>2. DialogInv /\ [Next]_vars => DialogInv'
  BY DialogStep
<1>3. DialogInv => InputComesBack
  BY DEF DialogInv
<1> QED
  BY <1>1, <1>2, <1>3, PTL DEF Spec

-----------------------------------------------------------------------------
(* Plan mode.                                                              *)

\* Plans are numbered, and a request for approval has a plan to show.
PlanNumbers ==
    /\ plans \in Nat /\ runs \in Nat
    /\ planText \in Nat /\ planText <= plans
    /\ planRun \in BOOLEAN /\ presented \in BOOLEAN /\ exited \in BOOLEAN
    /\ presented => planText # None

\* Between runs nothing asks for approval: EndRun takes the request, and only
\* AbortRun leaves it.  In a run what asks was submitted by that run.
AskedInRun ==
    "abort" \notin happened =>
        /\ ~planRun => ~presented /\ ~exited
        /\ presented \/ exited => submitted # None

\* Only present_plan submits a plan: the plan submitted last is its text.
SubmittedIsText ==
    "ExitPlanMode" \notin happened =>
        /\ ~exited
        /\ submitted # None => submitted = planText

\* Once there is a text of present_plan the dialog shows it, until the next one is
\* taken.
DialogIsText ==
    "abort" \notin happened /\ planText # None =>
        (dialog # None /\ ~presented => dialog = planText)

\* _pre_plan_mode is the mode that was left for plan mode, and not that mode.
PreIsEntered ==
    "mode" \notin happened =>
        /\ pre # "plan"
        /\ mode = "plan" => pre = entered

PlanInv == PlanNumbers /\ AskedInRun /\ SubmittedIsText /\ DialogIsText /\ PreIsEntered

\* A change of mode concerns the mode alone, whatever it is set to.
LEMMA ModeStep ==
    ASSUME PlanInv, UNCHANGED <<P!tools, P!chat>>, happened \subseteq happened'
    PROVE  PlanNumbers' /\ AskedInRun' /\ SubmittedIsText' /\ DialogIsText'
BY DEF PlanInv, PlanNumbers, AskedInRun, SubmittedIsText, DialogIsText, P!tools,
       P!chat, None

\* Entering and leaving plan mode by command or tool, and by a manual approval,
\* keeps the mode that was left in _pre_plan_mode.
LEMMA TogglingKeepsPre ==
    ASSUME PreIsEntered, UNCHANGED happened,
           \/ \E b \in BOOLEAN : b = (mode # "plan") /\ P!SetPlanMode(b)
           \/ P!ToMode(pre) /\ UNCHANGED pre
           \/ P!ToMode("bypass") /\ UNCHANGED pre
    PROVE  PreIsEntered'
BY DEF PreIsEntered, P!SetPlanMode, P!ToMode

\* An answer closes the dialog and starts a run, unless one is in progress.
LEMMA AnswerStep ==
    ASSUME PlanInv, PreIsEntered', P!Close, P!Send,
           UNCHANGED <<happened, presented, exited, planText, planFile, plans>>
    PROVE  PlanInv'
<1> USE DEF PlanInv, PlanNumbers, AskedInRun, SubmittedIsText, DialogIsText, None,
            P!None, P!Close, P!Begin
<1>1. CASE planRun
  <2>1. UNCHANGED <<planRun, runs, submitted>>
    BY <1>1 DEF P!Send
  <2> QED
    BY <2>1
<1>2. CASE ~planRun
  <2>1. P!Begin
    BY <1>2 DEF P!Send
  <2>2. PlanNumbers'
    BY <2>1
  <2>3. AskedInRun'
    BY <1>2, <2>1
  <2>4. SubmittedIsText' /\ DialogIsText'
    BY <2>1
  <2> QED
    BY <2>2, <2>3, <2>4
<1> QED
  BY <1>1, <1>2

\* Every step of plan mode keeps the invariant; what it gives up is noted.
LEMMA PlanStep ==
    ASSUME PlanInv, PlanNext
    PROVE  PlanInv'
<1> USE DEF PlanNumbers, AskedInRun, SubmittedIsText, DialogIsText, None
<1>1. CASE P!PlanCommand /\ UNCHANGED happened
  <2>1. PreIsEntered'
    BY <1>1, TogglingKeepsPre DEF P!PlanCommand, PlanInv
  <2> QED
    BY <1>1, <2>1, ModeStep DEF P!PlanCommand, PlanInv
<1>2. CASE P!EnterTool /\ UNCHANGED happened
  <2>1. PreIsEntered'
    BY <1>2, TogglingKeepsPre DEF P!EnterTool, PlanInv
  <2> QED
    BY <1>2, <2>1, ModeStep DEF P!EnterTool, PlanInv
<1>3. CASE P!StartRun /\ UNCHANGED happened
  BY <1>3 DEF P!StartRun, P!Begin, P!modes, PlanInv, PreIsEntered, P!None
<1>4. CASE P!WritePlan /\ UNCHANGED happened
  BY <1>4 DEF P!WritePlan, P!modes, P!chat, PlanInv, PreIsEntered
<1>5. CASE P!PresentPlan /\ UNCHANGED happened
  BY <1>5 DEF P!PresentPlan, P!modes, P!chat, PlanInv, PreIsEntered
<1>6. CASE P!EndRun /\ UNCHANGED happened
  BY <1>6 DEF P!EndRun, P!modes, P!PlanToShow, P!None, PlanInv, PreIsEntered
<1>7. CASE P!ApproveYolo /\ UNCHANGED happened
  <2>1. PreIsEntered'
    BY <1>7, TogglingKeepsPre DEF P!ApproveYolo, P!Approve, PlanInv
  <2> QED
    BY <1>7, <2>1, AnswerStep DEF P!ApproveYolo, P!Approve
<1>8. CASE P!ApproveManual /\ UNCHANGED happened
  <2>1. PreIsEntered'
    BY <1>8, TogglingKeepsPre DEF P!ApproveManual, P!Approve, PlanInv
  <2> QED
    BY <1>8, <2>1, AnswerStep DEF P!ApproveManual, P!Approve
<1>9. CASE P!Feedback /\ UNCHANGED happened
  <2>1. PreIsEntered'
    BY <1>9 DEF P!Feedback, P!modes, PlanInv, PreIsEntered
  <2> QED
    BY <1>9, <2>1, AnswerStep DEF P!Feedback
<1>10. CASE P!ChangeMode /\ Note("mode")
  <2>1. UNCHANGED <<P!tools, P!chat>>
    BY <1>10 DEF P!ChangeMode, P!PermissionCommand, P!CycleKey, P!tools, P!chat
  <2>2. happened \subseteq happened' /\ "mode" \in happened'
    BY <1>10 DEF Note
  <2> QED
    BY <2>1, <2>2, ModeStep DEF PlanInv, PreIsEntered
<1>11. CASE P!ExitPlan /\ Note("ExitPlanMode")
  <2>1. happened \subseteq happened' /\ "ExitPlanMode" \in happened'
    BY <1>11 DEF Note
  <2> QED
    BY <1>11, <2>1 DEF P!ExitPlan, P!modes, P!chat, P!File, PlanInv, PreIsEntered
<1>12. CASE P!AbortRun /\ Note("abort")
  <2>1. happened \subseteq happened' /\ "abort" \in happened'
    BY <1>12 DEF Note
  <2> QED
    BY <1>12, <2>1 DEF P!AbortRun, P!modes, P!tools, PlanInv, PreIsEntered
<1> QED
  BY <1>1, <1>2, <1>3, <1>4, <1>5, <1>6, <1>7, <1>8, <1>9, <1>10, <1>11, <1>12
  DEF PlanNext, P!Regular

\* A step in which nothing of plan mode changes keeps the invariant.
LEMMA PlanStutters ==
    ASSUME PlanInv, UNCHANGED <<planVars, happened>>
    PROVE  PlanInv'
BY DEF PlanInv, PlanNumbers, AskedInRun, SubmittedIsText, DialogIsText, PreIsEntered,
       planVars

\* The invariant holds in every behaviour of the dialogs.
LEMMA PlanModeSound == MCSpec => []PlanInv
<1>1. MCInit => PlanInv
  <2> SUFFICES ASSUME MCInit
               PROVE  PlanInv
    OBVIOUS
  <2>1. PreIsEntered
    BY DEF MCInit, P!Init, PreIsEntered
  <2>2. AskedInRun
    BY DEF MCInit, P!Init, AskedInRun
  <2>3. /\ planRun \in BOOLEAN /\ presented \in BOOLEAN /\ exited \in BOOLEAN
        /\ ~presented
    BY DEF MCInit, P!Init
  <2>4. PlanNumbers
    BY <2>3 DEF MCInit, P!Init, PlanNumbers, P!None, None
  <2>5. SubmittedIsText /\ DialogIsText
    BY DEF MCInit, P!Init, SubmittedIsText, DialogIsText, P!None, None
  <2> QED
    BY <2>1, <2>2, <2>4, <2>5 DEF PlanInv
<1>2. ASSUME PlanInv, [MCNext]_<<part, vars, happened, planVars>>
      PROVE  PlanInv'
  BY <1>2, PlanStep, PlanStutters DEF MCNext
<1> QED
  BY <1>1, <1>2, PTL DEF MCSpec

\* A step that changes something of plan mode is one of its actions.
LEMMA PlanMoves ==
    ASSUME [MCNext]_<<part, vars, happened, planVars>>
    PROVE  PlanNext \/ UNCHANGED planVars
BY DEF MCNext

\* The dialog appears only when EndRun takes a request.
LEMMA OnlyEndRunShows ==
    ASSUME PlanNext, DialogAppears
    PROVE  P!EndRun
BY DEF PlanNext, DialogAppears, None, P!Regular, P!PlanCommand, P!EnterTool, P!StartRun,
       P!WritePlan, P!PresentPlan, P!ApproveYolo, P!ApproveManual, P!Approve,
       P!Feedback, P!Close, P!None, P!ChangeMode, P!PermissionCommand, P!CycleKey,
       P!ExitPlan, P!AbortRun, P!chat

\* The approval dialog appears after a run that submitted a plan, and shows the
\* plan submitted last (app.py, _handle_prompt and the approval dialog), up to
\* a cancellation and to ExitPlanMode, for any number of runs and plans.
THEOREM DialogShowsRequest == MCSpec => ShownIsRequested
<1>1. ASSUME PlanInv, [MCNext]_<<part, vars, happened, planVars>>
      PROVE  [DialogAppears =>
                /\ "abort" \notin happened => submitted # None
                /\ submitted # None /\ "ExitPlanMode" \notin happened
                      => dialog' = submitted]_planVars
  <2> SUFFICES ASSUME PlanNext, DialogAppears
               PROVE  /\ "abort" \notin happened => submitted # None
                      /\ submitted # None /\ "ExitPlanMode" \notin happened
                            => dialog' = submitted
    BY <1>1, PlanMoves
  <2>1. planRun /\ (presented \/ exited) /\ dialog' = P!PlanToShow
    BY OnlyEndRunShows DEF P!EndRun, DialogAppears
  <2> QED
    BY <1>1, <2>1 DEF PlanInv, AskedInRun, SubmittedIsText, P!PlanToShow, P!None, None
<1> QED
  BY <1>1, PlanModeSound, PTL DEF MCSpec, ShownIsRequested

\* Once present_plan was used, what an approval sends to be executed is the plan
\* the dialog showed, up to a cancellation (app.py, the answers to the dialog).
THEOREM ApprovedIsExecuted == MCSpec => ExecutedIsShown
<1>1. ASSUME PlanInv
      PROVE  Approval /\ runs' > runs /\ "abort" \notin happened
             /\ planText # None => P!PlanToShow = dialog
  <2> SUFFICES ASSUME Approval, runs' > runs, "abort" \notin happened,
                      planText # None
               PROVE  P!PlanToShow = dialog
    OBVIOUS
  <2>1. P!Send /\ dialog # None
    BY DEF Approval, P!ApproveYolo, P!ApproveManual, P!Approve
  <2>2. ~planRun
    BY <1>1, <2>1 DEF P!Send, PlanInv, PlanNumbers
  <2>3. dialog = planText
    BY <1>1, <2>1, <2>2 DEF PlanInv, AskedInRun, DialogIsText
  <2> QED
    BY <2>1, <2>3 DEF P!PlanToShow, P!None, None
<1> QED
  BY <1>1, PlanModeSound, PTL DEF ExecutedIsShown

\* Leaving plan mode, by /plan or by a manual approval, restores the mode it was
\* entered from, up to shift+tab and /permission (agent.py, set_plan_mode).
THEOREM PlanModeRestores == MCSpec => LeavingRestoresMode
<1>1. ASSUME PlanInv
      PROVE  mode = "plan" /\ (P!PlanCommand \/ P!ApproveManual)
             /\ "mode" \notin happened => mode' = entered
  BY <1>1 DEF PlanInv, PreIsEntered, P!PlanCommand, P!SetPlanMode, P!ToMode,
              P!ApproveManual, P!Approve
<1> QED
  BY <1>1, PlanModeSound, PTL DEF LeavingRestoresMode

===============================================================================

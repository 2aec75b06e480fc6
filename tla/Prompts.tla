------------------------------- MODULE Prompts -------------------------------
(***************************************************************************)
(* The two questions a run puts to the user of the chat and waits for: may *)
(* this tool be used (Agent._execute_tool and the permission widget), and  *)
(* whatever the model wants to know (AskUserTool and its widget, which a   *)
(* poller mounts).  Sub-agents in the background hold the same AskUserTool *)
(* object as the chat's own run.                                           *)
(*                                                                         *)
(* A request or a question is a number, 0 is none.  The future of a request*)
(* or a question is open exactly as long as somebody waits for it.         *)
(***************************************************************************)
EXTENDS Integers

CONSTANTS
    Background,      \* sub-agents that run in the background
    EscapeKey,       \* the user presses Escape
    CtrlC,           \* the user presses ctrl-c
    MaxRequests,     \* bound: permission requests
    MaxQuestions     \* bound: questions

VARIABLES
    up,            \* the application has not crashed
    run,           \* the chat's run: "none", "busy", "permission" or "question"
    request,       \* the request it waits for
    requests,      \* requests made so far
    permShown,     \* the request in the permission widget
    permPending,   \* _pending_perm_request
    asking,        \* the question each asker waits for
    questions,     \* questions asked so far
    slot,          \* AskUserTool._pending_event
    askShown,      \* the question in the AskUser widget
    askPending,    \* _pending_askuser_event
    seen,          \* questions that were shown
    unseen,        \* questions that timed out without having been shown
    input          \* the chat input is enabled

permission == <<request, requests, permShown, permPending>>
question == <<asking, questions, slot, askShown, askPending, seen, unseen>>
vars == <<up, run, permission, question, input>>

Asker == {"chat"} \cup Background
None == 0

Init ==
    /\ up = TRUE
    /\ run = "none"
    /\ request = None /\ requests = 0
    /\ permShown = None /\ permPending = None
    /\ asking = [a \in Asker |-> None] /\ questions = 0
    /\ slot = None /\ askShown = None /\ askPending = None
    /\ seen = {} /\ unseen = {}
    /\ input = TRUE

Waiting(q) == q # None /\ \E a \in Asker : asking[a] = q

-----------------------------------------------------------------------------
(* The run.                                                                *)

\* A prompt; a notification starts a run the same way.  A prompt typed during a
\* run cancels it first.
Submit ==
    /\ up /\ input /\ run = "none"
    /\ run' = "busy"
    /\ UNCHANGED <<up, permission, question, input>>

RunEnds ==
    /\ up /\ run = "busy"
    /\ run' = "none"
    /\ UNCHANGED <<up, permission, question, input>>

\* The finally clause of AskUserTool.execute, whoever's the question is by now.
Release(a) ==
    /\ asking' = [asking EXCEPT ![a] = None]
    /\ slot' = IF asking[a] = None THEN slot ELSE None

\* The task of the run is cancelled; the widget it waits on stays.
CancelRun ==
    /\ up /\ run # "none"
    /\ run' = "none"
    /\ request' = None
    /\ Release("chat")
    /\ UNCHANGED <<up, requests, permShown, permPending, questions, askShown,
                   askPending, seen, unseen>>

\* Escape belongs to the application before it belongs to a widget.
Escape == EscapeKey /\ CancelRun /\ UNCHANGED input

HandleCtrlC == CtrlC /\ CancelRun /\ input' = TRUE

\* A prompt typed while a run is in progress cancels it and waits for its end.
Interrupt == input /\ CancelRun /\ UNCHANGED input

-----------------------------------------------------------------------------
(* Permission.                                                             *)

\* A widget left from an earlier request is removed; the first of the two
\* definitions is that of a handler that would keep it.
AskPermissionOnce ==
    /\ up /\ run = "busy" /\ requests < MaxRequests
    /\ requests' = requests + 1
    /\ request' = requests'
    /\ IF permPending # None THEN UNCHANGED <<permShown, permPending>>
       ELSE permShown' = requests' /\ permPending' = requests'
    /\ input' = FALSE
    /\ run' = "permission"
    /\ UNCHANGED <<up, question>>

AskPermission ==
    /\ up /\ run = "busy" /\ requests < MaxRequests
    /\ requests' = requests + 1
    /\ request' = requests'
    /\ permShown' = requests' /\ permPending' = requests'
    /\ input' = FALSE
    /\ run' = "permission"
    /\ UNCHANGED <<up, question>>

\* The user chooses in the widget.  The result of a future nobody waits for any
\* more cannot be set: the handler raises, which ends the application.
RespondKeepsInput ==
    /\ up /\ permShown # None
    /\ permPending # None => permPending = request
    /\ run' = IF permPending = None THEN run ELSE "busy"
    /\ request' = IF permPending = None THEN request ELSE None
    /\ permPending' = None /\ permShown' = None
    /\ UNCHANGED <<up, requests, question, input>>

Respond ==
    /\ up /\ permShown # None
    /\ permPending # None => permPending = request
    /\ run' = IF permPending = None THEN run ELSE "busy"
    /\ request' = IF permPending = None THEN request ELSE None
    /\ permPending' = None /\ permShown' = None
    /\ input' = TRUE
    /\ UNCHANGED <<up, requests, question>>

RespondLate ==
    /\ up /\ permShown # None
    /\ permPending # None /\ permPending # request
    /\ up' = FALSE
    /\ UNCHANGED <<run, permission, question, input>>

-----------------------------------------------------------------------------
(* Questions.                                                              *)

\* The event of another asker that is not shown yet is overwritten.
AskQuestion(a) ==
    /\ up /\ questions < MaxQuestions
    /\ asking[a] = None
    /\ IF a = "chat" THEN run = "busy" /\ run' = "question" ELSE UNCHANGED run
    /\ questions' = questions + 1
    /\ asking' = [asking EXCEPT ![a] = questions']
    /\ slot' = questions'
    /\ UNCHANGED <<up, permission, askShown, askPending, seen, unseen, input>>

MayShow == askPending = None /\ askShown = None /\ Waiting(slot)

PollAskUser ==
    /\ up /\ MayShow
    /\ askPending' = slot /\ askShown' = slot
    /\ seen' = seen \cup {slot}
    /\ input' = FALSE
    /\ UNCHANGED <<up, run, permission, asking, questions, slot, unseen>>

Resumed(a) == IF a = "chat" THEN "busy" ELSE run

\* The user has answered, or pressed the button that cancels.
AnswerQuestion ==
    /\ up /\ askShown # None
    /\ \/ \E a \in Asker :
             /\ askPending # None /\ asking[a] = askPending
             /\ Release(a)
             /\ run' = Resumed(a)
             /\ askPending' = None
       \/ /\ ~Waiting(askPending)
          /\ UNCHANGED <<asking, slot, run, askPending>>
    /\ askShown' = None
    /\ input' = TRUE
    /\ UNCHANGED <<up, permission, questions, seen, unseen>>

\* Five minutes have passed; the poller looks several times a second.
TimeOut(a) ==
    /\ up /\ asking[a] # None /\ ~MayShow
    /\ Release(a)
    /\ run' = Resumed(a)
    /\ unseen' = unseen \cup ({asking[a]} \ seen)
    /\ UNCHANGED <<up, permission, questions, askShown, askPending, seen, input>>

\* A background agent is cancelled while it asks.
CancelBackground(a) ==
    /\ up /\ a \in Background /\ asking[a] # None
    /\ Release(a)
    /\ UNCHANGED <<up, run, permission, questions, askShown, askPending, seen,
                   unseen, input>>

-----------------------------------------------------------------------------

Next ==
    \/ Submit \/ RunEnds \/ Escape \/ HandleCtrlC \/ Interrupt
    \/ AskPermission \/ Respond \/ RespondLate
    \/ PollAskUser \/ AnswerQuestion
    \/ \E a \in Asker : AskQuestion(a) \/ TimeOut(a) \/ CancelBackground(a)

Spec == Init /\ [][Next]_vars

-----------------------------------------------------------------------------
(* Properties.                                                             *)

\* Every variable stays in its type, and the run is where its future says.
TypeOK ==
    /\ up \in BOOLEAN /\ input \in BOOLEAN
    /\ run \in {"none", "busy", "permission", "question"}
    /\ request \in 0..requests /\ requests \in 0..MaxRequests
    /\ permShown \in 0..requests /\ permPending \in 0..requests
    /\ asking \in [Asker -> 0..questions] /\ questions \in 0..MaxQuestions
    /\ slot \in 0..questions /\ askShown \in 0..questions
    /\ askPending \in 0..questions
    /\ seen \cup unseen \subseteq 1..questions
    /\ run = "permission" <=> request # None
    /\ run = "question" <=> asking["chat"] # None

\* A run that waits for permission can be answered: the widget shows its request
\* and the answer goes to its future, whatever widget an earlier run has left.
WaitingIsAnswerable ==
    (up /\ run = "permission") => permShown = request /\ permPending = request

\* The user is never locked out: while the input is disabled there is a widget
\* whose answer enables it again.
InputComesBack == up /\ ~input => permShown # None \/ askShown # None

-----------------------------------------------------------------------------
(* What the documentation of the code says and the code does not keep: the   *)
(* README tells how each of these comes to be violated.                      *)

\* No answer of the user brings the application down.
ChatStaysUp == up

\* Escape on a request for permission denies it, and the run goes on.
EscapeDenies == [][run = "permission" /\ Escape => run' = "busy"]_vars

\* Every question the model asks is shown to the user.
QuestionsAreShown == unseen = {}

=============================================================================

-------------------------------- MODULE Teams --------------------------------
(***************************************************************************)
(* Background agents and the team they may form: TaskManager               *)
(* (agents/task_manager.py), Mailbox and TeamManager (teams/), SendMessage *)
(* and the reports the chat makes of them (tui/app.py).                    *)
(*                                                                         *)
(* A mailbox is a directory per recipient.  Two of them are for the lead:  *)
(* leadId is the directory of team.lead_agent_id, "lead" the one           *)
(* _run_background writes to.  A mail is known by its number among those   *)
(* written to its directory, which is also the order of the file names.    *)
(* One team is created; a name that is free again is used like a new one.  *)
(*                                                                         *)
(* In the program PathIsText is FALSE: the worktree path of a new member   *)
(* is a Path, which json.dumps refuses, so that the member is registered   *)
(* and never launched.  What teammates do then is modelled with TRUE.      *)
(***************************************************************************)
EXTENDS Integers, Sequences, FiniteSets

CONSTANTS
    Agent,          \* agents that run in the background
    Teammate,       \* those of them spawned into the team
    PathIsText,     \* whether team.save can write the path of a worktree
    Window,         \* polls of the mailbox after a run (60, one per second)
    MaxSends        \* bound: messages the teammates send

ASSUME TeamAssumption ==
    /\ Teammate \subseteq Agent
    /\ Agent \cap {"lead", "leadId"} = {}
    /\ PathIsText \in BOOLEAN
    /\ Window \in Nat \ {0} /\ MaxSends \in Nat

VARIABLES
    team,           \* the team in _teams: "none", "open" or "deleted"
    members,        \* team.members
    stage,          \* where the coroutine of each background task stands
    polls,          \* polls left to it
    status,         \* BackgroundTask.status
    notifyQueue,    \* _notify_queue
    reports,        \* how often the lead was told of the end of a task
    box,            \* unread mails of each directory
    written, read,  \* mails ever written to and read from a directory, in order
    available,      \* members whose "is now idle and available" mail was written
    streaming,      \* the lead executes a run
    sends

tasks == <<stage, polls, status, notifyQueue>>
mailboxes == <<box, written, read>>
vars == <<team, members, tasks, reports, mailboxes, available, streaming, sends>>

Directory == Teammate \cup {"lead", "leadId"}
Stage == {"absent", "working", "waiting", "followup", "ended"}
Status == {"running", "completed", "failed", "cancelled"}

Init ==
    /\ team = "none" /\ members = {}
    /\ stage = [a \in Agent |-> "absent"]
    /\ polls = [a \in Agent |-> 0]
    /\ status = [a \in Agent |-> "running"]
    /\ notifyQueue = <<>>
    /\ reports = [a \in Agent |-> 0]
    /\ box = [d \in Directory |-> <<>>]
    /\ written = [d \in Directory |-> 0]
    /\ read = [d \in Directory |-> <<>>]
    /\ available = {}
    /\ streaming = FALSE
    /\ sends = 0

-----------------------------------------------------------------------------
(* Mailbox.                                                                *)

Write(d) ==
    /\ written' = [written EXCEPT ![d] = @ + 1]
    /\ box' = [box EXCEPT ![d] = Append(@, written[d] + 1)]
    /\ UNCHANGED read

ConsumeWithoutUnlink(d) ==
    /\ read' = [read EXCEPT ![d] = @ \o box[d]]
    /\ UNCHANGED <<box, written>>

Consume(d) ==
    /\ read' = [read EXCEPT ![d] = @ \o box[d]]
    /\ box' = [box EXCEPT ![d] = <<>>]
    /\ UNCHANGED written

-----------------------------------------------------------------------------
(* The lead's tools.                                                       *)

CreateTeam ==
    /\ streaming /\ team = "none"
    /\ team' = "open"
    /\ UNCHANGED <<members, tasks, reports, mailboxes, available, streaming,
                   sends>>

\* A teammate is registered as a member before it is launched.
Launch(a) ==
    /\ streaming /\ stage[a] = "absent"
    /\ a \in Teammate => team = "open" /\ PathIsText
    /\ members' = IF a \in Teammate THEN members \cup {a} ELSE members
    /\ stage' = [stage EXCEPT ![a] = "working"]
    /\ UNCHANGED <<team, polls, status, notifyQueue, reports, mailboxes,
                   available, streaming, sends>>

\* register_member raises in team.save, for the path or because the file cannot
\* be written, and the tool call is an error.
LaunchFails(a) ==
    /\ streaming /\ stage[a] = "absent"
    /\ a \in Teammate \ members /\ team = "open"
    /\ members' = members \cup {a}
    /\ UNCHANGED <<team, tasks, reports, mailboxes, available, streaming, sends>>

\* No handle was ever registered for a member, so none is cancelled.
DeleteTeam ==
    /\ streaming /\ team = "open"
    /\ team' = "deleted" /\ members' = {}
    /\ box' = [d \in Directory |-> <<>>]
    /\ UNCHANGED <<tasks, reports, written, read, available, streaming, sends>>

-----------------------------------------------------------------------------
(* A background task.                                                      *)

EndTask(a, outcome) ==
    /\ stage' = [stage EXCEPT ![a] = "ended"]
    /\ polls' = [polls EXCEPT ![a] = 0]
    /\ status' = [status EXCEPT ![a] = outcome]
    /\ notifyQueue' = Append(notifyQueue, a)

\* At the top of each iteration of its run a teammate reads its mail.
ReadMail(a) ==
    /\ a \in Teammate /\ stage[a] \in {"working", "followup"}
    /\ team = "open" /\ box[a] # <<>>
    /\ Consume(a)
    /\ UNCHANGED <<team, members, tasks, reports, available, streaming, sends>>

\* SendMessage, to the lead or to a member whether or not it still runs.
MailboxOfDeletedTeam == team # "none"
MailboxFound == team = "open"

SendMessage(a) ==
    /\ a \in Teammate /\ stage[a] \in {"working", "followup"}
    /\ MailboxFound
    /\ sends < MaxSends
    /\ sends' = sends + 1
    /\ \E d \in members \cup {"leadId"} : Write(d)
    /\ UNCHANGED <<team, members, tasks, reports, available, streaming>>

\* The status is "completed" as soon as the first run has returned.  A teammate
\* whose team still exists then announces that it is idle and looks into its
\* mailbox a number of times.
FirstRunEndsNotifies(a) ==
    /\ stage[a] = "working"
    /\ IF a \in Teammate /\ team = "open"
       THEN /\ stage' = [stage EXCEPT ![a] = "waiting"]
            /\ status' = [status EXCEPT ![a] = "completed"]
            /\ polls' = [polls EXCEPT ![a] = Window]
            /\ Write("lead")
            /\ notifyQueue' = Append(notifyQueue, a)
       ELSE EndTask(a, "completed") /\ UNCHANGED mailboxes
    /\ UNCHANGED <<team, members, reports, available, streaming, sends>>

FirstRunEnds(a) ==
    /\ stage[a] = "working"
    /\ IF a \in Teammate /\ team = "open"
       THEN /\ stage' = [stage EXCEPT ![a] = "waiting"]
            /\ status' = [status EXCEPT ![a] = "completed"]
            /\ polls' = [polls EXCEPT ![a] = Window]
            /\ Write("lead")
            /\ UNCHANGED notifyQueue
       ELSE EndTask(a, "completed") /\ UNCHANGED mailboxes
    /\ UNCHANGED <<team, members, reports, available, streaming, sends>>

\* One poll.  A follow-up is one of the polls, and the mailbox is the one of the
\* time before, also when the team has been deleted since.
PollMailbox(a) ==
    /\ stage[a] = "waiting" /\ polls[a] > 0
    /\ polls' = [polls EXCEPT ![a] = @ - 1]
    /\ IF box[a] = <<>>
       THEN UNCHANGED <<stage, mailboxes>>
       ELSE /\ stage' = [stage EXCEPT ![a] = "followup"]
            /\ Consume(a)
    /\ UNCHANGED <<team, members, status, notifyQueue, reports, available,
                   streaming, sends>>

FollowUpEnds(a) ==
    /\ stage[a] = "followup"
    /\ stage' = [stage EXCEPT ![a] = "waiting"]
    /\ Write("lead")
    /\ UNCHANGED <<team, members, polls, status, notifyQueue, reports, available,
                   streaming, sends>>

WindowCloses(a) ==
    /\ stage[a] = "waiting" /\ polls[a] = 0
    /\ EndTask(a, status[a])
    /\ UNCHANGED <<team, members, reports, mailboxes, available, streaming, sends>>

\* A run raises: the client, a tool, the disk.
FailsSilently(a) ==
    /\ stage[a] \in {"working", "waiting", "followup"}
    /\ stage' = [stage EXCEPT ![a] = "ended"]
    /\ status' = [status EXCEPT ![a] = "failed"]
    /\ UNCHANGED <<team, members, polls, notifyQueue, reports, mailboxes,
                   available, streaming, sends>>

Fails(a) ==
    /\ stage[a] \in {"working", "waiting", "followup"}
    /\ EndTask(a, "failed")
    /\ UNCHANGED <<team, members, reports, mailboxes, available, streaming, sends>>

\* /tasks cancel: refused once the status is no longer "running".
CancelTask(a) ==
    /\ stage[a] # "absent" /\ status[a] = "running"
    /\ EndTask(a, "cancelled")
    /\ UNCHANGED <<team, members, reports, mailboxes, available, streaming, sends>>

-----------------------------------------------------------------------------
(* The chat.                                                               *)

Queued == {notifyQueue[i] : i \in DOMAIN notifyQueue}

\* _process_task_notifications: every task in the queue is reported, and of each
\* one that is a member the lead gets a mail that it is available.
ReportQueued ==
    /\ reports' = [a \in Agent |-> IF a \in Queued THEN reports[a] + 1
                                   ELSE reports[a]]
    /\ notifyQueue' = <<>>
    /\ available' = available \cup (members \cap Queued)

AvailableMails ==
    [i \in 1..Cardinality(members \cap Queued) |-> written["leadId"] + i]

WrittenAfterReport ==
    [written EXCEPT !["leadId"] = @ + Len(AvailableMails)]

PromptLead ==
    /\ ~streaming
    /\ streaming' = TRUE
    /\ UNCHANGED <<team, members, tasks, reports, mailboxes, available, sends>>

\* A run of the lead ends; the tasks that ended meanwhile start another one.
RunEnds ==
    /\ streaming
    /\ streaming' = (notifyQueue # <<>>)
    /\ ReportQueued
    /\ written' = WrittenAfterReport
    /\ box' = [box EXCEPT !["leadId"] = @ \o AvailableMails]
    /\ UNCHANGED <<team, members, stage, polls, status, read, sends>>

\* The poller, while no run streams: the tasks, and then the mail of the lead's
\* id, the new ones included.
Poll ==
    /\ ~streaming
    /\ notifyQueue # <<>> \/ (team = "open" /\ box["leadId"] # <<>>)
    /\ ReportQueued
    /\ written' = WrittenAfterReport
    /\ IF team = "open"
       THEN /\ read' = [read EXCEPT !["leadId"] =
                           @ \o box["leadId"] \o AvailableMails]
            /\ box' = [box EXCEPT !["leadId"] = <<>>]
       ELSE UNCHANGED <<read, box>>
    /\ streaming' = TRUE
    /\ UNCHANGED <<team, members, stage, polls, status, sends>>

-----------------------------------------------------------------------------

TaskStep(a) ==
    FirstRunEnds(a) \/ PollMailbox(a) \/ FollowUpEnds(a) \/ WindowCloses(a)

Next ==
    \/ CreateTeam \/ DeleteTeam
    \/ PromptLead \/ RunEnds \/ Poll
    \/ \E a \in Agent :
          \/ Launch(a) \/ LaunchFails(a) \/ ReadMail(a) \/ SendMessage(a)
          \/ TaskStep(a) \/ Fails(a) \/ CancelTask(a)

Spec == Init /\ [][Next]_vars

\* Runs of agents end (EveryRunEnds of AgentLoop), a poll follows every poll, and
\* the chat's timer fires again and again between the runs.
FairSpec ==
    /\ Spec
    /\ \A a \in Agent : WF_vars(TaskStep(a))
    /\ WF_vars(RunEnds)
    /\ SF_vars(Poll)

-----------------------------------------------------------------------------
(* Properties.                                                             *)

\* Every variable stays in its type.
TypeOK ==
    /\ team \in {"none", "open", "deleted"}
    /\ members \subseteq Teammate /\ available \subseteq Teammate
    /\ stage \in [Agent -> Stage]
    /\ polls \in [Agent -> 0..Window]
    /\ status \in [Agent -> Status]
    /\ notifyQueue \in Seq(Agent)
    /\ reports \in [Agent -> Nat]
    /\ box \in [Directory -> Seq(Nat)]
    /\ written \in [Directory -> Nat]
    /\ read \in [Directory -> Seq(Nat)]
    /\ streaming \in BOOLEAN
    /\ sends \in 0..MaxSends

UpTo(n) == [i \in 1..n |-> i]

\* While the team exists, what was read from a directory followed by what is
\* still in it is what was written to it: no mail is lost, read twice or out of
\* order, whichever of a run, a poll or the chat reads it.
MailConserved ==
    team # "deleted" =>
        \A d \in Directory : read[d] \o box[d] = UpTo(written[d])

\* The directories of a deleted team get no mail any more, except the idle
\* announcements of members that still run.
DeletedTeamIsSilent ==
    team = "deleted" => \A d \in Directory \ {"lead"} : box[d] = <<>>

\* The life of the tasks as the lead sees it.
LifeOf(where, told) ==
    CASE where = "absent" -> "unborn"
      [] where \in {"working", "waiting", "followup"} -> "working"
      [] where = "ended" /\ told = 0 -> "over"
      [] where = "ended" /\ told = 1 -> "reported"
      [] OTHER -> "reported twice"

life == [a \in Agent |-> LifeOf(stage[a], reports[a])]

outcome == [a \in Agent |->
               IF stage[a] = "ended" THEN status[a] ELSE "none"]

Lifecycle == INSTANCE TaskLifecycle WITH life <- life, outcome <- outcome

\* A task is reported once, after it is over and with its final status,
\* although the status is "completed" long before that.
ReportsTrueOutcome == Lifecycle!Spec

\* An agent that was launched is reported in the end.
EveryTaskReported ==
    \A a \in Agent : stage[a] # "absent" ~> reports[a] > 0

-----------------------------------------------------------------------------
(* What the documentation of the code says and the code does not keep: the   *)
(* README tells how each of these comes to be violated.                      *)

\* A member of the team is an agent that was launched.
MembersAreLaunched == \A a \in members : stage[a] # "absent"

\* A member the lead is told is idle and available for new tasks, and whose task
\* did complete, still looks into its mailbox.
AvailableMeansListening ==
    \A a \in available :
        status[a] = "completed" => stage[a] \in {"waiting", "followup"}

\* While the team exists the mail teammates write to the lead is read.
LeadMailIsRead ==
    \A d \in {"lead", "leadId"} :
        box[d] # <<>> ~> (box[d] = <<>> \/ team = "deleted")

\* Deleting a team stops its members.
DeletedTeamIsStopped ==
    team = "deleted" => \A a \in Teammate : stage[a] \in {"absent", "ended"}

=============================================================================

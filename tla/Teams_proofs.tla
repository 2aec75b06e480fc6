----------------------------- MODULE Teams_proofs -----------------------------
(***************************************************************************)
(* For any agents, any team and any number of polls: background tasks keep  *)
(* the promise of TaskLifecycle (Teams implements it under the mapping of   *)
(* life and outcome), and the mailboxes of a team conserve its mail.        *)
(***************************************************************************)
EXTENDS Teams, FiniteSetTheorems, SequenceTheorems, TLAPS

\* The inductive invariant: the status goes with the stage, and a task that is
\* over waits in the queue, not yet reported, or was reported once and left it.
QueueTypes ==
    /\ stage \in [Agent -> Stage]
    /\ status \in [Agent -> Status]
    /\ reports \in [Agent -> Nat]
    /\ notifyQueue \in Seq(Agent)

StatusOfStage(a) ==
    /\ stage[a] \in {"absent", "working"} => status[a] = "running"
    /\ stage[a] \in {"waiting", "followup"} => status[a] = "completed"
    /\ stage[a] = "ended" => status[a] \in Lifecycle!Outcome

QueuedOnce(a) ==
    /\ stage[a] # "ended" => a \notin Queued /\ reports[a] = 0
    /\ stage[a] = "ended" => \/ a \in Queued /\ reports[a] = 0
                             \/ a \notin Queued /\ reports[a] = 1

QueueInv ==
    /\ QueueTypes
    /\ \A a \in Agent : StatusOfStage(a) /\ QueuedOnce(a)

-----------------------------------------------------------------------------
(* The queue.                                                              *)

\* Putting an id into the queue adds it to the queued ones.
LEMMA QueuedAfterAppend ==
    ASSUME notifyQueue \in Seq(Agent), NEW a \in Agent,
           notifyQueue' = Append(notifyQueue, a)
    PROVE  notifyQueue' \in Seq(Agent) /\ Queued' = Queued \cup {a}
<1>1. notifyQueue' \in Seq(Agent)
  OBVIOUS
<1>2. \A x : x \in Queued' => x \in Queued \cup {a}
  BY DEF Queued
<1>3. Queued \subseteq Queued'
  <2> SUFFICES ASSUME NEW i \in DOMAIN notifyQueue
               PROVE  notifyQueue[i] \in Queued'
    BY DEF Queued
  <2>1. i \in DOMAIN notifyQueue' /\ notifyQueue'[i] = notifyQueue[i]
    OBVIOUS
  <2> QED
    BY <2>1 DEF Queued
<1>4. a \in Queued'
  <2>1. /\ Len(notifyQueue') \in DOMAIN notifyQueue'
        /\ notifyQueue'[Len(notifyQueue')] = a
    OBVIOUS
  <2> QED
    BY <2>1 DEF Queued
<1> QED
  BY <1>1, <1>2, <1>3, <1>4

-----------------------------------------------------------------------------
(* The mapping.                                                            *)

\* The abstract life of each stage of a task.
LEMMA LifeOfValues ==
    /\ \A n : LifeOf("absent", n) = "unborn"
    /\ \A s \in {"working", "waiting", "followup"} : \A n :
           LifeOf(s, n) = "working"
    /\ LifeOf("ended", 0) = "over"
    /\ LifeOf("ended", 1) = "reported"
BY DEF LifeOf

-----------------------------------------------------------------------------
(* The steps, in the three ways they can touch a task.                     *)

\* A step that leaves stages, statuses, the queue and the reports alone.
LEMMA TasksUntouched ==
    ASSUME QueueInv, UNCHANGED <<stage, status, notifyQueue, reports>>
    PROVE  QueueInv' /\ UNCHANGED Lifecycle!vars
BY DEF QueueInv, QueueTypes, StatusOfStage, QueuedOnce, Queued, Lifecycle!vars,
       life, outcome, Lifecycle!Outcome

\* A task moves on without ending.
LEMMA TaskMoves ==
    ASSUME QueueInv, NEW a \in Agent,
           stage[a] \in {"working", "waiting", "followup"},
           NEW s \in {"working", "waiting", "followup"},
           stage' = [stage EXCEPT ![a] = s],
           status' = [status EXCEPT ![a] =
               IF s = "working" THEN "running" ELSE "completed"],
           UNCHANGED <<notifyQueue, reports>>
    PROVE  QueueInv' /\ UNCHANGED Lifecycle!vars
<1>1. QueueTypes'
  BY DEF QueueInv, QueueTypes, Stage, Status
<1>2. \A b \in Agent : (StatusOfStage(b) /\ QueuedOnce(b))'
  BY DEF QueueInv, QueueTypes, StatusOfStage, QueuedOnce, Queued,
         Lifecycle!Outcome
<1>3. life' = life
  <2>1. LifeOf(stage[a], reports[a]) = "working" /\ LifeOf(s, reports[a]) = "working"
    BY LifeOfValues
  <2>2. \A b \in Agent : LifeOf(stage'[b], reports'[b]) = LifeOf(stage[b], reports[b])
    BY <2>1 DEF QueueInv, QueueTypes
  <2> QED
    BY <2>2 DEF life
<1>4. outcome' = outcome
  BY DEF QueueInv, QueueTypes, outcome
<1> QED
  BY <1>1, <1>2, <1>3, <1>4 DEF QueueInv, Lifecycle!vars

\* A task ends.
LEMMA TaskEnds ==
    ASSUME QueueInv, NEW a \in Agent, NEW o \in Lifecycle!Outcome,
           stage[a] \in {"working", "waiting", "followup"},
           EndTask(a, o), UNCHANGED reports
    PROVE  QueueInv' /\ Lifecycle!End(a)
<1>1. notifyQueue' \in Seq(Agent) /\ Queued' = Queued \cup {a}
  BY QueuedAfterAppend DEF EndTask, QueueInv, QueueTypes
<1>2. QueueTypes'
  BY <1>1 DEF EndTask, QueueInv, QueueTypes, Stage, Status, Lifecycle!Outcome
<1>3. \A b \in Agent : (StatusOfStage(b) /\ QueuedOnce(b))'
  BY <1>1 DEF EndTask, QueueInv, QueueTypes, StatusOfStage, QueuedOnce,
              Lifecycle!Outcome
<1>4. reports[a] = 0
  BY DEF QueueInv, QueuedOnce
<1>5. Lifecycle!End(a)
  <2>1. life[a] = "working"
    BY LifeOfValues DEF life
  <2>2. life' = [life EXCEPT ![a] = "over"]
    <3>1. LifeOf(stage'[a], reports'[a]) = "over"
      BY <1>4, LifeOfValues DEF EndTask, QueueInv, QueueTypes
    <3>2. \A b \in Agent \ {a} :
             LifeOf(stage'[b], reports'[b]) = LifeOf(stage[b], reports[b])
      BY DEF EndTask, QueueInv, QueueTypes
    <3> QED
      BY <3>1, <3>2 DEF life
  <2>3. outcome' = [outcome EXCEPT ![a] = o]
    BY DEF EndTask, QueueInv, QueueTypes, outcome
  <2> QED
    BY <2>1, <2>2, <2>3 DEF Lifecycle!End
<1> QED
  BY <1>2, <1>3, <1>5 DEF QueueInv

\* The queue is reported.
LEMMA QueueReported ==
    ASSUME QueueInv, ReportQueued, UNCHANGED <<stage, status>>
    PROVE  QueueInv' /\ (Lifecycle!Report \/ UNCHANGED Lifecycle!vars)
<1>1. notifyQueue' \in Seq(Agent) /\ Queued' = {}
  BY DEF ReportQueued, Queued
<1>2. QueueTypes'
  BY <1>1 DEF ReportQueued, QueueInv, QueueTypes
<1>3. \A b \in Agent : (StatusOfStage(b) /\ QueuedOnce(b))'
  BY <1>1 DEF ReportQueued, QueueInv, QueueTypes, StatusOfStage, QueuedOnce
<1>4. outcome' = outcome
  BY DEF outcome
<1>5. \A b \in Agent : life[b] = "over" <=> b \in Queued
  <2> SUFFICES ASSUME NEW b \in Agent
               PROVE  life[b] = "over" <=> b \in Queued
    OBVIOUS
  <2>1. CASE stage[b] = "ended"
    BY <2>1, LifeOfValues DEF QueueInv, QueuedOnce, life
  <2>2. CASE stage[b] # "ended"
    BY <2>2, LifeOfValues DEF QueueInv, QueueTypes, QueuedOnce, Stage, life
  <2> QED
    BY <2>1, <2>2
<1>6. life' = [b \in Agent |->
                  IF life[b] = "over" THEN "reported" ELSE life[b]]
  <2>1. ASSUME NEW b \in Agent, b \in Queued
        PROVE  LifeOf(stage'[b], reports'[b]) = "reported"
    <3>1. stage[b] = "ended" /\ reports[b] = 0
      BY <2>1 DEF QueueInv, QueuedOnce
    <3>2. stage'[b] = "ended" /\ reports'[b] = 1
      BY <2>1, <3>1 DEF ReportQueued
    <3> QED
      BY <3>2, LifeOfValues
  <2>2. ASSUME NEW b \in Agent, b \notin Queued
        PROVE  LifeOf(stage'[b], reports'[b]) = LifeOf(stage[b], reports[b])
    BY <2>2 DEF ReportQueued
  <2> QED
    BY <1>5, <2>1, <2>2 DEF life
<1>7. CASE \E b \in Agent : life[b] = "over"
  BY <1>2, <1>3, <1>4, <1>6, <1>7 DEF QueueInv, Lifecycle!Report
<1>8. CASE ~ \E b \in Agent : life[b] = "over"
  <2>1. life' = life
    BY <1>6, <1>8 DEF life
  <2> QED
    BY <1>2, <1>3, <1>4, <2>1 DEF QueueInv, Lifecycle!vars
<1> QED
  BY <1>7, <1>8

-----------------------------------------------------------------------------
(* The refinement.                                                         *)

\* No task has been launched at the start.
LEMMA InitRefines == Init => QueueInv /\ Lifecycle!Init
<1> SUFFICES ASSUME Init PROVE QueueInv /\ Lifecycle!Init
  OBVIOUS
<1>1. QueueInv
  BY DEF Init, QueueInv, QueueTypes, StatusOfStage, QueuedOnce, Queued, Stage,
         Status
<1>2. Lifecycle!Init
  BY LifeOfValues DEF Init, Lifecycle!Init, Lifecycle!NoOutcome, life, outcome
<1> QED
  BY <1>1, <1>2

\* A launch is a launch of the abstract life cycle.
LEMMA LaunchRefines ==
    ASSUME QueueInv, NEW a \in Agent, Launch(a)
    PROVE  QueueInv' /\ Lifecycle!Launch(a)
<1>1. QueueTypes'
  BY DEF Launch, QueueInv, QueueTypes, Stage
<1>2. \A b \in Agent : (StatusOfStage(b) /\ QueuedOnce(b))'
  BY DEF Launch, QueueInv, QueueTypes, StatusOfStage, QueuedOnce, Queued
<1>3. life[a] = "unborn" /\ life' = [life EXCEPT ![a] = "working"]
  <2>1. LifeOf(stage[a], reports[a]) = "unborn"
    BY LifeOfValues DEF Launch
  <2>2. LifeOf(stage'[a], reports'[a]) = "working"
    BY LifeOfValues DEF Launch, QueueInv, QueueTypes
  <2>3. \A b \in Agent \ {a} :
           LifeOf(stage'[b], reports'[b]) = LifeOf(stage[b], reports[b])
    BY DEF Launch, QueueInv, QueueTypes
  <2> QED
    BY <2>1, <2>2, <2>3 DEF life
<1>4. outcome' = outcome
  BY DEF Launch, QueueInv, QueueTypes, outcome
<1> QED
  BY <1>1, <1>2, <1>3, <1>4 DEF QueueInv, Lifecycle!Launch

\* Every step is one of the life cycle, or a stutter.
LEMMA StepRefines ==
    ASSUME QueueInv, [Next]_vars
    PROVE  QueueInv' /\ [Lifecycle!Next]_(Lifecycle!vars)
<1>1. CASE CreateTeam \/ DeleteTeam \/ PromptLead \/ UNCHANGED vars
  BY <1>1, TasksUntouched DEF CreateTeam, DeleteTeam, PromptLead, vars, tasks
<1>2. CASE RunEnds \/ Poll
  <2>1. ReportQueued /\ UNCHANGED <<stage, status>>
    BY <1>2 DEF RunEnds, Poll
  <2> QED
    BY <2>1, QueueReported DEF Lifecycle!Next
<1>3. ASSUME NEW a \in Agent, LaunchFails(a) \/ ReadMail(a) \/ SendMessage(a)
      PROVE  QueueInv' /\ [Lifecycle!Next]_(Lifecycle!vars)
  BY <1>3, TasksUntouched DEF LaunchFails, ReadMail, SendMessage, tasks
<1>4. ASSUME NEW a \in Agent, Launch(a)
      PROVE  QueueInv' /\ [Lifecycle!Next]_(Lifecycle!vars)
  BY <1>4, LaunchRefines DEF Lifecycle!Next
<1>5. ASSUME NEW a \in Agent, FirstRunEnds(a)
      PROVE  QueueInv' /\ [Lifecycle!Next]_(Lifecycle!vars)
  <2>1. CASE a \in Teammate /\ team = "open"
    BY <1>5, <2>1, TaskMoves DEF FirstRunEnds, QueueInv, QueueTypes
  <2>2. CASE ~(a \in Teammate /\ team = "open")
    BY <1>5, <2>2, TaskEnds DEF FirstRunEnds, Lifecycle!Outcome, Lifecycle!Next
  <2> QED
    BY <2>1, <2>2
<1>6. ASSUME NEW a \in Agent, PollMailbox(a)
      PROVE  QueueInv' /\ [Lifecycle!Next]_(Lifecycle!vars)
  <2>1. status[a] = "completed"
    BY <1>6 DEF PollMailbox, QueueInv, StatusOfStage
  <2>2. CASE box[a] = <<>>
    BY <1>6, <2>2, TasksUntouched DEF PollMailbox
  <2>3. CASE box[a] # <<>>
    BY <1>6, <2>1, <2>3, TaskMoves DEF PollMailbox, QueueInv, QueueTypes
  <2> QED
    BY <2>2, <2>3
<1>7. ASSUME NEW a \in Agent, FollowUpEnds(a)
      PROVE  QueueInv' /\ [Lifecycle!Next]_(Lifecycle!vars)
  <2>1. status[a] = "completed"
    BY <1>7 DEF FollowUpEnds, QueueInv, StatusOfStage
  <2> QED
    BY <1>7, <2>1, TaskMoves DEF FollowUpEnds, QueueInv, QueueTypes
<1>8. ASSUME NEW a \in Agent, WindowCloses(a) \/ Fails(a) \/ CancelTask(a)
      PROVE  QueueInv' /\ [Lifecycle!Next]_(Lifecycle!vars)
  <2>1. stage[a] \in {"working", "waiting", "followup"}
    BY <1>8 DEF WindowCloses, Fails, CancelTask, QueueInv, QueueTypes,
                StatusOfStage, Stage, Lifecycle!Outcome
  <2>2. PICK o \in Lifecycle!Outcome : EndTask(a, o) /\ UNCHANGED reports
    <3>1. CASE WindowCloses(a)
      BY <3>1 DEF WindowCloses, QueueInv, StatusOfStage, Lifecycle!Outcome
    <3>2. CASE Fails(a)
      BY <3>2 DEF Fails, Lifecycle!Outcome
    <3>3. CASE CancelTask(a)
      BY <3>3 DEF CancelTask, Lifecycle!Outcome
    <3> QED
      BY <1>8, <3>1, <3>2, <3>3
  <2> QED
    BY <2>1, <2>2, TaskEnds DEF Lifecycle!Next
<1> QED
  BY <1>1, <1>2, <1>3, <1>4, <1>5, <1>6, <1>7, <1>8 DEF Next, TaskStep

\* Every task is reported to the lead once, after it is over, with the status it
\* ended with (_run_background, poll_completed): Teams implements TaskLifecycle.
THEOREM TasksKeepPromise == Spec => ReportsTrueOutcome
<1>1. Init => QueueInv /\ Lifecycle!Init
  BY InitRefines
<1>2. QueueInv /\ [Next]_vars => QueueInv' /\ [Lifecycle!Next]_(Lifecycle!vars)
  BY StepRefines
<1> QED
  BY <1>1, <1>2, PTL DEF Spec, ReportsTrueOutcome, Lifecycle!Spec

-----------------------------------------------------------------------------
(* The mailboxes: no mail of a team is lost, doubled or reordered.         *)

MailTypes ==
    /\ team \in {"none", "open", "deleted"}
    /\ members \subseteq Teammate /\ (members # {} => team = "open")
    /\ notifyQueue \in Seq(Agent)
    /\ box \in [Directory -> Seq(Nat)]
    /\ written \in [Directory -> Nat]
    /\ read \in [Directory -> Seq(Nat)]

MailInv == MailTypes /\ MailConserved

\* Three boxes in a row.
LEMMA ConcatTypes ==
    ASSUME NEW r \in Seq(Nat), NEW b \in Seq(Nat), NEW m \in Seq(Nat)
    PROVE  /\ r \o b \in Seq(Nat) /\ b \o m \in Seq(Nat)
           /\ (r \o b) \o m \in Seq(Nat)
           /\ (r \o b) \o m = r \o (b \o m)
<1>1. r \o b \in Seq(Nat) /\ b \o m \in Seq(Nat)
  BY ConcatProperties
<1>2. (r \o b) \o m \in Seq(Nat)
  BY <1>1, ConcatProperties
<1>3. (r \o b) \o m = r \o (b \o m)
  BY ConcatAssociative, SMTT(30)
<1> QED
  BY <1>1, <1>2, <1>3

\* A mail sent last is last of all.
LEMMA AppendBehind ==
    ASSUME NEW r \in Seq(Nat), NEW b \in Seq(Nat), NEW x \in Nat
    PROVE  r \o Append(b, x) = Append(r \o b, x)
<1>1. <<x>> \in Seq(Nat) /\ r \o b \in Seq(Nat)
  BY ConcatTypes
<1>2. Append(b, x) = b \o <<x>> /\ Append(r \o b, x) = (r \o b) \o <<x>>
  BY <1>1, AppendIsConcat
<1> QED
  BY <1>1, <1>2, ConcatAssociative

\* The numbers up to n go on with the k numbers behind n.
LEMMA UpToSum ==
    ASSUME NEW n \in Nat, NEW k \in Nat
    PROVE  /\ UpTo(n) \in Seq(Nat) /\ [i \in 1..k |-> n + i] \in Seq(Nat)
           /\ UpTo(n) \o [i \in 1..k |-> n + i] = UpTo(n + k)
<1> DEFINE more == [i \in 1..k |-> n + i]
<1>1. UpTo(n) \in Seq(Nat) /\ Len(UpTo(n)) = n
  BY DEF UpTo
<1>2. more \in Seq(Nat) /\ Len(more) = k
  OBVIOUS
<1>3. UpTo(n + k) \in Seq(Nat) /\ Len(UpTo(n + k)) = n + k
  BY DEF UpTo
<1>4. /\ UpTo(n) \o more \in Seq(Nat) /\ Len(UpTo(n) \o more) = n + k
      /\ \A i \in 1..(n + k) : (UpTo(n) \o more)[i] =
              IF i <= n THEN UpTo(n)[i] ELSE more[i - n]
  <2> HIDE DEF more
  <2>1. /\ UpTo(n) \o more \in Seq(Nat)
        /\ Len(UpTo(n) \o more) = Len(UpTo(n)) + Len(more)
        /\ \A i \in 1..(Len(UpTo(n)) + Len(more)) : (UpTo(n) \o more)[i] =
               IF i <= Len(UpTo(n)) THEN UpTo(n)[i] ELSE more[i - Len(UpTo(n))]
    BY <1>1, <1>2, ConcatProperties
  <2> QED
    BY <1>1, <1>2, <2>1
<1>5. \A i \in 1..(n + k) : (UpTo(n) \o more)[i] = UpTo(n + k)[i]
  <2> SUFFICES ASSUME NEW i \in 1..(n + k)
               PROVE  (UpTo(n) \o more)[i] = i
    BY DEF UpTo
  <2>1. CASE i <= n
    BY <1>4, <2>1 DEF UpTo
  <2>2. CASE ~(i <= n)
    <3>1. i - n \in 1..k
      BY <2>2
    <3>2. more[i - n] = i
      BY <3>1
    <3> QED
      BY <1>4, <2>2, <3>2
  <2> QED
    BY <2>1, <2>2
<1> QED
  BY <1>1, <1>2, <1>3, <1>4, <1>5, SeqEqual

\* One number more.
LEMMA UpToNext ==
    ASSUME NEW n \in Nat
    PROVE  Append(UpTo(n), n + 1) = UpTo(n + 1)
<1>1. [i \in 1..1 |-> n + i] = <<n + 1>>
  OBVIOUS
<1>2. UpTo(n) \o <<n + 1>> = UpTo(n + 1)
  BY <1>1, UpToSum
<1>3. UpTo(n) \in Seq(Nat)
  BY DEF UpTo
<1>4. UpTo(n) \o <<n + 1>> = Append(UpTo(n), n + 1)
  BY <1>3, AppendIsConcat
<1> QED
  BY <1>2, <1>4

\* A mail written to a directory comes last.
LEMMA WriteConserves ==
    ASSUME MailInv, NEW d \in Directory, Write(d),
           UNCHANGED <<team, members>>, notifyQueue' \in Seq(Agent)
    PROVE  MailInv'
<1>1. MailTypes'
  BY DEF MailInv, MailTypes, Write
<1>2. ASSUME team # "deleted", NEW e \in Directory
      PROVE  read'[e] \o box'[e] = UpTo(written'[e])
  <2>1. read[e] \o box[e] = UpTo(written[e])
    BY <1>2 DEF MailInv, MailConserved
  <2>2. CASE e = d
    <3>1. read[d] \o Append(box[d], written[d] + 1)
            = Append(read[d] \o box[d], written[d] + 1)
      <4>1. /\ read[d] \in Seq(Nat) /\ box[d] \in Seq(Nat)
            /\ written[d] + 1 \in Nat
        BY DEF MailInv, MailTypes
      <4> QED
        BY <4>1, AppendBehind
    <3>2. read'[d] \o box'[d] = Append(UpTo(written[d]), written[d] + 1)
      BY <2>1, <2>2, <3>1 DEF Write, MailInv, MailTypes
    <3> QED
      BY <2>2, <3>2, UpToNext DEF Write, MailInv, MailTypes
  <2>3. CASE e # d
    BY <2>1, <2>3 DEF Write, MailInv, MailTypes
  <2> QED
    BY <2>2, <2>3
<1> QED
  BY <1>1, <1>2 DEF MailInv, MailConserved

\* What is consumed moves from the directory to the reader.
LEMMA ConsumeConserves ==
    ASSUME MailInv, NEW d \in Directory, Consume(d),
           UNCHANGED <<team, members, notifyQueue>>
    PROVE  MailInv'
<1>1. MailTypes'
  BY DEF MailInv, MailTypes, Consume
<1>2. ASSUME team # "deleted", NEW e \in Directory
      PROVE  read'[e] \o box'[e] = UpTo(written'[e])
  <2>1. read[e] \o box[e] = UpTo(written[e])
    BY <1>2 DEF MailInv, MailConserved
  <2>2. CASE e = d
    <3>1. (read[d] \o box[d]) \o <<>> = read[d] \o box[d]
      BY ConcatEmptySeq, ConcatProperties DEF MailInv, MailTypes
    <3> QED
      BY <2>1, <2>2, <3>1 DEF Consume, MailInv, MailTypes
  <2>3. CASE e # d
    BY <2>1, <2>3 DEF Consume, MailInv, MailTypes
  <2> QED
    BY <2>2, <2>3
<1> QED
  BY <1>1, <1>2 DEF MailInv, MailConserved

\* The mails of a report are numbered on.
LEMMA AvailableMailsType ==
    ASSUME MailTypes
    PROVE  \E k \in Nat : /\ AvailableMails = [i \in 1..k |-> written["leadId"] + i]
                          /\ Len(AvailableMails) = k
<1>1. IsFiniteSet(DOMAIN notifyQueue)
  BY FS_Interval DEF MailTypes
<1>2. IsFiniteSet(Queued)
  <2> DEFINE f == [i \in DOMAIN notifyQueue |-> notifyQueue[i]]
  <2>1. f \in Surjection(DOMAIN notifyQueue, Queued)
    BY DEF Surjection, Queued
  <2> QED
    BY <1>1, <2>1, FS_Surjection
<1>3. Cardinality(members \cap Queued) \in Nat
  BY <1>2, FS_Subset, FS_CardinalityType
<1> QED
  BY <1>3 DEF AvailableMails

\* A report moves mails from the box to the reader and loses none.
LEMMA ReportConserves ==
    ASSUME MailInv, UNCHANGED <<team, members>>, notifyQueue' \in Seq(Agent),
           written' = WrittenAfterReport,
           \/ /\ box' = [box EXCEPT !["leadId"] = @ \o AvailableMails]
              /\ UNCHANGED read
           \/ /\ read' = [read EXCEPT !["leadId"] =
                              @ \o box["leadId"] \o AvailableMails]
              /\ box' = [box EXCEPT !["leadId"] = <<>>]
           \/ team # "open" /\ UNCHANGED <<read, box>>
    PROVE  MailInv'
<1> PICK k \in Nat : /\ AvailableMails = [i \in 1..k |-> written["leadId"] + i]
                     /\ Len(AvailableMails) = k
  BY AvailableMailsType DEF MailInv
<1> DEFINE lead == "leadId"
<1>1. lead \in Directory /\ AvailableMails \in Seq(Nat)
  BY UpToSum DEF Directory, MailInv, MailTypes
<1>2. /\ read[lead] \in Seq(Nat) /\ box[lead] \in Seq(Nat)
      /\ read[lead] \o box[lead] \in Seq(Nat)
      /\ written[lead] \in Nat
  BY <1>1, ConcatTypes DEF MailInv, MailTypes
<1>3. /\ box[lead] \o AvailableMails \in Seq(Nat)
      /\ (read[lead] \o box[lead]) \o AvailableMails \in Seq(Nat)
  BY <1>1, <1>2, ConcatTypes
<1>4. written' \in [Directory -> Nat]
  BY <1>1, <1>2 DEF WrittenAfterReport, MailInv, MailTypes
<1>5. read' \in [Directory -> Seq(Nat)] /\ box' \in [Directory -> Seq(Nat)]
  <2>1. read \in [Directory -> Seq(Nat)] /\ box \in [Directory -> Seq(Nat)]
    BY DEF MailInv, MailTypes
  <2>2. <<>> \in Seq(Nat)
    OBVIOUS
  <2>3. CASE /\ box' = [box EXCEPT ![lead] = @ \o AvailableMails]
             /\ UNCHANGED read
    BY <1>1, <1>3, <2>1, <2>3
  <2>4. CASE /\ read' = [read EXCEPT ![lead] = @ \o box[lead] \o AvailableMails]
             /\ box' = [box EXCEPT ![lead] = <<>>]
    BY <1>1, <1>3, <2>1, <2>2, <2>4
  <2>5. CASE UNCHANGED <<read, box>>
    BY <2>1, <2>5
  <2> QED
    BY <2>3, <2>4, <2>5
<1>6. ASSUME team # "deleted", NEW e \in Directory
      PROVE  read'[e] \o box'[e] = UpTo(written'[e])
  <2>1. read[e] \o box[e] = UpTo(written[e])
    BY <1>6 DEF MailInv, MailConserved
  <2>2. CASE e = lead
    <3>1. read'[lead] \o box'[lead] = (read[lead] \o box[lead]) \o AvailableMails
      <4>1. CASE /\ box' = [box EXCEPT ![lead] = @ \o AvailableMails]
                 /\ UNCHANGED read
        <5>1. box'[lead] = box[lead] \o AvailableMails
          BY <1>1, <4>1 DEF MailInv, MailTypes
        <5>2. (read[lead] \o box[lead]) \o AvailableMails
                = read[lead] \o (box[lead] \o AvailableMails)
          <6>1. ASSUME NEW r \in Seq(Nat), NEW b \in Seq(Nat), NEW m \in Seq(Nat)
                PROVE  (r \o b) \o m = r \o (b \o m)
            BY ConcatTypes
          <6> HIDE DEF lead
          <6> QED
            BY <1>1, <1>2, <6>1, Zenon
        <5>3. read'[lead] = read[lead]
          BY <4>1
        <5>4. read'[lead] \o box'[lead]
                = read[lead] \o (box[lead] \o AvailableMails)
          BY <5>1, <5>3
        <5> QED
          BY <5>2, <5>4
      <4>2. CASE /\ read' = [read EXCEPT ![lead] =
                                @ \o box[lead] \o AvailableMails]
                 /\ box' = [box EXCEPT ![lead] = <<>>]
        <5>1. /\ read'[lead] = (read[lead] \o box[lead]) \o AvailableMails
              /\ box'[lead] = <<>>
          BY <1>1, <4>2 DEF MailInv, MailTypes
        <5>2. ((read[lead] \o box[lead]) \o AvailableMails) \o <<>>
                = (read[lead] \o box[lead]) \o AvailableMails
          BY <1>3, ConcatEmptySeq
        <5> QED
          BY <5>1, <5>2
      <4>3. CASE team # "open" /\ UNCHANGED <<read, box>>
        <5>1. members \cap Queued = {}
          BY <4>3 DEF MailInv, MailTypes
        <5>2. AvailableMails = <<>>
          <6>1. Cardinality(members \cap Queued) = 0
            BY <5>1, FS_EmptySet
          <6>2. Len(AvailableMails) = 0
            BY <6>1 DEF AvailableMails
          <6> QED
            BY <1>1, <6>2, EmptySeq
        <5> QED
          BY <1>2, <4>3, <5>2, ConcatEmptySeq
      <4> QED
        BY <4>1, <4>2, <4>3
    <3>2. written'[lead] = written[lead] + k
      BY <1>1, <1>2 DEF WrittenAfterReport, MailInv, MailTypes
    <3> QED
      BY <1>2, <2>1, <2>2, <3>1, <3>2, UpToSum
  <2>3. CASE e # lead
    BY <2>1, <2>3 DEF WrittenAfterReport, MailInv, MailTypes
  <2> QED
    BY <2>2, <2>3
<1> QED
  BY <1>4, <1>5, <1>6 DEF MailInv, MailTypes, MailConserved

\* A step that leaves the directories alone.
LEMMA MailUntouched ==
    ASSUME MailInv, UNCHANGED mailboxes, notifyQueue' \in Seq(Agent),
           members' \subseteq Teammate, members' # {} => team' = "open",
           \/ UNCHANGED team
           \/ team = "none" /\ team' = "open"
    PROVE  MailInv'
BY DEF MailInv, MailTypes, MailConserved, mailboxes

\* The end of a task queues agents only.
LEMMA EndTaskQueue ==
    ASSUME MailInv, NEW a \in Agent, NEW o, EndTask(a, o)
    PROVE  notifyQueue' \in Seq(Agent)
BY DEF MailInv, MailTypes, EndTask

\* Only a teammate looks into a mailbox after its run.
WaitersAreTeammates ==
    \A a \in Agent : stage[a] \in {"waiting", "followup"} => a \in Teammate

\* Every step keeps it.
LEMMA WaitersStep ==
    ASSUME QueueInv, WaitersAreTeammates, [Next]_vars
    PROVE  WaitersAreTeammates'
<1>0. stage \in [Agent -> Stage]
  BY DEF QueueInv, QueueTypes
<1>1. CASE UNCHANGED stage
  BY <1>1 DEF WaitersAreTeammates
<1>2. ASSUME NEW a \in Agent, NEW s \in Stage,
             stage' = [stage EXCEPT ![a] = s],
             s \in {"waiting", "followup"} => a \in Teammate
      PROVE  WaitersAreTeammates'
  BY <1>0, <1>2 DEF WaitersAreTeammates
<1>3. CASE CreateTeam \/ DeleteTeam \/ PromptLead \/ RunEnds \/ Poll \/ UNCHANGED vars
  BY <1>1, <1>3 DEF CreateTeam, DeleteTeam, PromptLead, RunEnds, Poll, vars, tasks
<1>4. ASSUME NEW a \in Agent,
             Launch(a) \/ LaunchFails(a) \/ ReadMail(a) \/ SendMessage(a)
                \/ TaskStep(a) \/ Fails(a) \/ CancelTask(a)
      PROVE  WaitersAreTeammates'
  <2>1. CASE UNCHANGED stage
    BY <2>1, <1>1
  <2>2. CASE ~ UNCHANGED stage
    <3>1. CASE stage[a] \in {"waiting", "followup"}
      <4>1. a \in Teammate
        BY <3>1 DEF WaitersAreTeammates
      <4>2. PICK s \in Stage : stage' = [stage EXCEPT ![a] = s]
        BY <1>4, <2>2, <3>1
           DEF Launch, LaunchFails, ReadMail, SendMessage, TaskStep, FirstRunEnds, PollMailbox,
               FollowUpEnds, WindowCloses, Fails, CancelTask, EndTask, Stage, tasks
      <4> QED
        BY <1>2, <4>1, <4>2
    <3>2. CASE stage[a] \notin {"waiting", "followup"}
      <4>1. PICK s \in Stage : /\ stage' = [stage EXCEPT ![a] = s]
                               /\ s \in {"waiting", "followup"} => a \in Teammate
        BY <1>4, <2>2, <3>2
           DEF Launch, LaunchFails, ReadMail, SendMessage, TaskStep, FirstRunEnds, PollMailbox,
               FollowUpEnds, WindowCloses, Fails, CancelTask, EndTask, Stage, tasks
      <4> QED
        BY <1>2, <4>1
    <3> QED
      BY <3>1, <3>2
  <2> QED
    BY <2>1, <2>2
<1> QED
  BY <1>3, <1>4 DEF Next

\* No step loses a mail or changes the order.
LEMMA MailStep ==
    ASSUME MailInv, WaitersAreTeammates, [Next]_vars
    PROVE  MailInv'
<1>0. /\ notifyQueue \in Seq(Agent)
      /\ members \subseteq Teammate /\ (members # {} => team = "open")
      /\ \A a \in Teammate : a \in Directory
      /\ "lead" \in Directory /\ "leadId" \in Directory
  BY DEF MailInv, MailTypes, Directory
<1>1. CASE CreateTeam \/ PromptLead \/ UNCHANGED vars
  BY <1>0, <1>1, MailUntouched DEF CreateTeam, PromptLead, vars, tasks
<1>2. CASE DeleteTeam
  BY <1>2 DEF DeleteTeam, MailInv, MailTypes, MailConserved, tasks
<1>3. CASE RunEnds
  BY <1>3, ReportConserves DEF RunEnds, ReportQueued
<1>4. CASE Poll
  <2>1. /\ UNCHANGED <<team, members>> /\ notifyQueue' \in Seq(Agent)
        /\ written' = WrittenAfterReport
    BY <1>4 DEF Poll, ReportQueued
  <2>2. CASE team = "open"
    BY <1>4, <2>1, <2>2, ReportConserves DEF Poll
  <2>3. CASE team # "open"
    BY <1>4, <2>1, <2>3, ReportConserves DEF Poll
  <2> QED
    BY <2>2, <2>3
<1>5. ASSUME NEW a \in Agent, Launch(a) \/ LaunchFails(a)
      PROVE  MailInv'
  BY <1>0, <1>5, MailUntouched DEF Launch, LaunchFails, tasks
<1>6. ASSUME NEW a \in Agent, ReadMail(a)
      PROVE  MailInv'
  BY <1>0, <1>6, ConsumeConserves DEF ReadMail, tasks
<1>7. ASSUME NEW a \in Agent, SendMessage(a)
      PROVE  MailInv'
  <2>1. PICK d \in members \cup {"leadId"} : Write(d)
    BY <1>7 DEF SendMessage
  <2> QED
    BY <1>0, <1>7, <2>1, WriteConserves DEF SendMessage, tasks
<1>8. ASSUME NEW a \in Agent, FirstRunEnds(a)
      PROVE  MailInv'
  <2>1. CASE a \in Teammate /\ team = "open"
    BY <1>0, <1>8, <2>1, WriteConserves DEF FirstRunEnds
  <2>2. CASE ~(a \in Teammate /\ team = "open")
    <3>1. EndTask(a, "completed")
      BY <1>8, <2>2 DEF FirstRunEnds
    <3> QED
      BY <1>0, <1>8, <2>2, <3>1, EndTaskQueue, MailUntouched DEF FirstRunEnds
  <2> QED
    BY <2>1, <2>2
<1>9. ASSUME NEW a \in Agent, PollMailbox(a)
      PROVE  MailInv'
  <2>1. CASE box[a] = <<>>
    BY <1>0, <1>9, <2>1, MailUntouched DEF PollMailbox
  <2>2. CASE box[a] # <<>>
    <3>1. a \in Directory /\ Consume(a)
      BY <1>0, <1>9, <2>2 DEF PollMailbox, WaitersAreTeammates
    <3> QED
      BY <1>0, <1>9, <3>1, ConsumeConserves DEF PollMailbox
  <2> QED
    BY <2>1, <2>2
<1>10. ASSUME NEW a \in Agent, FollowUpEnds(a)
      PROVE  MailInv'
  BY <1>0, <1>10, WriteConserves DEF FollowUpEnds
<1>11. ASSUME NEW a \in Agent, WindowCloses(a) \/ Fails(a) \/ CancelTask(a)
      PROVE  MailInv'
  <2>1. \E o : EndTask(a, o)
    BY <1>11 DEF WindowCloses, Fails, CancelTask
  <2>2. notifyQueue' \in Seq(Agent)
    BY <2>1, EndTaskQueue
  <2> QED
    BY <1>0, <1>11, <2>2, MailUntouched DEF WindowCloses, Fails, CancelTask
<1> QED
  BY <1>1, <1>2, <1>3, <1>4, <1>5, <1>6, <1>7, <1>8, <1>9, <1>10, <1>11
     DEF Next, TaskStep

\* The three invariants hold in every reachable state.
LEMMA MailInvariant == Spec => [](QueueInv /\ WaitersAreTeammates /\ MailInv)
<1>1. Init => QueueInv /\ WaitersAreTeammates /\ MailInv
  <2> SUFFICES ASSUME Init PROVE QueueInv /\ WaitersAreTeammates /\ MailInv
    OBVIOUS
  <2>1. QueueInv
    BY InitRefines
  <2>2. WaitersAreTeammates
    BY DEF Init, WaitersAreTeammates
  <2>3. MailTypes
    BY DEF Init, MailTypes
  <2>4. UpTo(0) = <<>>
    BY DEF UpTo
  <2>5. <<>> \o <<>> = <<>>
    OBVIOUS
  <2> QED
    BY <2>1, <2>2, <2>3, <2>4, <2>5 DEF Init, MailInv, MailConserved
<1>2. QueueInv /\ WaitersAreTeammates /\ MailInv /\ [Next]_vars
        => (QueueInv /\ WaitersAreTeammates /\ MailInv)'
  BY StepRefines, WaitersStep, MailStep
<1> QED
  BY <1>1, <1>2, PTL DEF Spec

\* While the team exists every mail written to a directory was read once, in
\* order, or still waits there (Mailbox.write, Mailbox.consume), whichever of
\* a run, a poll and the chat read it.
THEOREM MailsConserved == Spec => []MailConserved
<1>1. MailInv => MailConserved
  BY DEF MailInv
<1> QED
  BY <1>1, MailInvariant, PTL

-----------------------------------------------------------------------------
(* After the team.                                                         *)

\* The members of a deleted team are forgotten, so that no task that ends later is
\* announced to the lead's id; nobody finds its mailbox to send to; and a member
\* that still polls only reads.
LEMMA SilentStep ==
    ASSUME MailInv, DeletedTeamIsSilent, [Next]_vars
    PROVE  DeletedTeamIsSilent'
<1>0. /\ box \in [Directory -> Seq(Nat)]
      /\ team = "deleted" => members = {}
  BY DEF MailInv, MailTypes
<1> USE DEF DeletedTeamIsSilent
<1>1. CASE CreateTeam \/ PromptLead \/ Poll \/ UNCHANGED vars
  <2>1. team' = "deleted" => UNCHANGED <<team, box>>
    BY <1>1 DEF CreateTeam, PromptLead, Poll, vars, mailboxes
  <2> QED
    BY <2>1
<1>2. CASE DeleteTeam
  BY <1>2 DEF DeleteTeam
<1>3. CASE RunEnds
  <2> SUFFICES ASSUME team = "deleted"
               PROVE  \A d \in Directory \ {"lead"} : box'[d] = <<>>
    BY <1>3 DEF RunEnds
  <2>1. AvailableMails = <<>>
    <3>1. Cardinality(members \cap Queued) = 0
      BY <1>0, FS_EmptySet
    <3>2. AvailableMails = [i \in 1..0 |-> written["leadId"] + i]
      BY <3>1 DEF AvailableMails
    <3> QED
      BY <3>2
  <2>2. "leadId" \in Directory \ {"lead"}
    BY DEF Directory
  <2>3. box["leadId"] \o AvailableMails = <<>>
    BY <2>1, <2>2
  <2> QED
    BY <1>0, <1>3, <2>2, <2>3 DEF RunEnds
<1>4. ASSUME NEW a \in Agent,
             Launch(a) \/ LaunchFails(a) \/ ReadMail(a) \/ SendMessage(a)
               \/ FirstRunEnds(a) \/ WindowCloses(a) \/ Fails(a) \/ CancelTask(a)
      PROVE  DeletedTeamIsSilent'
  <2>1. team' = "deleted" => UNCHANGED <<team, box>>
    BY <1>4 DEF Launch, LaunchFails, ReadMail, SendMessage, MailboxFound, FirstRunEnds,
                WindowCloses, Fails, CancelTask, mailboxes
  <2> QED
    BY <2>1
<1>5. ASSUME NEW a \in Agent, PollMailbox(a)
      PROVE  DeletedTeamIsSilent'
  <2>1. team' = team /\ (box' = box \/ box' = [box EXCEPT ![a] = <<>>])
    BY <1>5 DEF PollMailbox, Consume, mailboxes
  <2> QED
    BY <1>0, <2>1
<1>6. ASSUME NEW a \in Agent, FollowUpEnds(a)
      PROVE  DeletedTeamIsSilent'
  BY <1>0, <1>6 DEF FollowUpEnds, Write
<1> QED
  BY <1>1, <1>2, <1>3, <1>4, <1>5, <1>6 DEF Next, TaskStep

\* Whatever members of a deleted team still run, poll and end, its directories stay
\* empty, apart from the one of their idle announcements (manager.py, delete_team).
THEOREM DeletedStaysSilent == Spec => []DeletedTeamIsSilent
<1>1. Init => DeletedTeamIsSilent
  BY DEF Init, DeletedTeamIsSilent
<1>2. MailInv /\ DeletedTeamIsSilent /\ [Next]_vars => DeletedTeamIsSilent'
  BY SilentStep
<1> QED
  BY <1>1, <1>2, MailInvariant, PTL DEF Spec

=============================================================================

----------------------------- MODULE SessionLog -----------------------------
(***************************************************************************)
(* How the chat (tui/app.py, _send_message) writes the conversation to the *)
(* session file, and what load_messages reads back from it after a restart.*)
(*                                                                         *)
(* Three cursors meet here: history_cursor, a local of the message being   *)
(* handled, _session_saved_count, which outlives it, and the position of   *)
(* the context messages, which are inserted at the head of the history     *)
(* after the first two have been taken.                                    *)
(***************************************************************************)
EXTENDS Integers, Sequences, SequencesExt

CONSTANTS
    HasMemory,        \* there are instructions or memories to inject
    StopsWhenCut,     \* runs are cancelled or break off after the history was cut
    Commands,         \* chat commands the user gives: "compact", "rewind", "new"
    StreamingCommands,  \* those of them the user also gives during a run
    MaxKeep,          \* messages a compaction keeps
    MaxMessages,      \* bound: messages made, context and summaries aside
    MaxRecords        \* bound: records in the file when /compact is given

ASSUME SessionAssumption ==
    /\ HasMemory \in BOOLEAN /\ StopsWhenCut \in BOOLEAN
    /\ Commands \subseteq {"compact", "rewind", "new"}
    /\ StreamingCommands \subseteq Commands
    /\ MaxKeep \in Nat \ {0} /\ MaxMessages \in Nat /\ MaxRecords \in Nat

VARIABLES
    history, envInjected, ltmInjected,    \* ConversationManager
    file,                                 \* records of the session's jsonl
    saved,                                \* _session_saved_count
    cursor,                               \* history_cursor
    pc,                                   \* where _send_message stands
    away,       \* the history of the run's conversation, once /session new has
                \* given the chat another one: <<>>, or a sequence of that
    cut,                                  \* the history was cut since saved was set
    made                                  \* messages made so far

conversation == <<history, envInjected, ltmInjected>>
vars == <<conversation, file, saved, cursor, pc, away, cut, made>>

\* Reminders are user messages that neither the user nor the model has written.
Spoken == {"user", "assistant", "call", "results"}
Role == Spoken \cup {"env", "ltm", "reminder", "summary"}
Message == [role : Role, id : 0..MaxMessages]

\* Messages of the context and summaries are not told apart.
Text(role) == [role |-> role, id |-> 0]
New(role) == [role |-> role, id |-> made + 1]
ResultsOfCall == [role |-> "results", id |-> made]

InTry == {"top", "reply", "tools", "results", "answered"}
Phase == InTry \cup {"idle", "recall", "down"}

\* The conversation of the run is that of the chat, or the one it was given.
Ours == IF away = <<>> THEN history ELSE away[1]
Becomes(h) ==
    IF away = <<>> THEN history' = h /\ UNCHANGED away
    ELSE away' = <<h>> /\ UNCHANGED history

Init ==
    /\ history = <<>> /\ envInjected = FALSE /\ ltmInjected = FALSE
    /\ file = <<>>
    /\ saved = 0 /\ cursor = 0
    /\ pc = "idle" /\ away = <<>> /\ cut = FALSE
    /\ made = 0

-----------------------------------------------------------------------------
(* The file.                                                               *)

\* A record is a message, or a boundary: a summary and the tail kept with it.
Line(m) == [boundary |-> FALSE, messages |-> <<m>>]
Boundary(tail) == [boundary |-> TRUE, messages |-> <<Text("summary")>> \o tail]

Lines(ms) == [i \in DOMAIN ms |-> Line(ms[i])]

\* What a session loads: a boundary replaces everything before it.
LastBoundary(records) ==
    CHOOSE n \in 0..Len(records) :
        /\ n = 0 \/ records[n].boundary
        /\ \A i \in (n + 1)..Len(records) : ~records[i].boundary

Load(records) ==
    LET n == LastBoundary(records)
    IN (IF n = 0 THEN <<>> ELSE records[n].messages)
         \o [i \in 1..(Len(records) - n) |-> records[n + i].messages[1]]

\* history[from:]
Unsaved(h, from) == SubSeq(h, from + 1, Len(h))

-----------------------------------------------------------------------------
(* One message handled by _send_message.                                   *)

WithReminder(h) ==
    {h} \cup (IF made < MaxMessages THEN {Append(h, New("reminder"))} ELSE {})

\* Both context messages, each unless it is there already.
Inject(h, env, ltm) ==
    LET head == (IF env THEN <<>> ELSE <<Text("env")>>)
        memories == IF ltm \/ ~HasMemory THEN <<>> ELSE <<Text("ltm")>>
    IN IF env /\ h # <<>> THEN <<h[1]>> \o memories \o Tail(h)
       ELSE head \o memories \o h

\* The prompt is written to the file at once; a reminder added with it is not.
PromptLinesForgotten == <<>>
PromptLines == Lines(<<New("user")>>)

Prompt ==
    /\ pc = "idle" /\ made < MaxMessages
    /\ history' = Append(history, New("user"))
    /\ file' = file \o PromptLines
    /\ saved' = saved + 1
    /\ made' = made + 1
    /\ pc' = "recall"
    /\ UNCHANGED <<envInjected, ltmInjected, cursor, away, cut>>

\* Recalled memories and server instructions are added, the cursor is taken,
\* and the run injects its context before it.
Start ==
    /\ pc = "recall"
    /\ \E h \in WithReminder(history) :
          /\ history' = Inject(h, envInjected, ltmInjected)
          /\ cursor' = Len(h)
          /\ made' = IF h = history THEN made ELSE made + 1
    /\ envInjected' = TRUE
    /\ ltmInjected' = (ltmInjected \/ HasMemory)
    /\ pc' = "top"
    /\ UNCHANGED <<file, saved, away, cut>>

\* The messages a compaction keeps, as many as the sizes ask for; a cut before
\* results moves to the call they follow.
KeptTails(h) ==
    LET aligned(i) == IF h[i].role = "results" /\ h[i - 1].role = "call"
                      THEN i - 1 ELSE i
        starts == {aligned(i) : i \in {j \in 2..Len(h) : Len(h) - j < MaxKeep}}
    IN {SubSeq(h, s, Len(h)) : s \in starts \ {1}}

\* A compaction in the run: the boundary is written and the cursor moved to the
\* end of the chat's history before the context is injected again.
CursorKept(shown) == cursor
CursorAfterCompaction(shown) == Len(shown)

Compact ==
    /\ pc = "top"
    /\ \E tail \in KeptTails(Ours) :
          LET rebuilt == <<Text("summary")>> \o tail
          IN /\ Becomes(Inject(rebuilt, FALSE, FALSE))
             /\ cursor' = CursorAfterCompaction(IF away = <<>> THEN rebuilt
                                                ELSE history)
             /\ file' = Append(file, Boundary(tail))
    /\ envInjected' = (envInjected \/ away = <<>>)
    /\ ltmInjected' = IF away = <<>> THEN HasMemory ELSE ltmInjected
    /\ pc' = "reply" /\ cut' = (cut \/ away = <<>>)
    /\ UNCHANGED <<saved, made>>

NoCompaction ==
    /\ pc = "top"
    /\ pc' = "reply"
    /\ UNCHANGED <<conversation, file, saved, away, cut, cursor, made>>

\* The model answers, asks for tools, or is cut off at its output limit.
Answer ==
    /\ pc = "reply" /\ made < MaxMessages
    /\ Becomes(Append(Ours, New("assistant")))
    /\ pc' = "answered"
    /\ made' = made + 1
    /\ UNCHANGED <<envInjected, ltmInjected, file, saved, cut, cursor>>

CallTools ==
    /\ pc = "reply" /\ made < MaxMessages
    /\ Becomes(Append(Ours, New("call")))
    /\ pc' = "tools"
    /\ made' = made + 1
    /\ UNCHANGED <<envInjected, ltmInjected, file, saved, cut, cursor>>

CutOff ==
    /\ pc = "reply" /\ made < MaxMessages
    /\ Becomes(Ours \o <<New("assistant"), Text("reminder")>>)
    /\ pc' = "top"
    /\ made' = made + 1
    /\ UNCHANGED <<envInjected, ltmInjected, file, saved, cut, cursor>>

\* The call is the message made last; a command may have removed it since.
AddResults ==
    /\ pc = "tools"
    /\ Becomes(Append(Ours, ResultsOfCall))
    /\ pc' = "results"
    /\ UNCHANGED <<envInjected, ltmInjected, file, saved, cut, cursor, made>>

\* TurnComplete and LoopComplete: everything behind the cursor is written, nothing
\* if a command has cut the chat's history in front of it.  The finally clause that
\* follows the last one finds nothing unsaved.
EndTurn ==
    /\ \/ pc = "results" /\ pc' \in {"top", "idle"}
       \/ pc = "answered" /\ pc' = "idle"
    /\ file' = file \o Lines(Unsaved(history, cursor))
    /\ saved' = Len(history) /\ cursor' = Len(history) /\ cut' = FALSE
    /\ away' = IF pc' = "idle" THEN <<>> ELSE away
    /\ UNCHANGED <<conversation, made>>

\* Cancelled while memories are recalled, before the try.
StopEarly ==
    /\ pc = "recall"
    /\ pc' = "idle"
    /\ UNCHANGED <<conversation, file, saved, away, cut, cursor, made>>

\* Cancelled, failed or broken off later: the finally clause.
StopWithoutFlush ==
    /\ pc \in InTry /\ (cut => StopsWhenCut)
    /\ pc' = "idle" /\ away' = <<>>
    /\ UNCHANGED <<conversation, file, saved, cut, cursor, made>>

Stop ==
    /\ pc \in InTry /\ (cut => StopsWhenCut)
    /\ file' = file \o Lines(Unsaved(history, saved))
    /\ saved' = Len(history) /\ cut' = FALSE
    /\ pc' = "idle" /\ away' = <<>>
    /\ UNCHANGED <<conversation, cursor, made>>

-----------------------------------------------------------------------------
(* The end of the process and the next one.                                *)

Forget ==
    /\ history' = <<>> /\ envInjected' = FALSE /\ ltmInjected' = FALSE
    /\ saved' = 0 /\ cut' = FALSE

Crash ==
    /\ pc # "down"
    /\ pc' = "down"
    /\ Forget /\ cursor' = 0 /\ away' = <<>>
    /\ UNCHANGED <<file, made>>

Exit ==
    /\ pc # "down"
    /\ file' = file \o Lines(Unsaved(history, saved))
    /\ pc' = "down"
    /\ Forget /\ cursor' = 0 /\ away' = <<>>
    /\ UNCHANGED made

\* _load_session in the next process.
Resume ==
    /\ pc = "down"
    /\ history' = Load(file)
    /\ saved' = Len(Load(file)) /\ cut' = FALSE
    /\ pc' = "idle"
    /\ UNCHANGED <<envInjected, ltmInjected, file, cursor, away, made>>

-----------------------------------------------------------------------------
(* Chat commands; none of them writes to the file.  They are dispatched during *)
(* a run as well, and act on the conversation the chat has.  The summary that  *)
(* /compact waits for is the subject of AgentLoop.                             *)

UserGives(command) ==
    \/ pc = "idle" /\ command \in Commands
    \/ pc \in InTry \cup {"recall"} /\ command \in StreamingCommands

CompactCommand ==
    /\ UserGives("compact") /\ Len(file) <= MaxRecords
    /\ \E tail \in KeptTails(history) :
          history' = Inject(<<Text("summary")>> \o tail, FALSE, FALSE)
    /\ envInjected' = TRUE /\ ltmInjected' = HasMemory
    /\ cut' = TRUE
    /\ UNCHANGED <<file, saved, cursor, pc, away, made>>

\* Messages from the assistant at the end go, and the user messages before them.
RewindCommand ==
    /\ UserGives("rewind") /\ history # <<>>
    /\ LET fromModel(i) == history[i].role \in {"assistant", "call"}
       IN \E n \in 0..Len(history) : \E m \in n..Len(history) :
             /\ \A i \in (m + 1)..Len(history) : fromModel(i)
             /\ m > 0 => ~fromModel(m)
             /\ \A i \in (n + 1)..m : ~fromModel(i)
             /\ n > 0 => fromModel(n)
             /\ history' = SubSeq(history, 1, n)
    /\ cut' = TRUE
    /\ UNCHANGED <<envInjected, ltmInjected, file, saved, cursor, pc, away, made>>

\* A new session has a file of its own.  A run goes on with the conversation and
\* the cursor it has.
NewCommand ==
    /\ UserGives("new")
    /\ file' = <<>>
    /\ Forget
    /\ IF pc \in InTry THEN away' = <<Ours>> /\ UNCHANGED cursor
       ELSE cursor' = 0 /\ UNCHANGED away
    /\ UNCHANGED <<pc, made>>

-----------------------------------------------------------------------------

Next ==
    \/ Prompt \/ Start \/ Compact \/ NoCompaction \/ Answer \/ CallTools \/ CutOff
    \/ AddResults \/ EndTurn \/ StopEarly \/ Stop
    \/ Crash \/ Exit \/ Resume
    \/ CompactCommand \/ RewindCommand \/ NewCommand

Spec == Init /\ [][Next]_vars

-----------------------------------------------------------------------------
(* Properties.                                                             *)

\* Every variable stays in its type: no boundary record is read as a message.
TypeOK ==
    /\ history \in Seq(Message)
    /\ envInjected \in BOOLEAN /\ ltmInjected \in BOOLEAN
    /\ file \in Seq([boundary : BOOLEAN, messages : Seq(Message)])
    /\ saved \in Nat /\ cursor \in Nat
    /\ pc \in Phase /\ cut \in BOOLEAN
    /\ away = <<>> \/ away \in [{1} -> Seq(Message)]
    /\ made \in 0..MaxMessages

Logged(m) == m \in Range(Load(file))
SpokenIn(ms) == {m \in Range(ms) : m.role \in Spoken}

\* Between runs everything the user and the model said in the conversation is
\* read back from the file, however the runs before ended, if commands wait for
\* the end of a run.  A command that shortens the history during one leaves the
\* cursor behind its end; what the run says then is never written.
SpokenIsLogged ==
    pc = "idle" => \A m \in SpokenIn(history) : Logged(m)

\* What stands before the cursor of a run is in the file already: a crash loses
\* at most what came after it.  This, too, if commands wait for the end of a run.
LoggedUpToCursor ==
    pc \in InTry =>
        \A i \in DOMAIN history \cap 1..cursor :
            history[i].role \in Spoken => Logged(history[i])

-----------------------------------------------------------------------------
(* What the documentation of the code says and the code does not keep: the   *)
(* README tells how each of these comes to be violated.                      *)

\* A message is in the file once.
LoggedOnce ==
    LET l == Load(file)
    IN \A i, j \in DOMAIN l :
          (l[i] = l[j] /\ l[i].role \in Spoken) => i = j

\* Tool results are read back right behind the call they answer.
ResumedResultsFollowCall ==
    LET l == Load(file)
    IN \A i \in DOMAIN l : l[i].role = "results" =>
          i > 1 /\ l[i - 1] = [role |-> "call", id |-> l[i].id]

=============================================================================

------------------------------ MODULE Headless ------------------------------
(***************************************************************************)
(* Headless runs: `xhx run`, with --continue and --resume, the JSON-RPC    *)
(* loop and the benchmarks drive Agent.run_to_completion; what a run       *)
(* leaves behind is its trace, its summary, its transcript and a line of   *)
(* the session index, and `xhx compact` and `xhx replay` work on those     *)
(* files.  Several processes share a workspace; each may be killed at any  *)
(* point.                                                                  *)
(***************************************************************************)
EXTENDS Conversation, FiniteSets

CONSTANTS
    Process,         \* the processes of the workspace
    Command,         \* what they are started for: "run", "rpc", "compact"
    MaxTurns,        \* max_iterations
    KeepRecent,      \* keep_recent of compact_messages
    CompactDies,     \* `xhx compact` may be killed too
    MaxRuns          \* bound: runs started

VARIABLES
    index,           \* .xhx/sessions/history.jsonl
    transcripts,     \* .xhx/sessions/<run>.json: <<>> is no file
    traces,          \* .xhx/traces/<run>.jsonl
    procs,           \* the processes
    ended,           \* history: what the history of a run was when it ended
    runs             \* runs so far; also the next run id

vars == <<index, transcripts, traces, procs, ended, runs>>

RunId == 1..MaxRuns

\* The states of a file that is replaced in place: open() has emptied it before
\* write() fills it.
Missing == <<>>
Torn == <<Text("torn")>>

Idle == [pc |-> "idle", run |-> 0, records |-> FALSE, history |-> <<>>,
         status |-> "none", turns |-> 0]

HeadlessInit ==
    /\ index = <<>>
    /\ transcripts = [r \in RunId |-> Missing]
    /\ traces = [r \in RunId |-> <<>>]
    /\ procs = [p \in Process |-> Idle]
    /\ ended = [r \in RunId |-> <<>>]
    /\ runs = 0

-----------------------------------------------------------------------------
(* Starting: what is restored from an earlier run.                         *)

\* load_latest_session, or load_session: the entry wanted and whatever of it is
\* there; "none" when nothing is asked for or nothing is recorded.
Previous == {0} \cup DOMAIN index

\* _restore_conversation: all of the transcript, or nothing; then the task
\* follows, behind the summary of the run when there is no transcript.  A torn
\* file is not JSON: the command dies.
Restored(i) ==
    IF i = 0 \/ ~index[i].transcript THEN <<>>
    ELSE transcripts[index[i].run]

\* The result is back at the caller: `xhx run` records it, the JSON-RPC loop and
\* the benchmarks only answer with it.
Returned(me) == IF me.records THEN [me EXCEPT !.pc = "record"] ELSE Idle

\* run_headless_task_async up to the loop.  A configuration that does not load
\* ends the run before it has a trace or messages.
StartRun(p, command, i) ==
    /\ procs[p].pc = "idle" /\ runs < MaxRuns
    /\ command \in Command \cap {"run", "rpc"}
    /\ command = "rpc" => i = 0
    /\ i \in Previous
    /\ Restored(i) # Torn
    /\ runs' = runs + 1
    /\ LET restored == Restored(i)
           history == (IF restored = <<>> THEN <<Text("env")>> ELSE restored)
                          \o <<Text("user")>>
           started == [pc |-> "loop", run |-> runs + 1, records |-> command = "run",
                       history |-> history, status |-> "none", turns |-> 0]
       IN \/ /\ procs' = [procs EXCEPT ![p] = started]
             /\ traces' = [traces EXCEPT ![runs + 1] = <<[type |-> "run_start"]>>]
          \/ /\ procs' = [procs EXCEPT ![p] =
                    [started EXCEPT !.pc = "record", !.status = "error",
                                    !.history = <<>>]]
             /\ UNCHANGED traces
    /\ UNCHANGED <<index, transcripts, ended>>

-----------------------------------------------------------------------------
(* The loop, as far as the files show it.                                  *)

ModelTurn(n, final) == [type |-> "model_turn", turn |-> n, final |-> final]

ToolCall(n) == [type |-> "tool_call", turn |-> n]

RunEnd(status) == [type |-> "run_end", status |-> status]

\* What an iteration writes to the trace.
TurnTraceOfTools(n, final) ==
    IF final THEN <<>> ELSE <<ModelTurn(n, FALSE), ToolCall(n)>>

TurnTrace(n, final) ==
    IF final THEN <<ModelTurn(n, TRUE)>> ELSE <<ModelTurn(n, FALSE), ToolCall(n)>>

Turn(p, final, calls) ==
    LET me == procs[p]
        n == me.turns + 1
    IN /\ me.pc = "loop" /\ n <= MaxTurns
       /\ procs' = [procs EXCEPT ![p] =
              [me EXCEPT
                  !.turns = n,
                  !.pc = IF final \/ n = MaxTurns THEN "finish" ELSE "loop",
                  !.history = @ \o IF final THEN <<Text("assistant")>>
                                   ELSE <<CallMsg(calls), ResultsMsg(calls)>>]]
       /\ traces' = [traces EXCEPT ![me.run] = @ \o TurnTrace(n, final)]
       /\ UNCHANGED <<index, transcripts, ended, runs>>

\* The loop is over, by an answer or by running out of iterations: "completed"
\* either way.  An exception of the model is an "error", and its result carries
\* no number of turns.
Finish(p, status) ==
    LET me == procs[p]
    IN /\ \/ me.pc = "finish" /\ status = "completed"
          \/ me.pc = "loop" /\ status = "error"
       /\ traces' = [traces EXCEPT ![me.run] = Append(@, RunEnd(status))]
       /\ ended' = [ended EXCEPT ![me.run] = me.history]
       /\ procs' = [procs EXCEPT ![p] =
              Returned([me EXCEPT !.status = status,
                                  !.turns = IF status = "completed" THEN @ ELSE 0])]
       /\ UNCHANGED <<index, transcripts, runs>>

-----------------------------------------------------------------------------
(* _record_run_session: the transcript, then the line of the index.        *)

SaveTranscript(p) ==
    LET me == procs[p]
    IN /\ me.pc = "record" /\ me.history # <<>>
       /\ transcripts' = [transcripts EXCEPT ![me.run] = Torn]
       /\ procs' = [procs EXCEPT ![p] = [me EXCEPT !.pc = "filling"]]
       /\ UNCHANGED <<index, traces, ended, runs>>

FillTranscript(p) ==
    LET me == procs[p]
    IN /\ me.pc = "filling"
       /\ transcripts' = [transcripts EXCEPT ![me.run] = me.history]
       /\ procs' = [procs EXCEPT ![p] = [me EXCEPT !.pc = "index"]]
       /\ UNCHANGED <<index, traces, ended, runs>>

\* A result without messages has no transcript.
IndexedEarly(me) == me.pc \in {"record", "index"}

IndexedAt(me) == me.pc = IF me.history = <<>> THEN "record" ELSE "index"

AppendIndex(p) ==
    LET me == procs[p]
    IN /\ IndexedAt(me)
       /\ index' = Append(index, [run |-> me.run, status |-> me.status,
                                  turns |-> me.turns,
                                  transcript |-> me.history # <<>>])
       /\ procs' = [procs EXCEPT ![p] = Idle]
       /\ UNCHANGED <<transcripts, traces, ended, runs>>

-----------------------------------------------------------------------------
(* `xhx compact`: compact_messages on the transcript of the latest session. *)

\* The records of a transcript carry tool_uses and tool_results; the cut is moved
\* off messages with the role "tool" and past calls under "tool_calls", and meets
\* neither.  How many messages the token estimate keeps beyond KeepRecent is open.
Cuts(h) == 1..(Len(h) - KeepRecent)

Compacted(h, cut) == <<Text("user")>> \o SubSeq(h, cut + 1, Len(h))

StartCompact(p) ==
    /\ procs[p].pc = "idle" /\ "compact" \in Command
    /\ index # <<>>
    /\ LET last == index[Len(index)]
       IN /\ last.transcript /\ transcripts[last.run] # Torn
          /\ \E cut \in Cuts(transcripts[last.run]) :
                 /\ cut > 1
                 /\ procs' = [procs EXCEPT ![p] =
                        [Idle EXCEPT !.pc = "compact", !.run = last.run,
                             !.history = Compacted(transcripts[last.run], cut)]]
    /\ UNCHANGED <<index, transcripts, traces, ended, runs>>

\* The summary has been made; the file is replaced.
ReplaceTranscript(p) ==
    LET me == procs[p]
    IN /\ me.pc \in {"compact", "replacing"}
       /\ transcripts' = [transcripts EXCEPT ![me.run] =
                              IF me.pc = "compact" THEN Torn ELSE me.history]
       /\ procs' = [procs EXCEPT ![p] =
                        IF me.pc = "compact" THEN [me EXCEPT !.pc = "replacing"]
                        ELSE Idle]
       /\ UNCHANGED <<index, traces, ended, runs>>

\* Killed, or interrupted: KeyboardInterrupt is no Exception, nothing but the
\* connections to the servers is cleaned up.
Kill(p) ==
    /\ procs[p].pc # "idle"
    /\ procs[p].pc \in {"compact", "replacing"} => CompactDies
    /\ procs' = [procs EXCEPT ![p] = Idle]
    /\ UNCHANGED <<index, transcripts, traces, ended, runs>>

HeadlessNext ==
    \E p \in Process :
        \/ \E command \in Command, i \in Previous : StartRun(p, command, i)
        \/ \E final \in BOOLEAN : \E calls \in SUBSET CallId :
               /\ final <=> calls = {}
               /\ Turn(p, final, calls)
        \/ \E status \in {"completed", "error"} : Finish(p, status)
        \/ SaveTranscript(p) \/ FillTranscript(p) \/ AppendIndex(p)
        \/ StartCompact(p) \/ ReplaceTranscript(p)
        \/ Kill(p)

HeadlessSpec == HeadlessInit /\ [][HeadlessNext]_vars

-----------------------------------------------------------------------------
(* `xhx replay`: what TrailReplayer makes of a trace.                      *)

Replay(trace) ==
    LET ends == {i \in DOMAIN trace : trace[i].type = "run_end"}
        turns == {trace[i].turn : i \in {j \in DOMAIN trace :
                                            trace[j].type = "model_turn"}}
    IN [status |-> IF ends = {} THEN "success"
                   ELSE trace[CHOOSE i \in ends : TRUE].status,
        turns |-> IF turns = {} THEN 0
                  ELSE CHOOSE n \in turns : \A k \in turns : k <= n]

-----------------------------------------------------------------------------
(* Properties.                                                             *)

Entries == {index[i] : i \in DOMAIN index}

\* A line of the index never promises more than is there: whenever processes
\* die, and whoever else writes, the transcript it names is the whole history the
\* run ended with, or a compaction of it, which may be just being written
\* (session.py:133 and main.py:164 write the files before the line).
IndexedIsResumable ==
    \A e \in Entries : e.transcript =>
        \/ transcripts[e.run] = ended[e.run]
        \/ \E cut \in Cuts(ended[e.run]) :
               transcripts[e.run] = Compacted(ended[e.run], cut)
        \/ \E p \in Process : procs[p].run = e.run /\ procs[p].pc = "replacing"

\* A run recorded as completed replays as that, with the turns of its record
\* (headless.py:250: the same number from the same source).
IndexAgreesWithTrace ==
    \A e \in Entries : e.status = "completed" =>
        Replay(traces[e.run]) = [status |-> e.status, turns |-> e.turns]

\* What --continue restores answers every tool call and no other
\* (compaction.py:3: compacting never breaks the validity of the messages).
TranscriptsKeepPairs ==
    \A e \in Entries : e.transcript => Paired(transcripts[e.run])

\* A run that was cut short does not replay as a success (replay.py:28: what
\* cannot be replayed must not mislead as a success).
ReplayTellsOutcome ==
    \A r \in RunId : traces[r] # <<>> => Replay(traces[r]).status # "success"

=============================================================================

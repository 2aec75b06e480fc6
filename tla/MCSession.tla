------------------------------ MODULE MCSession ------------------------------
(***************************************************************************)
(* What is written to files and read back, for TLC: the session file of    *)
(* the chat, the index, transcripts and traces of runs from the command    *)
(* line, and the task board of a team.  They are different files, written  *)
(* by different code: a behaviour is one of the three and the others stand *)
(* still.                                                                  *)
(***************************************************************************)
EXTENDS SessionLog, SharedTasks

CONSTANTS CallId, Process, Command, MaxTurns, KeepRecent, CompactDies, MaxRuns

ASSUME HeadlessAssumption == MaxTurns \in Nat /\ KeepRecent \in Nat /\ MaxRuns \in Nat

VARIABLES
    part,          \* which of the three models takes its steps
    index, transcripts, traces, procs, ended, runs

headlessVars == <<index, transcripts, traces, procs, ended, runs>>

H == INSTANCE Headless

MCInit ==
    part \in {"chat", "headless", "tasks"} /\ Init /\ H!HeadlessInit /\ SharedInit

MCNext ==
    \/ part = "chat" /\ Next /\ UNCHANGED <<part, headlessVars, sharedVars>>
    \/ part = "headless" /\ H!HeadlessNext /\ UNCHANGED <<part, vars, sharedVars>>
    \/ part = "tasks" /\ SharedNext /\ UNCHANGED <<part, vars, headlessVars>>

MCSpec == MCInit /\ [][MCNext]_<<part, vars, headlessVars, sharedVars>>

\* A run that `xhx sessions` lists can be resumed with all it said (see Headless).
IndexedIsResumable == H!IndexedIsResumable

\* The index, the trace and the transcript of a run agree (see Headless).
IndexAgreesWithTrace == H!IndexAgreesWithTrace

\* What --continue restores answers every tool call and no other (see Headless).
TranscriptsKeepPairs == H!TranscriptsKeepPairs

=============================================================================

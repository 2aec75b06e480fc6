----------------------------- MODULE MCAgentLoop -----------------------------
(***************************************************************************)
(* AgentLoop for TLC: a behaviour is of the loop of the chat or, where     *)
(* Loops has "agent", of run_to_completion, the loop of sub-agents and     *)
(* headless runs, which keeps fewer messages.  A history variable tells    *)
(* whether the user has given /rewind, which may also remove the context   *)
(* messages while the flags that say they are there stay set.              *)
(***************************************************************************)
EXTENDS AgentLoop

CONSTANT Loops    \* "chat" and "agent"

VARIABLES part, rewound

Sub == INSTANCE AgentLoop WITH
           Interactive <- FALSE, VerificationGate <- FALSE, IdleCommands <- {},
           MinKeepMessages <- 1

MCInit == part \in Loops /\ Init /\ rewound = FALSE

MCNext ==
    \/ part = "chat" /\ Next /\ rewound' = (rewound \/ Rewind) /\ UNCHANGED part
    \/ part = "agent" /\ Sub!Next /\ UNCHANGED <<part, rewound>>

MCFairness ==
    /\ WF_vars(part = "chat" /\ LoopStep)
    /\ WF_vars(part = "agent" /\ Sub!LoopStep)
    /\ \A c \in Caller :
          /\ WF_vars(part = "chat" /\ (SummaryFails(c) \/ SummaryDone(c)))
          /\ WF_vars(part = "agent" /\ (Sub!SummaryFails(c) \/ Sub!SummaryDone(c)))

MCSpec == MCInit /\ [][MCNext]_<<part, vars, rewound>> /\ MCFairness

\* Every request starts with the environment, in the interactive loop followed by
\* the instructions and memories when there are some, also after compactions, as
\* long as nothing was rewound.
ContextSent ==
    pc = "streaming" /\ ~rewound =>
        /\ request # <<>> /\ request[1] = Text("env")
        /\ part = "chat" /\ HasMemory => Len(request) > 1 /\ request[2] = Text("ltm")

=============================================================================

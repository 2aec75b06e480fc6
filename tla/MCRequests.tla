----------------------------- MODULE MCRequests ------------------------------
(***************************************************************************)
(* What a request to a model carries and how its answer is taken, for TLC: *)
(* the tool results within their budget, the facts that are remembered and *)
(* recalled, and the clients with one of each protocol.  A behaviour is    *)
(* one of the three and the others stand still.  A long result fills a     *)
(* message, next to another one it is too much; one record of the memory   *)
(* names a file, and the project map leaves room for it.                   *)
(***************************************************************************)
EXTENDS ResultBudget

CONSTANTS
    Process, Fact, UserFacts, ScanTokens, Budget, Interval, Gap, MaxTalk, MaxClears,
    Chain, MaxReplyCalls, MaxRequests, MaxRecoveries

VARIABLES
    part,          \* which of the three models takes its steps
    project, recordFiles, chat, clears,
    step, at, reply, wire, slots, locked, resp, escalated, recoveries, requests

memoryVars == <<project, recordFiles, chat, clears>>
clientVars == <<step, at, reply, wire, slots, locked, resp, escalated, recoveries, requests>>

Results == [a \in {"main", "fork"} |-> IF a = "main" THEN 2 ELSE 0]

Lengths ==
    [f \in Form |-> CASE f = "huge" -> 9 [] f = "long" -> 4
                      [] OTHER -> 1]

Records == {[name |-> 1, strong |-> {"w"}, weak |-> {}, names |-> {"src/x.py"}, tokens |-> 1]}

ChainOfThree == <<"openai-compat", "anthropic", "openai">>
ChainOfResponses == <<"openai", "anthropic">>

M == INSTANCE Memory WITH
         Tasks <- {{"w"}, {}}, MaxMessages <- MaxTalk, files <- recordFiles,
         OtherItems <- {[kind |-> "project_map", source |-> 1, tokens |-> 1]}
C == INSTANCE Clients WITH phase <- step, MaxCalls <- MaxReplyCalls

MCInit ==
    part \in {"budget", "memory", "clients"} /\ Init /\ M!MemoryInit /\ C!Init

MCNext ==
    \/ part = "budget" /\ Next /\ UNCHANGED <<part, memoryVars, clientVars>>
    \/ part = "memory" /\ M!MemoryNext /\ UNCHANGED <<part, vars, clientVars>>
    \/ part = "clients" /\ C!Next /\ UNCHANGED <<part, vars, memoryVars>>

MCSpec == MCInit /\ [][MCNext]_<<part, vars, memoryVars, clientVars>>

\* A fact that was extracted stays in the file (see Memory).
FactsSurvive == M!FactsSurvive

\* The loop acts on what one client said, as it was written (see Clients).
TakenAsWritten == C!TakenAsWritten

\* A provider that fails is not taken for an answer (see Clients).
FailuresFallBack == C!FailuresFallBack

=============================================================================

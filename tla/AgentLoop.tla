------------------------------ MODULE AgentLoop ------------------------------
(***************************************************************************)
(* The agent loop of agents/agent_runner.py over one conversation, with    *)
(* auto_compact of context/manager.py and the two chat commands that edit  *)
(* the same history, /compact and /rewind.                                 *)
(*                                                                         *)
(* pc is where the coroutine of the run stands; every value but "idle" is  *)
(* an await or a yield, where the task can be cancelled and where other    *)
(* coroutines run.  Interactive selects Agent.run; otherwise it is         *)
(* Agent.run_to_completion, the loop of sub-agents and headless runs.      *)
(***************************************************************************)
EXTENDS Conversation, FiniteSets

CONSTANTS
    Interactive,             \* run (TRUE) or run_to_completion (FALSE)
    HasMemory,               \* there are instructions or memories to inject
    VerificationGate,        \* verification_gate is on
    IdleCommands,            \* chat commands the user gives between runs
    StreamingCommands,       \* chat commands the user gives during a run
    MaxIterations,           \* max_iterations
    MinKeepMessages,         \* MIN_KEEP_MESSAGES
    UnknownLimit,            \* consecutive unknown tool calls that end a run
    MaxRecoveries,           \* MAX_OUTPUT_TOKENS_RECOVERIES
    MaxRepairs,              \* MAX_REPAIR_ATTEMPTS
    MaxFailures,             \* CompactCircuitBreaker.max_failures
    MaxPrompts,              \* bound: prompts submitted
    MaxCalls,                \* bound: tool calls in one response
    MaxLen                   \* bound: messages before optional ones are added

ASSUME LoopAssumption ==
    /\ Interactive \in BOOLEAN /\ HasMemory \in BOOLEAN
    /\ VerificationGate \in BOOLEAN
    /\ IdleCommands \cup StreamingCommands \subseteq {"compact", "rewind"}
    /\ MaxIterations \in Nat \ {0} /\ MinKeepMessages \in Nat \ {0}
    /\ UnknownLimit \in Nat \ {0} /\ MaxFailures \in Nat \ {0}
    /\ MaxRecoveries \in Nat /\ MaxRepairs \in Nat
    /\ MaxPrompts \in Nat /\ MaxCalls \in Nat /\ MaxLen \in Nat

VARIABLES
    history, envInjected, ltmInjected,      \* ConversationManager
    pc, iteration, unknown, escalated, recoveries,
    toolCalls, answered,                    \* the response being executed
    changed, verified, repairs,             \* verification gate
    failures,                               \* CompactCircuitBreaker
    compaction,                             \* auto_compact calls in progress
    request,                                \* history of the request in flight
    prompts

conversation == <<history, envInjected, ltmInjected>>
counters == <<iteration, unknown, escalated, recoveries>>
response == <<toolCalls, answered>>
gate == <<changed, verified, repairs>>
vars == <<conversation, pc, counters, response, gate, failures, compaction,
          request, prompts>>

\* Who calls auto_compact: the run, at the top of an iteration, or /compact.
Caller == {"run", "command"}

NoCompaction == [attempts |-> 0, prompt |-> <<>>, tail |-> <<>>]

Phase == {"idle", "starting", "top", "summarising", "compacted", "send",
          "streaming", "tools", "gate"}

Init ==
    /\ history = <<>> /\ envInjected = FALSE /\ ltmInjected = FALSE
    /\ pc = "idle"
    /\ iteration = 0 /\ unknown = 0 /\ escalated = FALSE /\ recoveries = 0
    /\ toolCalls = {} /\ answered = {}
    /\ changed = "none" /\ verified = FALSE /\ repairs = 0
    /\ failures = 0
    /\ compaction = [c \in Caller |-> NoCompaction]
    /\ request = <<>>
    /\ prompts = 0

Compacting(c) == compaction[c].attempts > 0

\* Messages the environment may or may not add at a point of the loop: mailbox
\* messages, notifications, hook prompts, plan and deferred-tool reminders.
WithOptionalReminder(h) ==
    {h} \cup (IF Len(h) < MaxLen THEN {Append(h, Text("user"))} ELSE {})

-----------------------------------------------------------------------------
(* Starting and ending a run.                                              *)

\* The prompt enters the history before run() is entered.
\* The message pump of the chat handles one message at a time: it is busy until
\* /compact has returned.
AcceptsPromptDuringCompact == pc = "idle"
AcceptsPrompt == pc = "idle" /\ ~Compacting("command")

Submit ==
    /\ AcceptsPrompt
    /\ prompts < MaxPrompts
    /\ prompts' = prompts + 1
    /\ history' \in WithOptionalReminder(Append(history, Text("user")))
    /\ pc' = "starting"
    /\ UNCHANGED <<envInjected, ltmInjected, counters, response, gate, failures,
                   compaction, request>>

\* run injects what is missing every time; run_to_completion only into a
\* conversation of its own, which is the one without an environment.
LoadsMemory == HasMemory /\ (Interactive \/ ~envInjected)

Begin ==
    /\ pc = "starting"
    /\ LET h == InjectEnv(history, envInjected)
       IN history' \in WithOptionalReminder(
              InjectLtm(h, TRUE, ltmInjected, LoadsMemory))
    /\ envInjected' = TRUE
    /\ ltmInjected' = (ltmInjected \/ LoadsMemory)
    /\ iteration' = 0 /\ unknown' = 0 /\ escalated' = FALSE /\ recoveries' = 0
    /\ pc' = "top"
    /\ UNCHANGED <<response, gate, failures, compaction, request, prompts>>

\* Locals of the coroutine are gone once it has ended.
EndRun ==
    /\ pc' = "idle"
    /\ iteration' = 0 /\ unknown' = 0 /\ escalated' = FALSE /\ recoveries' = 0
    /\ toolCalls' = {} /\ answered' = {}
    /\ request' = <<>>
    /\ compaction' = [compaction EXCEPT !["run"] = NoCompaction]

\* The task is cancelled at an await, or the client raises.
Abort ==
    /\ pc # "idle"
    /\ EndRun
    /\ UNCHANGED <<conversation, gate, failures, prompts>>

-----------------------------------------------------------------------------
(* auto_compact.                                                           *)

\* The prefix is copied into a conversation of its own and the tail is
\* remembered, before the summary is awaited.
StartCompaction(c, h) ==
    \E s \in KeepStarts(h, MinKeepMessages) :
        /\ s > 1
        /\ compaction' = [compaction EXCEPT ![c] =
              [attempts |-> 1,
               prompt   |-> SubSeq(h, 1, s - 1),
               tail     |-> KeptTail(h, s)]]

SummaryTooLong(c) ==
    /\ compaction[c].attempts \in 1..2
    /\ \E rest \in WithoutOldestGroup(compaction[c].prompt) :
          compaction' = [compaction EXCEPT ![c].attempts = @ + 1,
                                           ![c].prompt = rest]
    /\ UNCHANGED <<conversation, pc, counters, response, gate, failures,
                   request, prompts>>

\* Any other error, or the third request that is too long.
SummaryFails(c) ==
    /\ Compacting(c)
    /\ failures' = IF failures < MaxFailures THEN failures + 1 ELSE failures
    /\ compaction' = [compaction EXCEPT ![c] = NoCompaction]
    /\ pc' = IF c = "run" THEN "send" ELSE pc
    /\ UNCHANGED <<conversation, counters, response, gate, request, prompts>>

\* The history becomes the summary and the remembered tail.  run yields the
\* notification before it injects the context again; the others do not.
SummaryDone(c) ==
    /\ Compacting(c)
    /\ LET rebuilt == <<Text("user")>> \o compaction[c].tail
           withEnv == InjectEnv(rebuilt, FALSE)
           deferred == c = "run" /\ Interactive
           withLtm == c = "command" /\ HasMemory
       IN /\ history' = IF deferred THEN rebuilt
                        ELSE InjectLtm(withEnv, TRUE, FALSE, withLtm)
          /\ envInjected' = ~deferred
          /\ ltmInjected' = withLtm
          /\ pc' = IF c = "command" THEN pc
                   ELSE IF deferred THEN "compacted" ELSE "send"
    /\ failures' = 0
    /\ compaction' = [compaction EXCEPT ![c] = NoCompaction]
    /\ UNCHANGED <<counters, response, gate, request, prompts>>

Reinject ==
    /\ pc = "compacted"
    /\ LET h == InjectEnv(history, envInjected)
       IN history' = InjectLtm(h, TRUE, ltmInjected, HasMemory)
    /\ envInjected' = TRUE
    /\ ltmInjected' = (ltmInjected \/ HasMemory)
    /\ pc' = "send"
    /\ UNCHANGED <<counters, response, gate, failures, compaction, request,
                   prompts>>

-----------------------------------------------------------------------------
(* One iteration.                                                          *)

NextIterationForgotten == iteration
NextIteration == iteration + 1

PastLimitOffByOne == NextIteration > MaxIterations + 1
PastLimit == NextIteration > MaxIterations

IterationLimit ==
    /\ pc = "top" /\ PastLimit
    /\ EndRun
    /\ UNCHANGED <<conversation, gate, failures, prompts>>

\* Below the threshold, with the breaker open, or with nothing worth
\* summarising, the request is sent as it is.
TurnTop ==
    /\ pc = "top" /\ ~PastLimit
    /\ iteration' = NextIteration
    /\ \E h \in WithOptionalReminder(history) :
          /\ history' = h
          /\ \/ pc' = "send" /\ UNCHANGED compaction
             \/ /\ failures < MaxFailures
                /\ StartCompaction("run", h)
                /\ pc' = "summarising"
    /\ UNCHANGED <<envInjected, ltmInjected, unknown, escalated, recoveries,
                   response, gate, failures, request, prompts>>

Send ==
    /\ pc = "send"
    /\ history' \in WithOptionalReminder(history)
    /\ request' = FilterUnresolved(history')
    /\ pc' = "streaming"
    /\ UNCHANGED <<envInjected, ltmInjected, counters, response, gate, failures,
                   compaction, prompts>>

\* stop_reason max_tokens: tool calls of the response are discarded.  The first
\* time the limit is raised, and the text is kept only if there is some.
OutputLimit ==
    /\ pc = "streaming" /\ Interactive
    /\ \/ /\ ~escalated
          /\ escalated' = TRUE
          /\ \/ history' = history \o <<Text("assistant"), Text("user")>>
             \/ UNCHANGED history
          /\ UNCHANGED recoveries
       \/ /\ escalated /\ recoveries < MaxRecoveries
          /\ recoveries' = recoveries + 1
          /\ history' = history \o <<Text("assistant"), Text("user")>>
          /\ UNCHANGED escalated
    /\ pc' = "top" /\ request' = <<>>
    /\ UNCHANGED <<envInjected, ltmInjected, iteration, unknown, response, gate,
                   failures, compaction, prompts>>

\* A response cut by the limit once the recoveries are spent keeps the count;
\* every other response resets it.
RecoveriesAfterResponse ==
    {0} \cup (IF escalated /\ recoveries = MaxRecoveries THEN {recoveries} ELSE {})

NeedsVerification ==
    Interactive /\ VerificationGate /\ changed # "none" /\ ~verified

FinalAnswer ==
    /\ pc = "streaming"
    /\ history' = Append(history, Text("assistant"))
    /\ IF NeedsVerification
       THEN /\ pc' = "gate" /\ request' = <<>>
            /\ recoveries' \in RecoveriesAfterResponse
            /\ UNCHANGED <<iteration, unknown, escalated, response, compaction>>
       ELSE EndRun
    /\ UNCHANGED <<envInjected, ltmInjected, gate, failures, prompts>>

\* The model never repeats an id; one that nothing refers to any more stands for
\* a new one.
FreshIds ==
    LET idsOf(h) == UNION {h[i].ids : i \in DOMAIN h}
    IN CallId \ (idsOf(history) \cup toolCalls
                 \cup UNION {idsOf(compaction[c].tail) : c \in Caller})

ToolResponse ==
    /\ pc = "streaming"
    /\ \E ids \in SUBSET FreshIds :
          /\ ids # {} /\ Cardinality(ids) <= MaxCalls
          /\ history' = Append(history, CallMsg(ids))
          /\ toolCalls' = ids
    /\ answered' = {}
    /\ recoveries' \in RecoveriesAfterResponse
    /\ pc' = "tools" /\ request' = <<>>
    /\ UNCHANGED <<envInjected, ltmInjected, iteration, unknown, escalated, gate,
                   failures, compaction, prompts>>

\* One call is answered: by the tool, a denial, a hook or a validation error,
\* or because no such tool is registered.  A write that succeeds is recorded.
ExecuteCall ==
    /\ pc = "tools"
    /\ \E id \in toolCalls \ answered : answered' = answered \cup {id}
    /\ \/ /\ unknown' = unknown + 1
          /\ UNCHANGED changed
       \/ /\ unknown' = 0
          /\ changed' \in {changed, "unverified"}
    /\ UNCHANGED <<conversation, pc, iteration, escalated, recoveries, toolCalls,
                   verified, repairs, failures, compaction, request, prompts>>

\* Too many unknown tools in a row end the run before the results are added.
TooManyUnknown ==
    /\ pc = "tools" /\ answered = toolCalls
    /\ Interactive /\ unknown >= UnknownLimit
    /\ EndRun
    /\ UNCHANGED <<conversation, gate, failures, prompts>>

AddResults ==
    /\ pc = "tools" /\ answered = toolCalls
    /\ ~(Interactive /\ unknown >= UnknownLimit)
    /\ history' = Append(history, ResultsMsg(toolCalls))
    /\ \/ /\ pc' = "top"
          /\ toolCalls' = {} /\ answered' = {}
          /\ UNCHANGED <<counters, request, compaction>>
       \/ Interactive /\ EndRun      \* an exit-plan tool was called
    /\ UNCHANGED <<envInjected, ltmInjected, gate, failures, prompts>>

GatePasses ==
    /\ pc = "gate"
    /\ verified' = TRUE /\ changed' = "verified"
    /\ EndRun
    /\ UNCHANGED <<conversation, repairs, failures, prompts>>

\* A failed verification is handed to the model to repair, a limited number of
\* times in the life of the agent; then the run completes as it is.
GateFails ==
    /\ pc = "gate"
    /\ repairs' = IF repairs < MaxRepairs THEN repairs + 1 ELSE repairs
    /\ IF repairs < MaxRepairs
       THEN /\ history' = Append(history, Text("user"))
            /\ pc' = "top"
            /\ UNCHANGED <<verified, counters, response, request, compaction>>
       ELSE /\ verified' = TRUE
            /\ EndRun
            /\ UNCHANGED history
    /\ UNCHANGED <<envInjected, ltmInjected, changed, failures, prompts>>

-----------------------------------------------------------------------------
(* Chat commands on the same history.                                      *)

CommandAllowed(command) ==
    /\ Interactive
    /\ ~Compacting("command")
    /\ command \in IF pc = "idle" THEN IdleCommands ELSE StreamingCommands

CompactCommand ==
    /\ CommandAllowed("compact")
    /\ StartCompaction("command", history)
    /\ UNCHANGED <<conversation, pc, counters, response, gate, failures,
                   request, prompts>>

\* /rewind 1 pops the trailing assistant messages and then the user ones before
\* them: n messages are left, the turn is what lies between n and m, and m is
\* where its user messages end.
RewindsTo(h, n) ==
    LET fromUser(i) == h[i].role \notin {"assistant", "call"}
    IN \E m \in n..Len(h) :
          /\ \A i \in (m + 1)..Len(h) : ~fromUser(i)
          /\ m > 0 => fromUser(m)
          /\ \A i \in (n + 1)..m : fromUser(i)
          /\ n > 0 => ~fromUser(n)

Rewind ==
    /\ CommandAllowed("rewind")
    /\ \E n \in 0..Len(history) :
          RewindsTo(history, n) /\ history' = SubSeq(history, 1, n)
    /\ UNCHANGED <<envInjected, ltmInjected, pc, counters, response, gate,
                   failures, compaction, request, prompts>>

-----------------------------------------------------------------------------

Compaction ==
    \E c \in Caller : SummaryTooLong(c) \/ SummaryFails(c) \/ SummaryDone(c)

LoopStep ==
    \/ Begin \/ IterationLimit \/ TurnTop \/ Reinject \/ Send
    \/ OutputLimit \/ FinalAnswer \/ ToolResponse
    \/ ExecuteCall \/ TooManyUnknown \/ AddResults
    \/ GatePasses \/ GateFails

Next ==
    Submit \/ LoopStep \/ Compaction \/ Abort \/ CompactCommand \/ Rewind

Spec == Init /\ [][Next]_vars

\* The event loop keeps running the task, the client and the tools return, and
\* every awaited summary ends.  Users and cancellation owe nothing.
Fairness ==
    /\ WF_vars(LoopStep)
    /\ \A c \in Caller : WF_vars(SummaryFails(c) \/ SummaryDone(c))

FairSpec == Spec /\ Fairness

-----------------------------------------------------------------------------
(* Properties.                                                             *)

\* Every variable stays in its type; the run never starts more than
\* MaxIterations iterations and the breaker never counts past its limit.
TypeOK ==
    /\ history \in Seq(Message)
    /\ envInjected \in BOOLEAN /\ ltmInjected \in BOOLEAN
    /\ escalated \in BOOLEAN /\ verified \in BOOLEAN
    /\ pc \in Phase
    /\ iteration \in 0..MaxIterations
    /\ unknown \in Nat
    /\ recoveries \in 0..MaxRecoveries
    /\ answered \subseteq toolCalls /\ toolCalls \subseteq CallId
    /\ changed \in {"none", "unverified", "verified"}
    /\ repairs \in 0..MaxRepairs
    /\ failures \in 0..MaxFailures
    /\ compaction \in [Caller -> [attempts : 0..3, prompt : Seq(Message),
                                   tail : Seq(Message)]]
    /\ prompts \in 0..MaxPrompts

\* A tool-results message always stands right behind the assistant message
\* that made exactly those calls, through compaction, context injection,
\* cancellation and /rewind.
ResultsFollowCall == Paired(history)

\* Every request sent to the model is one a provider accepts, although runs
\* end between a call and its results (cancellation, too many unknown tools); so
\* is every request for a summary, also after its oldest turns are dropped.
RequestsWellFormed ==
    /\ WellFormedRequest(request)
    /\ \A c \in Caller : WellFormedRequest(FilterUnresolved(compaction[c].prompt))

\* The tail a compaction will put back is still the end of the history when
\* the summary arrives: no message added during the await is lost.
KeptTailIsCurrent ==
    \A c \in Caller : Compacting(c) =>
        LET tail == compaction[c].tail
        IN /\ Len(tail) <= Len(history)
           /\ KeptTail(history, Len(history) - Len(tail) + 1) = tail

\* Every run comes to an end, whatever the model answers.
EveryRunEnds == pc # "idle" ~> pc = "idle"

-----------------------------------------------------------------------------
(* What the documentation of the code says and the code does not keep: the   *)
(* README tells how each of these comes to be violated.                      *)

\* A tool result never stands in the history without its call before it.
NoOrphanResult ==
    \A i \in DOMAIN history : history[i].role = "results" =>
        \E j \in 1..(i - 1) : history[j] = CallMsg(history[i].ids)

\* /rewind removes a turn as a whole: it never takes the results of a call it
\* leaves in the history.
RewindRemovesWholeTurn ==
    [][\A i \in DOMAIN history' :
          /\ Len(history') < Len(history)
          /\ history' = SubSeq(history, 1, Len(history'))
          /\ history[i].role = "call" /\ history[i].ids \subseteq AnsweredIds(history)
          => history[i].ids \subseteq AnsweredIds(history')]_history

\* With the gate on, a run that ends with its final answer has verified the
\* files changed since the last verification or has used up its repairs.
VerifiedBeforeCompletion ==
    [][(pc = "streaming" /\ pc' = "idle" /\ history' # history /\ VerificationGate)
       => (changed' # "unverified" \/ repairs' = MaxRepairs)]_vars

=============================================================================

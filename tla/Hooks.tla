-------------------------------- MODULE Hooks --------------------------------
(***************************************************************************)
(* The hook engine.  The loop and the sub-agents it launches share one     *)
(* engine: its hooks with their executed marks and the buffer of messages  *)
(* of prompt hooks (the notifications, which are only shown, are left      *)
(* out).  A run passes the events of its iterations; at an event the       *)
(* matching hooks run one after the other, with awaits between.            *)
(***************************************************************************)
EXTENDS Integers, Sequences, FiniteSets

CONSTANTS
    HookList,        \* the hooks that load_hooks accepted, in their order
    HookRun,         \* the runs that share the engine
    MainRun,         \* the one that is Agent.run, of the chat
    MaxMessages,     \* bound: messages of prompt hooks
    MaxTurns         \* bound: iterations and tool calls of a run

LifecycleEvent == {"session_start", "turn_start", "pre_send", "post_receive",
                   "pre_tool_use", "post_tool_use", "turn_end", "session_end",
                   "stop"}

\* What load_hooks lets through: the fields of a hook, no reject outside
\* pre_tool_use, and nothing asynchronous there.
Hook == {h \in [event : LifecycleEvent, action : {"command", "prompt", "http"},
                reject : BOOLEAN, once : BOOLEAN, async : BOOLEAN] :
            /\ h.reject => h.event = "pre_tool_use"
            /\ h.async => h.event # "pre_tool_use"}

ASSUME HookAssumption ==
    HookList \in Seq(Hook) /\ MaxMessages \in Nat /\ MaxTurns \in Nat

VARIABLES
    at,              \* the event a run is at
    turn,            \* its iterations and tool calls so far
    queue,           \* the hooks matched there that have not been started
    current,         \* the hook a run awaits, 0 for none
    background,      \* how often each asynchronous hook is in flight, by run
    executed,        \* Hook.executed
    times,           \* history: how often a hook was started
    messages,        \* _prompt_messages
    added,           \* history: messages added to the conversation of a run
    emitted,         \* history: the run whose hook emitted a message
    rejected         \* history: the runs at an event whose rejecting hook failed

HookNumber == DOMAIN HookList

engine == <<background, executed, times, messages, emitted>>
hookVars == <<at, turn, queue, current, engine, added, rejected>>

HookInit ==
    /\ at = [r \in HookRun |-> "start"] /\ turn = [r \in HookRun |-> 0]
    /\ queue = [r \in HookRun |-> {}] /\ current = [r \in HookRun |-> 0]
    /\ background = [r \in HookRun |-> [h \in HookNumber |-> 0]] /\ executed = {}
    /\ times = [h \in HookNumber |-> 0]
    /\ messages = <<>> /\ emitted = <<>>
    /\ added = [r \in HookRun |-> <<>>] /\ rejected = {}

-----------------------------------------------------------------------------
(* Running the hooks of an event.  They run in the order of their numbers. *)

ShouldRun(h, marked) == ~(HookList[h].once /\ h \in marked)

\* find_matching_hooks, conditions aside: they hold here.
Matching(event, marked) ==
    {h \in HookNumber : HookList[h].event = event /\ ShouldRun(h, marked)}

\* A hook the run waits for.  The others are done at once, as a prompt hook, or
\* left to a task of their own.
Suspends(h) == ~HookList[h].async /\ HookList[h].action # "prompt"

\* Up to the first the run waits for.
Started(hooks) == {h \in hooks : \A k \in hooks : k < h => ~Suspends(k)}

Prompts(hooks) == {h \in hooks : ~HookList[h].async /\ HookList[h].action = "prompt"}

\* Each of n prompt hooks leaves a message; held is what the buffer holds before.
\* Nothing looks at reject.
Leave(r, n, held) ==
    /\ Len(emitted) + n <= MaxMessages
    /\ emitted' = emitted \o [k \in 1..n |-> r]
    /\ messages' = held \o [k \in 1..n |-> Len(emitted) + k]

\* run_hooks, up to its next await: hooks are marked and started in their order.
RunHooks(r, hooks, held) ==
    LET started == Started(hooks)
        awaited == {h \in started : Suspends(h)}
    IN /\ current' = [current EXCEPT ![r] =
                         IF awaited = {} THEN 0 ELSE CHOOSE h \in awaited : TRUE]
       /\ queue' = [queue EXCEPT ![r] = hooks \ started]
       /\ executed' = executed \cup started
       /\ times' = [h \in HookNumber |-> IF h \in started THEN times[h] + 1 ELSE times[h]]
       /\ background' = [background EXCEPT ![r] =
                            [h \in HookNumber |-> IF h \in started /\ HookList[h].async
                                            THEN background[r][h] + 1
                                            ELSE background[r][h]]]
       /\ Leave(r, Cardinality(Prompts(started)), held)

\* _run_single: whether the action succeeds, fails, is late or raises makes no
\* difference to the run.
HookEnds(r) ==
    /\ current[r] # 0
    /\ RunHooks(r, queue[r], messages)
    /\ \/ HookList[current[r]].reject /\ rejected' = rejected \cup {r}
       \/ UNCHANGED rejected
    /\ UNCHANGED <<at, turn, added>>

BackgroundEnds ==
    /\ \E r \in HookRun, h \in HookNumber :
          /\ background[r][h] > 0
          /\ background' = [background EXCEPT ![r] = [background[r] EXCEPT ![h] = @ - 1]]
          /\ Leave(r, IF HookList[h].action = "prompt" THEN 1 ELSE 0, messages)
    /\ UNCHANGED <<at, turn, queue, current, executed, times, added, rejected>>

-----------------------------------------------------------------------------
(* The events of a run.                                                    *)

\* What follows an event: in the chat and in run_to_completion.
Follows(r) ==
    IF r = MainRun
    THEN CASE at[r] = "start" -> {"session_start"}
           [] at[r] = "session_start" -> {"turn_start"}
           [] at[r] = "turn_start" -> {"pre_send"}
           [] at[r] = "pre_send" -> {"post_receive"}
           [] at[r] = "post_receive" -> {"pre_tool_use", "turn_end"}
           [] at[r] = "pre_tool_use" -> {"post_tool_use"}
           [] at[r] = "post_tool_use" -> {"pre_tool_use", "turn_end"}
           [] at[r] = "turn_end" -> {"turn_start", "session_end"}
           [] OTHER -> {"session_start"}
    ELSE CASE at[r] = "start" -> {"turn_start"}
           [] at[r] = "turn_start" -> {"pre_tool_use", "stop"}
           [] at[r] = "pre_tool_use" -> {"post_tool_use"}
           [] at[r] = "post_tool_use" -> {"pre_tool_use", "turn_end"}
           [] at[r] = "turn_end" -> {"turn_start", "stop"}
           [] OTHER -> {}

CollectKeeps == messages
CollectClears == <<>>

\* collect_prompt_messages empties the buffer.
AfterCollect == CollectClears

\* Before a request the run adds what the buffer holds to its conversation.
Collects(r) ==
    at[r] \in IF r = MainRun THEN {"pre_send"} ELSE {"start", "turn_start"}

\* The hooks of the event are done: what they left is taken, and the run goes
\* on to its next event.
NextEvent(r) ==
    /\ current[r] = 0
    /\ \E event \in Follows(r) :
          /\ at' = [at EXCEPT ![r] = event]
          /\ turn' = [turn EXCEPT ![r] = IF event \in {"turn_start", "pre_tool_use"}
                                     THEN @ + 1 ELSE @]
          /\ turn'[r] <= MaxTurns
          /\ RunHooks(r, Matching(event, executed),
                      IF Collects(r) THEN AfterCollect ELSE messages)
    /\ added' = IF Collects(r) THEN [added EXCEPT ![r] = added[r] \o messages] ELSE added
    /\ rejected' = rejected \ {r}

HookNext == BackgroundEnds \/ \E r \in HookRun : HookEnds(r) \/ NextEvent(r)

HookSpec == HookInit /\ [][HookNext]_hookVars

-----------------------------------------------------------------------------
(* Properties.                                                             *)

Elements(s) == {s[i] : i \in DOMAIN s}

Once(s) == \A i, j \in DOMAIN s : s[i] = s[j] => i = j

\* A message of a prompt hook is added to one conversation, once, and no message
\* is lost: those of the buffer and those of the conversations are all of them.
PromptsAddedOnce ==
    /\ DOMAIN emitted = Elements(messages) \cup UNION {Elements(added[r]) : r \in HookRun}
    /\ Once(messages)
    /\ \A r \in HookRun :
          /\ Once(added[r]) /\ Elements(added[r]) \cap Elements(messages) = {}
          /\ \A s \in HookRun \ {r} : Elements(added[r]) \cap Elements(added[s]) = {}

\* A hook that is to run once is started once, whichever runs reach its event
\* (violated, see the README).
OnceRunsOnce == \A h \in HookNumber : HookList[h].once => times[h] <= 1

\* The message of a hook is added to the conversation of the run it was fired in
\* (violated, see the README).
PromptReachesItsRun ==
    \A r \in HookRun : \A i \in DOMAIN added[r] : emitted[added[r][i]] = r

\* A tool does not run when a rejecting hook failed before it (violated, see the
\* README).
RejectStopsTool ==
    [][\A r \in HookRun : r \in rejected => at'[r] # "post_tool_use"]_hookVars

=============================================================================

------------------------------- MODULE Memory ------------------------------
(***************************************************************************)
(* What is remembered between sessions: the file .xhx/memories.md, which a *)
(* model rewrites from the end of a conversation while the conversation,   *)
(* and other processes on the same project, go on; and the records of      *)
(* .xhx/memory/, recalled for each prompt through the context pack.        *)
(***************************************************************************)
EXTENDS ContextPack

CONSTANTS
    Process,         \* chats on one project
    Fact,            \* what a conversation may tell
    UserFacts,       \* the facts in ~/.xhx/memories.md
    Records,         \* the records of .xhx/memory/: [name, strong, weak, names, tokens]
    Tasks,           \* prompts, as sets of words
    OtherItems,      \* the pack's other candidates
    ScanTokens, Budget,  \* tokens of the task and the scan; budget_tokens
    Interval,        \* MEMORY_EXTRACTION_INTERVAL
    Gap,             \* the messages between two extractions
    MaxMessages,     \* bound: messages of a conversation
    MaxClears        \* bound: /memory clear, /clear and compactions

VARIABLES
    project,         \* .xhx/memories.md: {} without file, {facts} with
    files,           \* existing files that records name
    chat,            \* per process, the conversation and its extractions
    clears

vars == <<project, files, chat, clears>>

Fresh == [open |-> TRUE, messages |-> 0, told |-> {}, ltm |-> {}, recalled |-> {},
          loops |-> 0, seen |-> 0, extracting |-> FALSE, due |-> 0, asked |-> {}]

NamedFiles == UNION {r.names : r \in Records}

MemoryInit ==
    /\ project = {}
    /\ files = NamedFiles
    /\ chat = [p \in Process |-> Fresh]
    /\ clears = 0

-----------------------------------------------------------------------------

\* The project's file if there is one, even an empty one, else the user's.
LoadExisting == IF project = {} THEN UserFacts ELSE UNION project

Update(p, new) == chat' = [chat EXCEPT ![p] = new]

\* inject_long_term_memory, once in a history; without memories not at all.
\* (ltm holds the facts of the block, with a mark that there is one.)
Injected(me) ==
    IF me.ltm # {} \/ LoadExisting = {} THEN me.ltm ELSE {LoadExisting}

\* _inject_context_pack_memories: the candidates compete, the memories are used.
MemoryItem(r) == [kind |-> "memory", source |-> r.name, tokens |-> r.tokens]

Recalled(task) ==
    LET items == {MemoryItem(r) : r \in Recall(Records, task, files, 5)}
        pack == ToSet(Pack(OtherItems \cup items, ScanTokens, Budget).items)
    IN {[wanted |-> items, used |-> pack \cap items]}

\* A prompt, and the answer that tells `facts`; on every Interval-th answer an
\* extraction is scheduled.
Prompt(p, task) ==
    /\ chat[p].open /\ chat[p].messages < MaxMessages
    /\ Update(p, [chat[p] EXCEPT !.messages = @ + 1, !.ltm = Injected(chat[p]),
                                 !.recalled = Recalled(task)])
    /\ UNCHANGED <<project, files, clears>>

Answer(p, facts) ==
    LET me == chat[p]
    IN /\ me.open /\ me.messages < MaxMessages
       /\ Update(p, [me EXCEPT !.messages = @ + 1, !.told = @ \cup facts,
                               !.loops = (@ + 1) % Interval,
                               !.due = @ + IF (me.loops + 1) % Interval = 0 THEN 1 ELSE 0])
       /\ UNCHANGED <<project, files, clears>>

\* _extract_memories, up to the call of the model; one is in flight at a time.
BusyNever(p) == FALSE
Busy(p) == chat[p].extracting

Extract(p) ==
    LET me == chat[p]
    IN /\ me.due > 0
       /\ Update(p, IF Busy(p) \/ me.messages < me.seen + Gap
                    THEN [me EXCEPT !.due = @ - 1]
                    ELSE [me EXCEPT !.due = @ - 1, !.extracting = TRUE,
                                    !.asked = @ \cup {[existing |-> LoadExisting,
                                                       messages |-> me.messages,
                                                       told |-> me.told]}])
       /\ UNCHANGED <<project, files, clears>>

\* The model keeps what is there and adds what it finds worth keeping; the
\* whole file is replaced.  Or it answers nothing, or fails.
Extracted(p, ask, found) ==
    /\ found \subseteq ask.told
    /\ project' = {ask.existing \cup found}
    /\ Update(p, [chat[p] EXCEPT !.extracting = FALSE, !.asked = @ \ {ask},
                                 !.seen = ask.messages])
    /\ UNCHANGED <<files, clears>>

ExtractionFails(p, ask) ==
    /\ Update(p, [chat[p] EXCEPT !.extracting = FALSE, !.asked = @ \ {ask}])
    /\ UNCHANGED <<project, files, clears>>

\* /memory clear empties the project's file, if there is one.
ClearMemory(p) ==
    /\ chat[p].open /\ clears < MaxClears /\ project # {}
    /\ project' = {{}}
    /\ clears' = clears + 1
    /\ UNCHANGED <<files, chat>>

\* /clear starts a conversation; a compaction keeps one summary message and
\* injects the memories again.  What was told before is not looked at again.
ClearChat(p) ==
    /\ chat[p].open /\ clears < MaxClears
    /\ Update(p, [chat[p] EXCEPT !.messages = 0, !.told = {}, !.ltm = {}, !.recalled = {}])
    /\ clears' = clears + 1
    /\ UNCHANGED <<project, files>>

Compact(p) ==
    /\ chat[p].open /\ clears < MaxClears /\ chat[p].messages > 1
    /\ Update(p, [chat[p] EXCEPT !.messages = 1, !.told = {}, !.recalled = {},
                                 !.ltm = Injected([chat[p] EXCEPT !.ltm = {}])])
    /\ clears' = clears + 1
    /\ UNCHANGED <<project, files>>

\* graceful_exit: one more extraction, which gets three seconds.  One in flight
\* already dies with the process, and so does the last that is not done by then.
Exit(p) ==
    /\ chat[p].open
    /\ Update(p, [chat[p] EXCEPT !.open = FALSE, !.due = @ + 1])
    /\ UNCHANGED <<project, files, clears>>

Leave(p) ==
    /\ ~chat[p].open
    /\ Update(p, [Fresh EXCEPT !.open = FALSE])
    /\ UNCHANGED <<project, files, clears>>

RemoveFile(f) ==
    /\ files' = files \ {f}
    /\ f \in files
    /\ UNCHANGED <<project, chat, clears>>

MemoryNext ==
    \/ \E p \in Process :
          \/ \E task \in Tasks : Prompt(p, task)
          \/ \E facts \in SUBSET Fact : Answer(p, facts)
          \/ Extract(p)
          \/ \E ask \in chat[p].asked :
                \/ \E found \in SUBSET Fact : Extracted(p, ask, found)
                \/ ExtractionFails(p, ask)
          \/ ClearMemory(p) \/ ClearChat(p) \/ Compact(p) \/ Exit(p) \/ Leave(p)
    \/ \E f \in NamedFiles : RemoveFile(f)

MemorySpec == MemoryInit /\ [][MemoryNext]_vars

-----------------------------------------------------------------------------
(* Properties.                                                             *)

\* What has been remembered stays remembered until it is cleared, although
\* every extraction rewrites the whole file from what it read before it asked
\* the model.
FactsSurvive == [][project' = {{}} \/ UNION project \subseteq UNION project']_vars

\* What was cleared stays cleared until it is told again.
ClearedStaysCleared ==
    [][\A f \in Fact : f \in UNION project' \ UNION project =>
          \E p \in Process : f \in chat[p].told]_vars

\* The memories that a task calls for are in the conversation: only memories
\* of the pack are used, so the other candidates should not cost them.
RecalledAreInjected ==
    \A p \in Process : \A r \in chat[p].recalled : r.used = r.wanted

\* "Preferences of the user are written to the user's directory": they are
\* there for other projects too.
UserFactsAreShown ==
    \A p \in Process : \A facts \in chat[p].ltm : UserFacts \subseteq facts
=============================================================================

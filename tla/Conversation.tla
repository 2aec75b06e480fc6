---------------------------- MODULE Conversation ----------------------------
(***************************************************************************)
(* The message history every part of the agent shares: what a message is,  *)
(* how the two context messages are inserted at its head, how compaction   *)
(* cuts it, and what of it is sent to the model.                           *)
(*                                                                         *)
(* A message is its role and the ids of the tool calls it makes or         *)
(* answers; text is abstracted.  The roles split the code's "user" and     *)
(* "assistant" by what the algorithms tell apart.                          *)
(***************************************************************************)
EXTENDS Integers, Sequences, SequencesExt

CONSTANT
    CallId     \* ids of tool calls (the model's tool_use_id values)

\* env and ltm are the injected context messages, user any other text of the
\* user role (prompts, reminders, summaries), call an assistant message with
\* tool_uses, results the user message that carries tool_results.
Role == {"env", "ltm", "user", "assistant", "call", "results"}

Message == [role : Role, ids : SUBSET CallId]

Text(role) == [role |-> role, ids |-> {}]

CallMsg(ids) == [role |-> "call", ids |-> ids]

ResultsMsg(ids) == [role |-> "results", ids |-> ids]

-----------------------------------------------------------------------------
(* The head of the history.                                                *)

InjectEnvAtEnd(h, injected) ==
    IF injected THEN h ELSE Append(h, Text("env"))

InjectEnv(h, injected) ==
    IF injected THEN h ELSE <<Text("env")>> \o h

\* A list insert at position 1 of an empty list appends.
InjectLtm(h, envInjected, injected, hasMemory) ==
    IF injected \/ ~hasMemory THEN h
    ELSE IF envInjected /\ h # <<>> THEN InsertAt(h, 2, Text("ltm"))
    ELSE <<Text("ltm")>> \o h

-----------------------------------------------------------------------------
(* What is sent to the model.                                              *)

AnsweredIds(h) ==
    UNION {h[i].ids : i \in {j \in DOMAIN h : h[j].role = "results"}}

FilterUnresolvedSkipped(h) == h

\* Calls without a result are stripped, and a call message with none left is
\* dropped.  Results are never looked at.
FilterUnresolved(h) ==
    LET answered == AnsweredIds(h)
        stripped(m) == IF m.role = "call" THEN CallMsg(m.ids \cap answered) ELSE m
        filtered[n \in 0..Len(h)] ==
            IF n = 0 THEN <<>>
            ELSE IF stripped(h[n]) = CallMsg({}) THEN filtered[n - 1]
            ELSE Append(filtered[n - 1], stripped(h[n]))
    IN filtered[Len(h)]

\* What a provider accepts: each call message is followed at once by the
\* message with exactly its results, and each results message follows its call.
WellFormedRequest(r) ==
    /\ \A i \in DOMAIN r : r[i].role = "call" =>
          /\ i + 1 \in DOMAIN r
          /\ r[i + 1] = ResultsMsg(r[i].ids)
    /\ \A i \in DOMAIN r : r[i].role = "results" =>
          /\ i - 1 \in DOMAIN r
          /\ r[i - 1] = CallMsg(r[i].ids)

\* The part of it the history itself keeps: results stand behind their call.
Paired(h) ==
    \A i \in DOMAIN h : h[i].role = "results" =>
        /\ i > 1
        /\ h[i - 1] = CallMsg(h[i].ids)

-----------------------------------------------------------------------------
(* Where compaction cuts.                                                  *)

\* Walking back from the tail, the loop stops as soon as the kept messages
\* reach the token floor, their count reaches minKeep, or one more would pass
\* the token ceiling: depending on the sizes, after 1 .. minKeep messages.
RawKeepStarts(h, minKeep) ==
    {s \in DOMAIN h : Len(h) - s < minKeep}

AlignKeepStartSkipped(h, s) == s

\* The while loop steps back from a results message to its call message, where
\* it stops: the message it reaches has the assistant role.
AlignKeepStart(h, s) ==
    IF /\ s > 1
       /\ s \in DOMAIN h
       /\ h[s].role = "results"
       /\ h[s - 1].role = "call"
    THEN s - 1
    ELSE s

KeepStarts(h, minKeep) ==
    {AlignKeepStart(h, s) : s \in RawKeepStarts(h, minKeep)}

KeptTail(h, s) == SubSeq(h, s, Len(h))

WithoutOldestMessage(p) == IF p = <<>> THEN {p} ELSE {Tail(p)}

\* Turn groups end with an assistant message that calls no tool, the last one at
\* the end.  A summary request that is too long drops its oldest groups: a fifth
\* of them, at least one; the histories explored here have fewer than ten groups,
\* so exactly one.
WithoutOldestGroup(p) ==
    LET endsGroup(i) == p[i].role = "assistant" \/ i = Len(p)
        firstEnd == {i \in DOMAIN p :
                        endsGroup(i) /\ \A j \in 1..(i - 1) : ~endsGroup(j)}
    IN IF p = <<>> THEN {p}
       ELSE {SubSeq(p, i + 1, Len(p)) : i \in firstEnd}

=============================================================================

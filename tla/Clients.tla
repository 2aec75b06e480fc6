------------------------------ MODULE Clients ------------------------------
(***************************************************************************)
(* One model call of the agent loop: the providers' event streams, the     *)
(* three streaming clients of client.py that turn them into events of the  *)
(* agent, the chain of clients that FallbackLLMClient tries, the collector *)
(* of the loop, and what the loop does with a response that was cut at the *)
(* output limit.  Arguments of a tool call arrive in two parts: a call is  *)
(* "whole" with both and "empty" when what arrived does not parse.         *)
(***************************************************************************)
EXTENDS Naturals, SequencesExt

CONSTANTS Chain,          \* the protocols of the clients, the main one first
          MaxCalls,       \* tool calls in a reply (bound)
          MaxRequests,    \* requests of a run (bound)
          MaxRecoveries   \* MAX_OUTPUT_TOKENS_RECOVERIES

VARIABLES phase,      \* idle | streaming | collected | taken | failed
          at,         \* index of the client that is asked
          reply,      \* what its provider means to say (external)
          wire,       \* the provider's events that have not arrived
          slots,      \* tool calls in progress: key to [id, parts]
          locked,     \* an event was passed on: no other client is tried
          resp,       \* LLMResponse of the collector
          escalated, recoveries, requests

vars == <<phase, at, reply, wire, slots, locked, resp, escalated, recoveries, requests>>

(* Replies of a provider: some text, a number of tool calls, and how it    *)
(* ends; a reply cut at the limit may leave its last call half written.    *)
Replies(protocol) ==
  {r \in [text : BOOLEAN, calls : 0..MaxCalls, half : BOOLEAN,
          end : {"end", "tools", "length", "failed"}] :
     /\ r.end = "end" => r.calls = 0
     /\ r.end = "tools" => r.calls > 0
     /\ r.half => r.end = "length" /\ r.calls > 0
     /\ r.end = "failed" => protocol = "openai" /\ ~r.text /\ r.calls = 0}

Event(kind, i) == [kind |-> kind, call |-> i]

(* The wire events of call i: a Chat Completions stream has no event for   *)
(* the end of a call, the Responses stream none for one that is cut.       *)
CallEvents(protocol, r, i) ==
  LET cut == r.half /\ i = r.calls
  IN <<Event("start", i), Event("args", i)>>
     \o (IF cut THEN <<>> ELSE <<Event("args", i)>>)
     \o (IF protocol = "openai-compat" \/ (cut /\ protocol = "openai")
         THEN <<>> ELSE <<Event("stop", i)>>)

AllCalls(protocol, r) == FlattenSeq([i \in 1..r.calls |-> CallEvents(protocol, r, i)])

(* Two calls of a Chat Completions stream may arrive interleaved.          *)
Interleaved(r) ==
  <<Event("start", 1), Event("start", 2), Event("args", 2), Event("args", 1)>>
  \o (IF r.half THEN <<>> ELSE <<Event("args", 2)>>) \o <<Event("args", 1)>>

(* The streams that may carry a reply: the Responses stream closes a cut   *)
(* or failed reply with an event the client has no branch for.             *)
Wires(protocol, r) ==
  LET before == IF r.text THEN <<Event("text", 0)>> ELSE <<>>
      after == IF protocol = "openai" /\ r.end \in {"length", "failed"}
               THEN <<Event("other", 0)>> ELSE <<Event("final", 0)>>
      bodies == {AllCalls(protocol, r)}
                \cup (IF protocol = "openai-compat" /\ r.calls = 2 THEN {Interleaved(r)} ELSE {})
  IN {before \o body \o after : body \in bodies}

NoResponse == [text |-> <<>>, calls |-> <<>>, stop |-> ""]

(* The client at index i of the chain opens its stream.                    *)
OpenStream(i) ==
  /\ at' = i
  /\ \E r \in Replies(Chain[i]) : reply' = r /\ wire' \in Wires(Chain[i], r)
  /\ slots' = <<>>

Init ==
  /\ phase = "idle" /\ at = 1 /\ wire = <<>> /\ slots = <<>> /\ locked = FALSE
  /\ reply = [text |-> FALSE, calls |-> 0, half |-> FALSE, end |-> "end"]
  /\ resp = NoResponse /\ escalated = FALSE /\ recoveries = 0 /\ requests = 0

Ask ==
  /\ phase = "idle" /\ requests < MaxRequests
  /\ phase' = "streaming" /\ requests' = requests + 1
  /\ OpenStream(1)
  /\ locked' = FALSE /\ resp' = NoResponse
  /\ UNCHANGED <<escalated, recoveries>>

---------------------------------------------------------------------------
(* A Chat Completions client tracks calls by their index, the others have  *)
(* one current call.                                                       *)
SlotOfAll(protocol, i) == 1
SlotOf(protocol, i) == IF protocol = "openai-compat" THEN i ELSE 1

Parsed(slot) == [id |-> slot.id, args |-> IF slot.parts = 2 THEN "whole" ELSE "empty"]

(* The calls that an event completes: the current one when its block ends, *)
(* or, in a Chat Completions stream, all when the reason is tool_calls.    *)
Completes(protocol, e) ==
  CASE e.kind = "stop" -> <<Parsed(slots[SlotOf(protocol, e.call)])>>
    [] e.kind = "final" /\ protocol = "openai-compat" /\ reply.end = "tools" ->
         [i \in 1..Len(slots) |-> Parsed(slots[i])]
    [] OTHER -> <<>>

(* The accumulators after an event.                                        *)
Accumulated(protocol, e) ==
  LET k == SlotOf(protocol, e.call)
      new == [id |-> e.call, parts |-> 0]
  IN CASE e.kind = "start" -> IF k <= Len(slots) THEN [slots EXCEPT ![k] = new]
                              ELSE Append(slots, new)
       [] e.kind = "args" -> [slots EXCEPT ![k].parts = @ + 1]
       [] OTHER -> slots

(* The reason the client reports: only the Anthropic client knows a cut.   *)
StopReason(protocol) ==
  CASE protocol = "anthropic" /\ reply.end = "length" -> "max_tokens"
    [] protocol # "openai" /\ reply.end = "tools" -> "tool_use"
    [] OTHER -> "end_turn"

(* One event of the provider passes through the client to the collector.   *)
Receive ==
  LET protocol == Chain[at]
      e == Head(wire)
  IN /\ phase = "streaming" /\ wire # <<>>
     /\ wire' = Tail(wire)
     /\ slots' = Accumulated(protocol, e)
     /\ locked' = (locked \/ e.kind # "other")
     /\ resp' = [text |-> IF e.kind = "text" THEN Append(resp.text, at) ELSE resp.text,
                 calls |-> resp.calls \o Completes(protocol, e),
                 stop |-> IF e.kind = "final" THEN StopReason(protocol) ELSE resp.stop]
     /\ UNCHANGED <<phase, at, reply, escalated, recoveries, requests>>

StreamOver ==
  /\ phase = "streaming" /\ wire = <<>>
  /\ phase' = "collected"
  /\ UNCHANGED <<at, reply, wire, slots, locked, resp, escalated, recoveries, requests>>

(* FallbackLLMClient tries the next client only before the first event.    *)
FallsBackAlways == at < Len(Chain)
FallsBack == ~locked /\ at < Len(Chain)

(* The client raises: an LLMError (authentication, limit, network, status) *)
(* or anything else, which no chain catches.                               *)
Breaks ==
  /\ phase = "streaming"
  /\ \E llmError \in BOOLEAN :
     IF llmError /\ FallsBack THEN OpenStream(at + 1) /\ UNCHANGED phase
     ELSE phase' = "failed" /\ UNCHANGED <<at, reply, wire, slots>>
  /\ UNCHANGED <<locked, resp, escalated, recoveries, requests>>

---------------------------------------------------------------------------
(* The loop takes the response.  A response cut at the limit is continued: *)
(* once with a raised limit, then at most MaxRecoveries times.             *)
Continues == resp.stop = "max_tokens" /\ (~escalated \/ recoveries < MaxRecoveries)

Recover ==
  /\ phase = "collected" /\ Continues
  /\ phase' = "idle"
  /\ escalated' = TRUE
  /\ recoveries' = IF escalated THEN recoveries + 1 ELSE recoveries
  /\ UNCHANGED <<at, reply, wire, slots, locked, resp, requests>>

Take ==
  /\ phase = "collected" /\ ~Continues
  /\ phase' = "taken"
  /\ recoveries' = IF resp.stop = "max_tokens" THEN recoveries ELSE 0
  /\ UNCHANGED <<at, reply, wire, slots, locked, resp, escalated, requests>>

(* The calls of the response were run, and the loop asks again.            *)
Iterate ==
  /\ phase = "taken" /\ resp.calls # <<>>
  /\ phase' = "idle"
  /\ UNCHANGED <<at, reply, wire, slots, locked, resp, escalated, recoveries, requests>>

(* The run has answered or failed, and the user sends another prompt.      *)
NextRun ==
  /\ phase = "failed" \/ (phase = "taken" /\ resp.calls = <<>>)
  /\ phase' = "idle" /\ escalated' = FALSE /\ recoveries' = 0
  /\ UNCHANGED <<at, reply, wire, slots, locked, resp, requests>>

Next == Ask \/ Receive \/ StreamOver \/ Breaks \/ Recover \/ Take \/ Iterate \/ NextRun

Spec == Init /\ [][Next]_vars

---------------------------------------------------------------------------
(* What the loop acts on was said by one client, and a reply that reached  *)
(* its end is taken as it was written: its text once, its calls in their   *)
(* order, each with the arguments of its own parts, whatever order the     *)
(* parts of parallel calls arrived in and whichever clients failed before  *)
(* (client.py, the three stream methods and FallbackLLMClient).            *)
TakenAsWritten ==
  phase = "taken" =>
    /\ \A i \in 1..Len(resp.text) : resp.text[i] = at
    /\ reply.end \in {"end", "tools"} =>
         /\ Len(resp.text) = IF reply.text THEN 1 ELSE 0
         /\ resp.calls = [i \in 1..reply.calls |-> [id |-> i, args |-> "whole"]]

(* A reply cut at the limit is continued until the recoveries are used up  *)
(* (agent_runner.py, the max_tokens branch of run).                        *)
TruncatedIsContinued ==
  phase = "taken" /\ reply.end = "length" => escalated /\ recoveries = MaxRecoveries

(* A provider that fails before it said anything is replaced by the next   *)
(* of the chain, and is never taken for an answer (README, "graceful       *)
(* fallback on error").                                                    *)
FailuresFallBack == phase = "taken" => reply.end # "failed"

(* A tool is run with the arguments the model wrote, or not at all.        *)
CallsAreAsWritten ==
  phase = "taken" => \A i \in 1..Len(resp.calls) : resp.calls[i].args = "whole"
=============================================================================

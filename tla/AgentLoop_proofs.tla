-------------------------- MODULE AgentLoop_proofs --------------------------
(***************************************************************************)
(* Proofs about the agent loop, for every number of iterations, prompts,   *)
(* calls and kept messages.                                                *)
(***************************************************************************)
EXTENDS MCAgentLoop, Conversation_proofs

\* A text is a message, whatever its role.
LEMMA TextType == \A role \in Role : Text(role) \in Message
  BY TextIsMessage

\* Appending the user text that reminders and prompts are.
LEMMA UserTextType ==
    ASSUME NEW h \in Seq(Message)
    PROVE  /\ Append(h, Text("user")) \in Seq(Message)
           /\ Append(h, Text("assistant")) \in Seq(Message)
           /\ h \o <<Text("assistant"), Text("user")>> \in Seq(Message)
           /\ WithOptionalReminder(h) \subseteq Seq(Message)
<1>1. Text("user") \in Message /\ Text("assistant") \in Message
  BY TextType DEF Role
<1>2. Append(h, Text("user")) \in Seq(Message) /\ Append(h, Text("assistant")) \in Seq(Message)
  BY <1>1, AppendProperties
<1>3. <<Text("assistant"), Text("user")>> \in Seq(Message)
  BY <1>1
<1>4. h \o <<Text("assistant"), Text("user")>> \in Seq(Message)
  BY <1>3, ConcatProperties
<1>5. QED BY <1>2, <1>4 DEF WithOptionalReminder

\* The part of TypeOK about the histories that compactions hold.
CompactionType ==
    [Caller -> [attempts : 0..3, prompt : Seq(Message), tail : Seq(Message)]]

\* No compaction is a compaction that holds nothing.
LEMMA NoCompactionType ==
    ASSUME compaction \in CompactionType, NEW c \in Caller
    PROVE  [compaction EXCEPT ![c] = NoCompaction] \in CompactionType
<1>1. <<>> \in Seq(Message)
  BY EmptySeq
<1>2. NoCompaction \in [attempts : 0..3, prompt : Seq(Message), tail : Seq(Message)]
  BY <1>1 DEF NoCompaction
<1>3. QED BY <1>2 DEF CompactionType

\* What a compaction copies and remembers is of the history.
LEMMA StartCompactionType ==
    ASSUME LoopAssumption, compaction \in CompactionType, NEW c \in Caller,
           NEW h \in Seq(Message), StartCompaction(c, h)
    PROVE  compaction' \in CompactionType
<1>1. PICK s \in KeepStarts(h, MinKeepMessages) :
         compaction' = [compaction EXCEPT ![c] =
              [attempts |-> 1, prompt |-> SubSeq(h, 1, s - 1), tail |-> KeptTail(h, s)]]
  BY DEF StartCompaction
<1>2. s \in 1..Len(h) /\ Len(h) \in Nat
  BY KeepStartsType, LenProperties DEF LoopAssumption
<1>3. SubSeq(h, 1, s - 1) \in Seq(Message) /\ KeptTail(h, s) \in Seq(Message)
  BY <1>2, SubSeqType DEF KeptTail
<1>4. QED BY <1>1, <1>3 DEF CompactionType

\* The end of a run clears the coroutine's locals.
LEMMA EndRunType ==
    ASSUME TypeOK, EndRun
    PROVE  /\ pc' \in Phase
           /\ iteration' \in 0..MaxIterations /\ unknown' \in Nat
           /\ escalated' \in BOOLEAN /\ recoveries' \in 0..MaxRecoveries
           /\ answered' \subseteq toolCalls' /\ toolCalls' \subseteq CallId
           /\ compaction' \in CompactionType
<1>1. compaction' \in CompactionType
  BY NoCompactionType DEF EndRun, TypeOK, CompactionType, Caller
<1>2. escalated' \in BOOLEAN
  BY DEF EndRun
<1>3. /\ iteration' \in 0..MaxIterations /\ unknown' \in Nat
      /\ recoveries' \in 0..MaxRecoveries
  BY LoopAssumption DEF EndRun, LoopAssumption
<1>4. QED BY <1>1, <1>2, <1>3 DEF EndRun, Phase

-----------------------------------------------------------------------------

\* A new agent has an empty history.
LEMMA InitType == Init => TypeOK
<1>1. <<>> \in Seq(Message)
  BY EmptySeq
<1>2. Init => compaction \in CompactionType
  BY <1>1 DEF Init, NoCompaction, CompactionType
<1>3. Init => iteration \in 0..MaxIterations /\ recoveries \in 0..MaxRecoveries
              /\ repairs \in 0..MaxRepairs /\ failures \in 0..MaxFailures
              /\ prompts \in 0..MaxPrompts /\ unknown \in Nat
  BY LoopAssumption DEF Init, LoopAssumption
<1>4. Init => pc \in Phase
  BY DEF Init, Phase
<1>5. Init => envInjected \in BOOLEAN /\ ltmInjected \in BOOLEAN
              /\ escalated \in BOOLEAN /\ verified \in BOOLEAN
  BY DEF Init
<1>6. QED BY <1>1, <1>2, <1>3, <1>4, <1>5 DEF Init, TypeOK, CompactionType

\* Every step, of either loop, keeps the variables in their types.
LEMMA NextType == TypeOK /\ [Next]_vars => TypeOK'
<1> SUFFICES ASSUME TypeOK, [Next]_vars PROVE TypeOK'
  OBVIOUS
<1> USE LoopAssumption
<1>0. history \in Seq(Message) /\ compaction \in CompactionType
  BY DEF TypeOK, CompactionType
<1>1. CASE Submit
  <2>1. history' \in Seq(Message)
    BY <1>0, <1>1, UserTextType DEF Submit
  <2>2. prompts' \in 0..MaxPrompts
    BY <1>1 DEF Submit, TypeOK, LoopAssumption
  <2>3. pc' \in Phase
    BY <1>1 DEF Submit, Phase
  <2>4. UNCHANGED <<envInjected, ltmInjected, counters, response, gate, failures, compaction>>
    BY <1>1 DEF Submit
  <2>5. QED BY <2>1, <2>2, <2>3, <2>4 DEF TypeOK, counters, response, gate
<1>2. CASE Begin
  <2>1. LoadsMemory \in BOOLEAN
    BY DEF LoadsMemory, LoopAssumption, TypeOK
  <2>2. InjectEnv(history, envInjected) \in Seq(Message)
    BY <1>0, InjectEnvType DEF TypeOK
  <2>3. InjectLtm(InjectEnv(history, envInjected), TRUE, ltmInjected, LoadsMemory) \in Seq(Message)
    BY <2>1, <2>2, InjectLtmType DEF TypeOK
  <2>4. history' \in Seq(Message)
    BY <1>2, <2>3, UserTextType DEF Begin
  <2>5. envInjected' \in BOOLEAN /\ ltmInjected' \in BOOLEAN
    BY <2>1, <1>2 DEF Begin, TypeOK
  <2>6. /\ iteration' \in 0..MaxIterations /\ recoveries' \in 0..MaxRecoveries
        /\ unknown' \in Nat
    BY <1>2 DEF Begin, LoopAssumption
  <2>7. pc' \in Phase /\ escalated' \in BOOLEAN
    BY <1>2 DEF Begin, Phase
  <2>8. UNCHANGED <<response, gate, failures, compaction, prompts>>
    BY <1>2 DEF Begin
  <2>9. QED BY <2>4, <2>5, <2>6, <2>7, <2>8 DEF TypeOK, response, gate
<1>3. CASE IterationLimit
  BY <1>3, EndRunType DEF IterationLimit, TypeOK, conversation, gate, CompactionType
<1>4. CASE TurnTop
  <2>1. PICK h \in WithOptionalReminder(history) :
          /\ history' = h
          /\ \/ pc' = "send" /\ UNCHANGED compaction
             \/ StartCompaction("run", h) /\ pc' = "summarising"
    BY <1>4 DEF TurnTop
  <2>2. h \in Seq(Message)
    BY <1>0, UserTextType
  <2>3. compaction' \in CompactionType /\ pc' \in Phase
    BY <1>0, <2>1, <2>2, StartCompactionType DEF Phase, Caller
  <2>4. iteration' \in 0..MaxIterations
    BY <1>4 DEF TurnTop, PastLimit, NextIteration, TypeOK, LoopAssumption
  <2>5. QED BY <2>1, <2>2, <2>3, <2>4, <1>4
            DEF TurnTop, TypeOK, response, gate, CompactionType
<1>5. CASE Reinject
  <2>1. InjectEnv(history, envInjected) \in Seq(Message)
    BY <1>0, InjectEnvType DEF TypeOK
  <2>2. history' \in Seq(Message)
    BY <1>5, <2>1, InjectLtmType DEF Reinject, TypeOK, LoopAssumption
  <2>3. envInjected' \in BOOLEAN /\ ltmInjected' \in BOOLEAN
    BY <1>5 DEF Reinject, TypeOK, LoopAssumption
  <2>4. pc' \in Phase
    BY <1>5 DEF Reinject, Phase
  <2>5. UNCHANGED <<counters, response, gate, failures, compaction, prompts>>
    BY <1>5 DEF Reinject
  <2>6. QED BY <2>2, <2>3, <2>4, <2>5 DEF TypeOK, counters, response, gate
<1>6. CASE Send
  <2>1. history' \in Seq(Message)
    BY <1>0, <1>6, UserTextType DEF Send
  <2>2. QED BY <2>1, <1>6 DEF Send, TypeOK, counters, response, gate, Phase
<1>7. CASE OutputLimit
  <2>1. history' \in Seq(Message)
    BY <1>0, <1>7, UserTextType DEF OutputLimit
  <2>2. recoveries' \in 0..MaxRecoveries
    BY <1>7 DEF OutputLimit, TypeOK, LoopAssumption
  <2>3. escalated' \in BOOLEAN
    BY <1>7 DEF OutputLimit, TypeOK
  <2>4. QED BY <2>1, <2>2, <2>3, <1>7 DEF OutputLimit, TypeOK, response, gate, Phase
<1>8. CASE FinalAnswer
  <2>1. history' \in Seq(Message)
    BY <1>0, <1>8, UserTextType DEF FinalAnswer
  <2>2. CASE EndRun
    BY <2>1, <2>2, <1>8, EndRunType DEF FinalAnswer, TypeOK, gate, CompactionType
  <2>3. CASE ~EndRun
    <3>1. recoveries' \in 0..MaxRecoveries
      BY <2>3, <1>8 DEF FinalAnswer, RecoveriesAfterResponse, TypeOK, LoopAssumption
    <3>2. QED BY <2>1, <2>3, <3>1, <1>8 DEF FinalAnswer, TypeOK, response, gate, Phase
  <2>4. QED BY <2>2, <2>3
<1>9. CASE ToolResponse
  <2>1. PICK ids \in SUBSET FreshIds :
          history' = Append(history, CallMsg(ids)) /\ toolCalls' = ids
    BY <1>9 DEF ToolResponse
  <2>2. ids \subseteq CallId
    BY <2>1 DEF FreshIds
  <2>3. CallMsg(ids) \in Message
    BY <2>2 DEF CallMsg, Message, Role
  <2>4. history' \in Seq(Message)
    BY <1>0, <2>1, <2>3, AppendProperties
  <2>5. recoveries' \in 0..MaxRecoveries
    BY <1>9 DEF ToolResponse, RecoveriesAfterResponse, TypeOK, LoopAssumption
  <2>6. QED BY <2>1, <2>2, <2>4, <2>5, <1>9 DEF ToolResponse, TypeOK, gate, Phase
<1>10. CASE ExecuteCall
  BY <1>10 DEF ExecuteCall, TypeOK, conversation
<1>11. CASE TooManyUnknown
  BY <1>11, EndRunType DEF TooManyUnknown, TypeOK, conversation, gate, CompactionType
<1>12. CASE AddResults
  <2>1. ResultsMsg(toolCalls) \in Message
    BY DEF ResultsMsg, Message, Role, TypeOK
  <2>2. history' \in Seq(Message)
    BY <1>0, <1>12, <2>1, AppendProperties DEF AddResults
  <2>3. CASE EndRun
    BY <2>2, <2>3, <1>12, EndRunType DEF AddResults, TypeOK, gate, CompactionType
  <2>4. CASE ~EndRun
    BY <2>2, <2>4, <1>12 DEF AddResults, TypeOK, counters, gate, Phase
  <2>5. QED BY <2>3, <2>4
<1>13. CASE GatePasses
  BY <1>13, EndRunType DEF GatePasses, TypeOK, conversation, CompactionType
<1>14. CASE GateFails
  <2>1. repairs' \in 0..MaxRepairs
    BY <1>14 DEF GateFails, TypeOK, LoopAssumption
  <2>2. CASE repairs < MaxRepairs
    <3>1. history' \in Seq(Message)
      BY <1>0, <1>14, <2>2, UserTextType DEF GateFails
    <3>2. QED BY <2>1, <2>2, <3>1, <1>14 DEF GateFails, TypeOK, counters, response, Phase
  <2>3. CASE ~(repairs < MaxRepairs)
    BY <2>1, <2>3, <1>14, EndRunType DEF GateFails, TypeOK, CompactionType
  <2>4. QED BY <2>2, <2>3
<1>15. CASE Abort
  BY <1>15, EndRunType DEF Abort, TypeOK, conversation, gate, CompactionType
<1>16. ASSUME NEW c \in Caller, SummaryTooLong(c) PROVE TypeOK'
  <2>1. compaction[c].prompt \in Seq(Message)
    BY <1>0, <1>16 DEF CompactionType
  <2>2. PICK rest \in WithoutOldestGroup(compaction[c].prompt) :
          compaction' = [compaction EXCEPT ![c].attempts = @ + 1, ![c].prompt = rest]
    BY <1>16 DEF SummaryTooLong
  <2>3. rest \in Seq(Message)
    BY <2>1, WithoutOldestGroupType
  <2>4. compaction[c].attempts + 1 \in 0..3
    BY <1>16 DEF SummaryTooLong
  <2>5. compaction' \in CompactionType
    BY <1>0, <1>16, <2>2, <2>3, <2>4 DEF CompactionType
  <2>6. QED BY <2>5, <1>16
            DEF SummaryTooLong, TypeOK, conversation, counters, response, gate, CompactionType
<1>17. ASSUME NEW c \in Caller, SummaryFails(c) PROVE TypeOK'
  <2>1. compaction' \in CompactionType
    BY <1>0, <1>17, NoCompactionType DEF SummaryFails
  <2>2. failures' \in 0..MaxFailures
    BY <1>17 DEF SummaryFails, TypeOK, LoopAssumption
  <2>3. QED BY <2>1, <2>2, <1>17
            DEF SummaryFails, TypeOK, conversation, counters, response, gate, Phase, CompactionType
<1>18. ASSUME NEW c \in Caller, SummaryDone(c) PROVE TypeOK'
  <2> DEFINE rebuilt == <<Text("user")>> \o compaction[c].tail
             withEnv == InjectEnv(rebuilt, FALSE)
             deferred == c = "run" /\ Interactive
             withLtm == c = "command" /\ HasMemory
  <2>1. rebuilt \in Seq(Message)
    <3>1. compaction[c].tail \in Seq(Message)
      BY <1>0, <1>18 DEF CompactionType
    <3>2. <<Text("user")>> \in Seq(Message)
      BY TextType DEF Role
    <3>3. QED BY <3>1, <3>2, ConcatProperties
  <2>2. withEnv \in Seq(Message)
    BY <2>1, InjectEnvType
  <2>3. InjectLtm(withEnv, TRUE, FALSE, withLtm) \in Seq(Message)
    BY <2>2, InjectLtmType, LoopAssumption DEF LoopAssumption
  <2>4. /\ history' = IF deferred THEN rebuilt ELSE InjectLtm(withEnv, TRUE, FALSE, withLtm)
        /\ envInjected' = ~deferred
        /\ ltmInjected' = withLtm
        /\ pc' = IF c = "command" THEN pc ELSE IF deferred THEN "compacted" ELSE "send"
        /\ failures' = 0
        /\ compaction' = [compaction EXCEPT ![c] = NoCompaction]
        /\ UNCHANGED <<counters, response, gate, request, prompts>>
    BY <1>18 DEF SummaryDone
  <2>5. compaction' \in CompactionType
    BY <1>0, <1>18, <2>4, NoCompactionType
  <2>6. history' \in Seq(Message)
    BY <2>1, <2>3, <2>4
  <2>7. envInjected' \in BOOLEAN /\ ltmInjected' \in BOOLEAN
    BY <2>4 DEF LoopAssumption
  <2>8. pc' \in Phase
    BY <2>4 DEF TypeOK, Phase
  <2> HIDE DEF rebuilt, withEnv, deferred, withLtm
  <2>9. failures' \in 0..MaxFailures
    BY <2>4 DEF LoopAssumption
  <2>10. UNCHANGED <<counters, response, gate, prompts>>
    BY <2>4
  <2>11. QED BY <2>5, <2>6, <2>7, <2>8, <2>9, <2>10
             DEF TypeOK, counters, response, gate, CompactionType
<1>19. CASE CompactCommand
  <2>1. compaction' \in CompactionType
    BY <1>0, <1>19, StartCompactionType DEF CompactCommand, Caller
  <2>2. QED BY <2>1, <1>19
            DEF CompactCommand, TypeOK, conversation, counters, response, gate, CompactionType
<1>20. CASE Rewind
  <2>1. PICK n \in 0..Len(history) : history' = SubSeq(history, 1, n)
    BY <1>20 DEF Rewind
  <2>2. history' \in Seq(Message)
    BY <1>0, <2>1, SubSeqType, LenProperties
  <2>3. QED BY <2>2, <1>20 DEF Rewind, TypeOK, counters, response, gate
<1>21. CASE UNCHANGED vars
  BY <1>21 DEF vars, conversation, counters, response, gate, TypeOK
<1>22. QED
  BY <1>1, <1>2, <1>3, <1>4, <1>5, <1>6, <1>7, <1>8, <1>9, <1>10, <1>11, <1>12,
     <1>13, <1>14, <1>15, <1>16, <1>17, <1>18, <1>19, <1>20, <1>21
     DEF Next, LoopStep, Compaction

\* Every variable of the loop stays in its type; in particular no run starts
\* more than MaxIterations iterations and no call is answered that was not made.
THEOREM TypeCorrect == Spec => []TypeOK
  BY InitType, NextType, PTL DEF Spec

-----------------------------------------------------------------------------
(* Results stay with their calls.                                          *)
(*                                                                         *)
(* The property is not inductive: a compaction puts back a tail it took    *)
(* earlier, so the tail must still be the end of the history and must not  *)
(* start with results; results are added behind whatever is last, so the   *)
(* calls being executed must be last; and the injected memories go to      *)
(* position 2, so the first message must make no calls.                    *)

\* The tail of a compaction in progress ends the history and cuts no pair.
TailsAreSuffixes ==
    \A c \in Caller : Compacting(c) =>
        \E s \in 1..Len(history) :
            /\ history[s].role # "results"
            /\ compaction[c].tail = KeptTail(history, s)

\* A run only compacts in its own phase, /compact only between runs.
CompactionsAreAlone ==
    /\ Compacting("run") => pc = "summarising"
    /\ Compacting("command") => pc = "idle"

\* While tools run, the message that called them is the last one.
CallsAreLast ==
    pc = "tools" => history # <<>> /\ history[Len(history)] = CallMsg(toolCalls)

Sound(h) == h \in Seq(Message) /\ Paired(h) /\ HeadIsNoCall(h)

PairingInv ==
    /\ TypeOK
    /\ Sound(history)
    /\ pc # "idle" => history # <<>>
    /\ TailsAreSuffixes
    /\ CompactionsAreAlone
    /\ CallsAreLast

\* Appending a message that is neither a call nor results.
LEMMA AppendTextSound ==
    ASSUME NEW h, Sound(h), NEW role \in Role \ {"call", "results"}
    PROVE  Sound(Append(h, Text(role))) /\ Append(h, Text(role)) # <<>>
<1>1. Text(role) \in Message /\ Text(role).role = role
  BY TextIsMessage
<1>2. Append(h, Text(role)) \in Seq(Message) /\ Paired(Append(h, Text(role)))
  BY <1>1, AppendKeepsPaired DEF Sound
<1>3. /\ Len(Append(h, Text(role))) = Len(h) + 1 /\ Len(h) \in Nat
      /\ \A i \in 1..Len(h) : Append(h, Text(role))[i] = h[i]
      /\ Append(h, Text(role))[Len(h) + 1] = Text(role)
  BY <1>1, AppendProperties, LenProperties DEF Sound
<1>4. Append(h, Text(role)) # <<>>
  BY <1>3, EmptySeq
<1>5. CASE h = <<>>
  BY <1>1, <1>2, <1>3, <1>4, <1>5, EmptySeq DEF Sound, HeadIsNoCall
<1>6. CASE h # <<>>
  <2>1. Len(h) >= 1
    BY <1>6, <1>3, EmptySeq DEF Sound
  <2>2. Append(h, Text(role))[1] = h[1]
    BY <2>1, <1>3
  <2>3. QED BY <2>2, <1>2, <1>4, <1>6 DEF Sound, HeadIsNoCall
<1>7. QED BY <1>5, <1>6

\* A reminder is no call and answers none.
LEMMA ReminderSound ==
    ASSUME NEW h, Sound(h), NEW g \in WithOptionalReminder(h)
    PROVE  Sound(g) /\ (h # <<>> => g # <<>>)
  BY AppendTextSound DEF WithOptionalReminder, Role

\* The truncated text and the request to go on.
LEMMA RoundSound ==
    ASSUME NEW h, Sound(h)
    PROVE  /\ Sound(h \o <<Text("assistant"), Text("user")>>)
           /\ h \o <<Text("assistant"), Text("user")>> # <<>>
<1>1. /\ Sound(Append(h, Text("assistant")))
      /\ Sound(Append(Append(h, Text("assistant")), Text("user")))
      /\ Append(Append(h, Text("assistant")), Text("user")) # <<>>
  BY AppendTextSound DEF Role
<1>2. Append(Append(h, Text("assistant")), Text("user"))
        = h \o <<Text("assistant"), Text("user")>>
  BY TextType DEF Sound, Role
<1>3. QED BY <1>1, <1>2

\* Injecting the context, in both forms.
LEMMA InjectionSound ==
    ASSUME NEW h, Sound(h), NEW env \in BOOLEAN, NEW ltm \in BOOLEAN,
           NEW memory \in BOOLEAN
    PROVE  /\ Sound(InjectEnv(h, env))
           /\ Sound(InjectLtm(InjectEnv(h, env), TRUE, ltm, memory))
<1>1. Sound(InjectEnv(h, env))
  BY InjectEnvKeepsPaired DEF Sound
<1>2. QED BY <1>1, InjectLtmKeepsPaired DEF Sound

\* A non-empty history stays non-empty when the context is injected.
LEMMA InjectionNotEmpty ==
    ASSUME NEW h \in Seq(Message), h # <<>>, NEW env \in BOOLEAN,
           NEW ltm \in BOOLEAN, NEW memory \in BOOLEAN
    PROVE  /\ InjectEnv(h, env) # <<>>
           /\ InjectLtm(InjectEnv(h, env), TRUE, ltm, memory) # <<>>
<1> DEFINE g == InjectEnv(h, env)
<1>1. <<Text("env")>> \in Seq(Message) /\ <<Text("ltm")>> \in Seq(Message)
  BY TextType DEF Role
<1>2. ASSUME NEW f \in Seq(Message)
      PROVE  <<Text("env")>> \o f # <<>> /\ <<Text("ltm")>> \o f # <<>>
  BY <1>1, <1>2, ConcatEqualIffEmpty
<1>3. g \in Seq(Message) /\ g # <<>>
  BY <1>2, InjectEnvType DEF InjectEnv
<1>4. ASSUME NEW f \in Seq(Message), f # <<>>
      PROVE  InsertAt(f, 2, Text("ltm")) # <<>>
  <2>1. Len(f) \in Nat /\ Len(f) >= 1
    BY <1>4, EmptySeq, LenProperties
  <2>2. SubSeq(f, 1, 1) \in Seq(Message) /\ SubSeq(f, 2, Len(f)) \in Seq(Message)
    BY <2>1, SubSeqType
  <2>3. SubSeq(f, 1, 1) # <<>>
    BY <2>1, <2>2, SubSeqProperties, ElementOfSeq, EmptySeq
  <2>4. SubSeq(f, 1, 1) \o <<Text("ltm")>> # <<>>
    BY <2>2, <2>3, <1>1, ConcatEqualIffEmpty
  <2>5. SubSeq(f, 1, 1) \o <<Text("ltm")>> \in Seq(Message)
    BY <2>2, <1>1, ConcatProperties
  <2>6. QED BY <2>2, <2>4, <2>5, ConcatEqualIffEmpty DEF InsertAt
<1>5. QED BY <1>2, <1>3, <1>4 DEF InjectLtm

\* Where no compaction is in progress after a step, what PairingInv says of
\* them holds.
LEMMA QuietStep ==
    ASSUME \A c \in Caller : compaction'[c].attempts = 0
    PROVE  TailsAreSuffixes' /\ CompactionsAreAlone'
  BY DEF TailsAreSuffixes, CompactionsAreAlone, Compacting, Caller

\* Outside of its own phase a run compacts nothing, and neither does anyone else.
LEMMA NoneCompacting ==
    ASSUME TypeOK, CompactionsAreAlone, pc \notin {"idle", "summarising"}
    PROVE  \A c \in Caller : compaction[c].attempts = 0
<1>1. \A c \in Caller : compaction[c].attempts \in 0..3
  BY DEF TypeOK
<1>2. QED BY <1>1 DEF CompactionsAreAlone, Compacting, Caller

\* Ending a run drops its compaction; no other one is in progress.
LEMMA EndRunQuiet ==
    ASSUME TypeOK, CompactionsAreAlone, pc # "idle", EndRun
    PROVE  \A c \in Caller : compaction'[c].attempts = 0
<1>1. \A c \in Caller : compaction[c].attempts \in 0..3
  BY DEF TypeOK
<1>2. compaction["command"].attempts = 0
  BY <1>1 DEF CompactionsAreAlone, Compacting, Caller
<1>3. compaction' = [compaction EXCEPT !["run"] = NoCompaction]
      /\ DOMAIN compaction = Caller
  BY DEF EndRun, TypeOK
<1>4. QED BY <1>2, <1>3 DEF NoCompaction, Caller

\* When one compaction ends there is none left.
LEMMA LastCompaction ==
    ASSUME TypeOK, CompactionsAreAlone, NEW c \in Caller, Compacting(c),
           compaction' = [compaction EXCEPT ![c] = NoCompaction]
    PROVE  \A d \in Caller : compaction'[d].attempts = 0
<1>1. \A d \in Caller : compaction[d].attempts \in 0..3
  BY DEF TypeOK
<1>2. \A d \in Caller \ {c} : compaction[d].attempts = 0
  BY <1>1 DEF CompactionsAreAlone, Compacting, Caller
<1>3. DOMAIN compaction = Caller
  BY DEF TypeOK
<1>4. QED BY <1>2, <1>3 DEF NoCompaction

\* A compaction that starts remembers a tail that cuts no pair.
LEMMA StartCompactionTail ==
    ASSUME LoopAssumption, TypeOK, NEW c \in Caller, NEW h, Sound(h),
           StartCompaction(c, h)
    PROVE  /\ \E s \in 1..Len(h) : /\ h[s].role # "results"
                                   /\ compaction'[c].tail = KeptTail(h, s)
           /\ \A d \in Caller \ {c} : compaction'[d] = compaction[d]
<1>1. PICK s \in KeepStarts(h, MinKeepMessages) :
         compaction' = [compaction EXCEPT ![c] =
              [attempts |-> 1, prompt |-> SubSeq(h, 1, s - 1), tail |-> KeptTail(h, s)]]
  BY DEF StartCompaction
<1>2. s \in 1..Len(h) /\ h[s].role # "results"
  BY KeepStartsAtNoResult DEF LoopAssumption, Sound
<1>3. DOMAIN compaction = Caller
  BY DEF TypeOK
<1>4. QED BY <1>1, <1>2, <1>3

\* Rewinding leaves a prefix.
LEMMA PrefixSound ==
    ASSUME NEW h, Sound(h), NEW n \in 0..Len(h)
    PROVE  Sound(SubSeq(h, 1, n))
<1> DEFINE p == SubSeq(h, 1, n)
<1>1. /\ p \in Seq(Message) /\ Len(p) = n /\ Paired(p)
      /\ \A i \in 1..n : p[i] = h[i]
  BY PrefixKeepsPaired DEF Sound
<1>2. ASSUME p # <<>>
      PROVE  p[1].role # "call"
  <2>1. n >= 1 /\ Len(h) >= 1
    BY <1>1, <1>2, EmptySeq, LenProperties DEF Sound
  <2>2. h # <<>>
    BY <2>1, EmptySeq DEF Sound
  <2>3. QED BY <2>1, <2>2, <1>1 DEF Sound, HeadIsNoCall
<1> HIDE DEF p
<1>3. Sound(p)
  BY <1>1, <1>2 DEF Sound, HeadIsNoCall
<1>4. QED BY <1>3 DEF p

\* The summary followed by the tail is sound.
LEMMA RebuiltSound ==
    ASSUME PairingInv, NEW c \in Caller, Compacting(c)
    PROVE  Sound(<<Text("user")>> \o compaction[c].tail)
           /\ <<Text("user")>> \o compaction[c].tail # <<>>
<1>1. PICK s \in 1..Len(history) :
         history[s].role # "results" /\ compaction[c].tail = KeptTail(history, s)
  BY DEF PairingInv, TailsAreSuffixes
<1>2. KeptTail(history, s) \in Seq(Message) /\ Paired(KeptTail(history, s))
  BY <1>1, SuffixKeepsPaired DEF PairingInv, Sound
<1>3. Text("user") \in Message /\ Text("user").role = "user"
  BY TextIsMessage DEF Role
<1>4. QED BY <1>1, <1>2, <1>3, PrependKeepsPaired DEF Sound, HeadIsNoCall

\* An empty history pairs every call with its results.
LEMMA PairingInit == Init => PairingInv
<1> SUFFICES ASSUME Init PROVE PairingInv
  OBVIOUS
<1>1. TypeOK
  BY InitType
<1>2. Sound(history)
  BY EmptySeq DEF Init, Sound, Paired, HeadIsNoCall
<1>3. \A c \in Caller : compaction[c].attempts = 0
  BY DEF Init, NoCompaction
<1>4. QED BY <1>1, <1>2, <1>3
          DEF PairingInv, TailsAreSuffixes, CompactionsAreAlone, CallsAreLast,
              Init, Compacting, Caller

\* A step of the run outside of compaction leaves PairingInv to the history
\* and, where tools are about to run, to the last message.
LEMMA LoopStepPairing ==
    ASSUME PairingInv, TypeOK', Sound(history'), pc \notin {"idle", "summarising"},
           pc' # "idle" => history' # <<>>,
           CallsAreLast',
           compaction' = compaction \/ EndRun
    PROVE  PairingInv'
<1>1. \A c \in Caller : compaction[c].attempts = 0
  BY NoneCompacting DEF PairingInv
<1>2. \A c \in Caller : compaction'[c].attempts = 0
  BY <1>1, EndRunQuiet DEF PairingInv
<1>3. TailsAreSuffixes' /\ CompactionsAreAlone'
  BY <1>2, QuietStep
<1>4. QED BY <1>3 DEF PairingInv, Sound, HeadIsNoCall, Paired

\* Every step keeps the calls of the history paired with their results.
LEMMA PairingNext ==
    ASSUME StreamingCommands = {}, PairingInv, [Next]_vars
    PROVE  PairingInv'
<1> USE LoopAssumption
<1>0. /\ TypeOK /\ Sound(history) /\ CompactionsAreAlone /\ CallsAreLast
      /\ pc # "idle" => history # <<>>
  BY DEF PairingInv
<1>t. TypeOK'
  BY <1>0, NextType
<1>b. envInjected \in BOOLEAN /\ ltmInjected \in BOOLEAN /\ HasMemory \in BOOLEAN
  BY <1>0 DEF TypeOK, LoopAssumption
<1>1. CASE Submit
  <2>1. Sound(Append(history, Text("user"))) /\ Append(history, Text("user")) # <<>>
    BY <1>0, AppendTextSound DEF Role
  <2>2. Sound(history') /\ history' # <<>>
    BY <2>1, <1>1, ReminderSound DEF Submit
  <2>3. \A c \in Caller : compaction[c].attempts \in 0..3
    BY <1>0 DEF TypeOK
  <2>4. \A c \in Caller : compaction'[c].attempts = 0
    BY <2>3, <1>0, <1>1 DEF Submit, AcceptsPrompt, CompactionsAreAlone, Compacting, Caller
  <2>5. TailsAreSuffixes' /\ CompactionsAreAlone'
    BY <2>4, QuietStep
  <2>6. CallsAreLast'
    BY <1>1 DEF Submit, CallsAreLast
  <2>7. QED BY <2>2, <2>5, <2>6, <1>t DEF PairingInv, Sound, HeadIsNoCall, Paired
<1>2. CASE Begin
  <2>1. LoadsMemory \in BOOLEAN
    BY <1>b DEF LoadsMemory, LoopAssumption
  <2>2. history # <<>> /\ history \in Seq(Message)
    BY <1>0, <1>2 DEF Begin, Sound
  <2> DEFINE g == InjectLtm(InjectEnv(history, envInjected), TRUE, ltmInjected, LoadsMemory)
  <2>3. Sound(g) /\ g # <<>>
    BY <2>1, <2>2, <1>0, <1>b, InjectionSound, InjectionNotEmpty
  <2>4. history' \in WithOptionalReminder(g)
    BY <1>2 DEF Begin
  <2> HIDE DEF g
  <2>5. Sound(history') /\ history' # <<>>
    BY <2>3, <2>4, ReminderSound
  <2>6. CallsAreLast' /\ compaction' = compaction /\ pc \notin {"idle", "summarising"}
    BY <1>2 DEF Begin, CallsAreLast
  <2>7. QED BY <2>5, <2>6, <1>t, LoopStepPairing
<1>3. CASE IterationLimit
  <2>1. history' = history /\ EndRun /\ pc' = "idle" /\ pc \notin {"idle", "summarising"}
    BY <1>3 DEF IterationLimit, conversation, EndRun
  <2>2. QED BY <2>1, <1>0, <1>t, LoopStepPairing DEF CallsAreLast
<1>4. CASE TurnTop
  <2>1. PICK h \in WithOptionalReminder(history) :
          /\ history' = h
          /\ \/ pc' = "send" /\ UNCHANGED compaction
             \/ StartCompaction("run", h) /\ pc' = "summarising"
    BY <1>4 DEF TurnTop
  <2>2. Sound(h) /\ h # <<>>
    BY <2>1, <1>0, <1>4, ReminderSound DEF TurnTop
  <2>3. CallsAreLast' /\ pc = "top"
    BY <2>1, <1>4 DEF CallsAreLast, TurnTop
  <2>4. CASE compaction' = compaction
    BY <2>1, <2>2, <2>3, <2>4, <1>t, LoopStepPairing
  <2>5. CASE StartCompaction("run", h) /\ pc' = "summarising"
    <3>1. /\ \E s \in 1..Len(h) : /\ h[s].role # "results"
                                  /\ compaction'["run"].tail = KeptTail(h, s)
          /\ compaction'["command"] = compaction["command"]
      BY <2>2, <2>5, <1>0, StartCompactionTail DEF Caller
    <3>2. compaction["command"].attempts = 0
      BY <2>3, <1>0, NoneCompacting DEF Caller
    <3>3. TailsAreSuffixes'
      BY <3>1, <3>2, <2>1 DEF TailsAreSuffixes, Compacting, Caller
    <3>4. CompactionsAreAlone'
      BY <3>1, <3>2, <2>5 DEF CompactionsAreAlone, Compacting
    <3>5. QED BY <3>3, <3>4, <2>1, <2>2, <2>3, <1>t
              DEF PairingInv
  <2>6. QED BY <2>1, <2>4, <2>5
<1>5. CASE Reinject
  <2>1. history # <<>> /\ history \in Seq(Message)
    BY <1>0, <1>5 DEF Reinject, Sound
  <2>2. Sound(history') /\ history' # <<>>
    BY <2>1, <1>0, <1>b, <1>5, InjectionSound, InjectionNotEmpty DEF Reinject
  <2>3. CallsAreLast' /\ compaction' = compaction /\ pc \notin {"idle", "summarising"}
    BY <1>5 DEF Reinject, CallsAreLast
  <2>4. QED BY <2>2, <2>3, <1>t, LoopStepPairing
<1>6. CASE Send
  <2>1. Sound(history') /\ history' # <<>>
    BY <1>0, <1>6, ReminderSound DEF Send
  <2>2. CallsAreLast' /\ compaction' = compaction /\ pc \notin {"idle", "summarising"}
    BY <1>6 DEF Send, CallsAreLast
  <2>3. QED BY <2>1, <2>2, <1>t, LoopStepPairing
<1>7. CASE OutputLimit
  <2>1. history # <<>>
    BY <1>0, <1>7 DEF OutputLimit
  <2>2. Sound(history') /\ history' # <<>>
    BY <2>1, <1>0, <1>7, RoundSound DEF OutputLimit
  <2>3. CallsAreLast' /\ compaction' = compaction /\ pc \notin {"idle", "summarising"}
    BY <1>7 DEF OutputLimit, CallsAreLast
  <2>4. QED BY <2>2, <2>3, <1>t, LoopStepPairing
<1>8. CASE FinalAnswer
  <2>1. Sound(history') /\ history' # <<>>
    BY <1>0, <1>8, AppendTextSound DEF FinalAnswer, Role
  <2>2. CallsAreLast' /\ (compaction' = compaction \/ EndRun)
    BY <1>8 DEF FinalAnswer, CallsAreLast, EndRun
  <2>3. pc \notin {"idle", "summarising"}
    BY <1>8 DEF FinalAnswer
  <2>4. QED BY <2>1, <2>2, <2>3, <1>t, LoopStepPairing
<1>9. CASE ToolResponse
  <2>1. PICK ids \in SUBSET FreshIds :
          history' = Append(history, CallMsg(ids)) /\ toolCalls' = ids
    BY <1>9 DEF ToolResponse
  <2>2. CallMsg(ids) \in Message /\ CallMsg(ids).role = "call"
    BY <2>1 DEF FreshIds, CallMsg, Message, Role
  <2>3. history # <<>> /\ history \in Seq(Message) /\ Paired(history)
    BY <1>0, <1>9 DEF ToolResponse, Sound
  <2>4. /\ Len(history') = Len(history) + 1 /\ Len(history) \in Nat
        /\ Len(history) >= 1
        /\ \A i \in 1..Len(history) : history'[i] = history[i]
        /\ history'[Len(history) + 1] = CallMsg(ids)
    BY <2>1, <2>2, <2>3, AppendProperties, LenProperties, EmptySeq
  <2>5. history' \in Seq(Message) /\ Paired(history')
    BY <2>1, <2>2, <2>3, AppendKeepsPaired
  <2>6. history' # <<>> /\ history'[1] = history[1]
    BY <2>4, EmptySeq
  <2>7. Sound(history')
    BY <2>3, <2>5, <2>6, <1>0 DEF Sound, HeadIsNoCall
  <2>8. CallsAreLast'
    BY <2>1, <2>4, <2>6 DEF CallsAreLast
  <2>9. compaction' = compaction /\ pc \notin {"idle", "summarising"}
    BY <1>9 DEF ToolResponse
  <2>10. QED BY <2>6, <2>7, <2>8, <2>9, <1>t, LoopStepPairing
<1>10. CASE ExecuteCall
  <2>1. /\ history' = history /\ toolCalls' = toolCalls /\ pc' = pc
        /\ compaction' = compaction /\ pc \notin {"idle", "summarising"}
    BY <1>10 DEF ExecuteCall, conversation
  <2>2. QED BY <2>1, <1>0, <1>t, LoopStepPairing DEF CallsAreLast
<1>11. CASE TooManyUnknown
  <2>1. history' = history /\ EndRun /\ pc' = "idle" /\ pc \notin {"idle", "summarising"}
    BY <1>11 DEF TooManyUnknown, conversation, EndRun
  <2>2. QED BY <2>1, <1>0, <1>t, LoopStepPairing DEF CallsAreLast
<1>12. CASE AddResults
  <2>1. history # <<>> /\ history[Len(history)] = CallMsg(toolCalls)
    BY <1>0, <1>12 DEF AddResults, CallsAreLast
  <2>2. toolCalls \in SUBSET CallId
    BY <1>0 DEF TypeOK
  <2>3. history' = Append(history, ResultsMsg(toolCalls))
    BY <1>12 DEF AddResults
  <2>4. history' \in Seq(Message) /\ Paired(history')
    BY <2>1, <2>2, <2>3, <1>0, AppendResultsKeepsPaired DEF Sound
  <2>5. ResultsMsg(toolCalls) \in Message
    BY <2>2 DEF ResultsMsg, Message, Role
  <2>6. /\ Len(history') = Len(history) + 1 /\ Len(history) \in Nat
        /\ Len(history) >= 1
        /\ \A i \in 1..Len(history) : history'[i] = history[i]
    BY <2>1, <2>3, <2>5, <1>0, AppendProperties, LenProperties, EmptySeq DEF Sound
  <2>7. history' # <<>> /\ history'[1] = history[1]
    BY <2>6, EmptySeq
  <2>8. Sound(history')
    BY <2>1, <2>4, <2>7, <1>0 DEF Sound, HeadIsNoCall
  <2>9. CallsAreLast' /\ (compaction' = compaction \/ EndRun)
    BY <1>12 DEF AddResults, CallsAreLast, EndRun
  <2>10. pc \notin {"idle", "summarising"}
    BY <1>12 DEF AddResults
  <2>11. QED BY <2>7, <2>8, <2>9, <2>10, <1>t, LoopStepPairing
<1>13. CASE GatePasses
  <2>1. history' = history /\ EndRun /\ pc' = "idle" /\ pc \notin {"idle", "summarising"}
    BY <1>13 DEF GatePasses, conversation, EndRun
  <2>2. QED BY <2>1, <1>0, <1>t, LoopStepPairing DEF CallsAreLast
<1>14. CASE GateFails
  <2>1. pc \notin {"idle", "summarising"} /\ history # <<>>
    BY <1>0, <1>14 DEF GateFails
  <2>2. Sound(history') /\ history' # <<>>
    BY <2>1, <1>0, <1>14, AppendTextSound DEF GateFails, Role
  <2>3. CallsAreLast' /\ (compaction' = compaction \/ EndRun)
    BY <1>14 DEF GateFails, CallsAreLast, EndRun
  <2>4. QED BY <2>1, <2>2, <2>3, <1>t, LoopStepPairing
<1>15. CASE Abort
  <2>1. history' = history /\ EndRun /\ pc' = "idle" /\ pc # "idle"
    BY <1>15 DEF Abort, conversation, EndRun
  <2>2. TailsAreSuffixes' /\ CompactionsAreAlone'
    BY <2>1, <1>0, EndRunQuiet, QuietStep
  <2>3. QED BY <2>1, <2>2, <1>0, <1>t DEF PairingInv, CallsAreLast
<1>16. ASSUME NEW c \in Caller, SummaryTooLong(c) PROVE PairingInv'
  <2>1. /\ history' = history /\ pc' = pc /\ toolCalls' = toolCalls
        /\ compaction[c].attempts \in 1..2
        /\ DOMAIN compaction = Caller
    BY <1>0, <1>16 DEF SummaryTooLong, conversation, response, TypeOK
  <2>2. PICK rest : compaction' = [compaction EXCEPT ![c].attempts = @ + 1, ![c].prompt = rest]
    BY <1>16 DEF SummaryTooLong
  <2>3. \A d \in Caller : compaction[d] \in [attempts : 0..3, prompt : Seq(Message), tail : Seq(Message)]
    BY <1>0 DEF TypeOK
  <2>4. \A d \in Caller : /\ compaction'[d].tail = compaction[d].tail
                          /\ compaction'[d].attempts > 0 => compaction[d].attempts > 0
    BY <2>1, <2>2, <2>3
  <2>5. TailsAreSuffixes' /\ CompactionsAreAlone'
    BY <2>1, <2>4 DEF PairingInv, TailsAreSuffixes, CompactionsAreAlone, Compacting, Caller
  <2>6. QED BY <2>1, <2>5, <1>0, <1>t DEF PairingInv, CallsAreLast
<1>17. ASSUME NEW c \in Caller, SummaryFails(c) PROVE PairingInv'
  <2>1. /\ Compacting(c) /\ history' = history /\ toolCalls' = toolCalls
        /\ compaction' = [compaction EXCEPT ![c] = NoCompaction]
        /\ pc' = IF c = "run" THEN "send" ELSE pc
    BY <1>17 DEF SummaryFails, conversation, response
  <2>2. TailsAreSuffixes' /\ CompactionsAreAlone'
    BY <2>1, <1>0, LastCompaction, QuietStep
  <2>3. pc' = pc \/ (pc' = "send" /\ pc = "summarising")
    BY <2>1, <1>0 DEF CompactionsAreAlone, Caller
  <2>4. QED BY <2>1, <2>2, <2>3, <1>0, <1>t DEF PairingInv, CallsAreLast
<1>18. ASSUME NEW c \in Caller, SummaryDone(c) PROVE PairingInv'
  <2> DEFINE rebuilt == <<Text("user")>> \o compaction[c].tail
             withEnv == InjectEnv(rebuilt, FALSE)
             deferred == c = "run" /\ Interactive
             withLtm == c = "command" /\ HasMemory
  <2>1. /\ Compacting(c)
        /\ history' = IF deferred THEN rebuilt ELSE InjectLtm(withEnv, TRUE, FALSE, withLtm)
        /\ pc' = IF c = "command" THEN pc ELSE IF deferred THEN "compacted" ELSE "send"
        /\ compaction' = [compaction EXCEPT ![c] = NoCompaction]
    BY <1>18 DEF SummaryDone
  <2>2. Sound(rebuilt) /\ rebuilt # <<>>
    BY <2>1, RebuiltSound
  <2>3. withLtm \in BOOLEAN
    BY <1>b
  <2> HIDE DEF rebuilt, withLtm, deferred
  <2>4. /\ Sound(InjectLtm(withEnv, TRUE, FALSE, withLtm))
        /\ InjectLtm(withEnv, TRUE, FALSE, withLtm) # <<>>
    BY <2>2, <2>3, InjectionSound, InjectionNotEmpty DEF Sound
  <2>5. Sound(history') /\ history' # <<>>
    BY <2>1, <2>2, <2>4
  <2>6. TailsAreSuffixes' /\ CompactionsAreAlone'
    BY <2>1, <1>0, LastCompaction, QuietStep
  <2>7. pc' # "tools"
    BY <2>1, <1>0 DEF CompactionsAreAlone, Caller
  <2>8. QED BY <2>5, <2>6, <2>7, <1>t DEF PairingInv, CallsAreLast
<1>19. CASE CompactCommand
  <2>1. /\ pc = "idle" /\ pc' = pc /\ history' = history
        /\ StartCompaction("command", history)
    BY <1>19 DEF CompactCommand, CommandAllowed, conversation
  <2>2. /\ \E s \in 1..Len(history) : /\ history[s].role # "results"
                                      /\ compaction'["command"].tail = KeptTail(history, s)
        /\ compaction'["run"] = compaction["run"]
    BY <2>1, <1>0, StartCompactionTail DEF Caller
  <2>3. ~(compaction["run"].attempts > 0)
    BY <2>1, <1>0 DEF CompactionsAreAlone, Compacting
  <2>4. TailsAreSuffixes' /\ CompactionsAreAlone'
    BY <2>1, <2>2, <2>3 DEF TailsAreSuffixes, CompactionsAreAlone, Compacting, Caller
  <2>5. QED BY <2>1, <2>4, <1>0, <1>t DEF PairingInv, CallsAreLast
<1>20. CASE Rewind
  <2>1. /\ pc = "idle" /\ pc' = pc /\ compaction' = compaction
        /\ ~Compacting("command")
    BY <1>20 DEF Rewind, CommandAllowed
  <2>2. PICK n \in 0..Len(history) : history' = SubSeq(history, 1, n)
    BY <1>20 DEF Rewind
  <2>3. Sound(history')
    BY <2>2, <1>0, PrefixSound
  <2>4. \A c \in Caller : compaction[c].attempts \in 0..3
    BY <1>0 DEF TypeOK
  <2>5. \A c \in Caller : compaction'[c].attempts = 0
    BY <2>1, <2>4, <1>0 DEF CompactionsAreAlone, Compacting, Caller
  <2>6. TailsAreSuffixes' /\ CompactionsAreAlone'
    BY <2>5, QuietStep
  <2>7. QED BY <2>1, <2>3, <2>6, <1>t DEF PairingInv, CallsAreLast
<1>21. CASE UNCHANGED vars
  BY <1>21, <1>t
     DEF vars, conversation, counters, response, gate, PairingInv, CallsAreLast,
         TailsAreSuffixes, CompactionsAreAlone, Compacting
<1>22. QED
  BY <1>1, <1>2, <1>3, <1>4, <1>5, <1>6, <1>7, <1>8, <1>9, <1>10, <1>11, <1>12,
     <1>13, <1>14, <1>15, <1>16, <1>17, <1>18, <1>19, <1>20, <1>21
     DEF Next, LoopStep, Compaction

\* A results message never stands apart from the message that made its calls,
\* as long as chat commands are only given between runs (on_chat_input_submitted
\* does not ensure that).
THEOREM ResultsStayWithCalls ==
    ASSUME StreamingCommands = {}
    PROVE  Spec => []ResultsFollowCall
<1>1. Init => PairingInv
  BY PairingInit
<1>2. PairingInv /\ [Next]_vars => PairingInv'
  BY PairingNext
<1>3. PairingInv => ResultsFollowCall
  BY DEF PairingInv, Sound, ResultsFollowCall
<1>4. QED BY <1>1, <1>2, <1>3, PTL DEF Spec

\* The tail that auto_compact puts back is the end of the history at that
\* moment: nothing added while the summary was awaited is dropped.
THEOREM NothingLostToCompaction ==
    ASSUME StreamingCommands = {}
    PROVE  Spec => []KeptTailIsCurrent
<1>1. Init => PairingInv
  BY PairingInit
<1>2. PairingInv /\ [Next]_vars => PairingInv'
  BY PairingNext
<1>3. PairingInv => KeptTailIsCurrent
  <2> SUFFICES ASSUME PairingInv, NEW c \in Caller, Compacting(c)
               PROVE  LET tail == compaction[c].tail
                      IN /\ Len(tail) <= Len(history)
                         /\ KeptTail(history, Len(history) - Len(tail) + 1) = tail
    BY DEF KeptTailIsCurrent
  <2>1. PICK s \in 1..Len(history) :
           history[s].role # "results" /\ compaction[c].tail = KeptTail(history, s)
    BY DEF PairingInv, TailsAreSuffixes
  <2>2. Len(KeptTail(history, s)) = Len(history) - s + 1 /\ Len(history) \in Nat
    BY <2>1, SuffixKeepsPaired, LenProperties DEF PairingInv, Sound
  <2>3. Len(history) - (Len(history) - s + 1) + 1 = s
    BY <2>2
  <2>4. QED BY <2>1, <2>2, <2>3
<1>4. QED BY <1>1, <1>2, <1>3, PTL DEF Spec

-----------------------------------------------------------------------------
(* Requests are well-formed.                                               *)
(*                                                                         *)
(* Of the history, a request leaves out the calls without results.  What   *)
(* is left is well-formed when results stand behind their calls and no two *)
(* messages make the same call: then a call of which something is left is  *)
(* the one whose results follow.  The same must hold of the histories that *)
(* are summarised.                                                         *)

PromptsSound ==
    \A c \in Caller : Paired(compaction[c].prompt) /\ CallsDiffer(compaction[c].prompt)

RequestInv ==
    /\ PairingInv
    /\ CallsDiffer(history)
    /\ PromptsSound
    /\ WellFormedRequest(request)

\* An empty history is sound and makes a well-formed request.
LEMMA EmptyIsSound == Paired(<<>>) /\ CallsDiffer(<<>>) /\ WellFormedRequest(<<>>)
  BY DEF Paired, CallsDiffer, WellFormedRequest

\* Texts call nothing.
LEMMA AppendTextDiffers ==
    ASSUME NEW h \in Seq(Message), CallsDiffer(h), NEW role \in Role \ {"call"}
    PROVE  CallsDiffer(Append(h, Text(role))) /\ Append(h, Text(role)) \in Seq(Message)
<1>1. Text(role) \in Message /\ Text(role).role # "call"
  BY TextIsMessage
<1> QED
  BY <1>1, AppendDiffers, AppendProperties

\* A reminder adds no call a second time.
LEMMA ReminderDiffers ==
    ASSUME NEW h \in Seq(Message), CallsDiffer(h), NEW g \in WithOptionalReminder(h)
    PROVE  CallsDiffer(g)
  BY AppendTextDiffers DEF WithOptionalReminder, Role

\* Ending a compaction, or none, leaves the histories that are summarised sound.
LEMMA EndKeepsPrompts ==
    ASSUME TypeOK, PromptsSound, NEW c \in Caller,
           compaction' \in {compaction, [compaction EXCEPT ![c] = NoCompaction]}
    PROVE  PromptsSound'
<1>1. DOMAIN compaction = Caller /\ NoCompaction.prompt = <<>>
  BY DEF TypeOK, NoCompaction
<1>2. CASE compaction' = [compaction EXCEPT ![c] = NoCompaction]
  <2>1. compaction'[c] = NoCompaction /\ \A d \in Caller \ {c} : compaction'[d] = compaction[d]
    BY <1>1, <1>2
  <2> QED
    BY <1>1, <2>1, EmptyIsSound DEF PromptsSound
<1>3. CASE compaction' = compaction
  BY <1>3 DEF PromptsSound
<1> QED
  BY <1>2, <1>3

\* A compaction that starts summarises a beginning of the history.
LEMMA StartKeepsPrompts ==
    ASSUME TypeOK, PromptsSound, NEW c \in Caller, NEW h, Sound(h), CallsDiffer(h),
           StartCompaction(c, h)
    PROVE  PromptsSound'
<1>1. PICK s \in KeepStarts(h, MinKeepMessages) :
         compaction' = [compaction EXCEPT ![c] =
              [attempts |-> 1, prompt |-> SubSeq(h, 1, s - 1), tail |-> KeptTail(h, s)]]
  BY DEF StartCompaction
<1>2. s \in 1..Len(h) /\ Len(h) \in Nat
  BY KeepStartsType, LoopAssumption, LenProperties DEF LoopAssumption, Sound
<1>3. s - 1 \in 0..Len(h) /\ 1 \in 1..(Len(h) + 1)
  BY <1>2
<1>4. Paired(SubSeq(h, 1, s - 1)) /\ CallsDiffer(SubSeq(h, 1, s - 1))
  BY <1>3, PrefixKeepsPaired, SubSeqDiffers DEF Sound
<1>5. \A d \in Caller : compaction'[d].prompt \in {compaction[d].prompt, SubSeq(h, 1, s - 1)}
  BY <1>1 DEF TypeOK
<1> QED
  BY <1>4, <1>5 DEF PromptsSound

\* The histories that are summarised stay sound.
LEMMA PromptsNext ==
    ASSUME RequestInv, [Next]_vars
    PROVE  PromptsSound'
<1>0. TypeOK /\ Sound(history) /\ CallsDiffer(history) /\ PromptsSound
  BY DEF RequestInv, PairingInv
<1> USE DEF Caller
<1>1. CASE compaction' = compaction \/ EndRun
  BY <1>0, <1>1, EndKeepsPrompts DEF EndRun
<1>2. CASE TurnTop
  <2>1. PICK h \in WithOptionalReminder(history) :
           UNCHANGED compaction \/ StartCompaction("run", h)
    BY <1>2 DEF TurnTop
  <2>2. Sound(h) /\ CallsDiffer(h)
    BY <1>0, <2>1, ReminderSound, ReminderDiffers DEF Sound
  <2> QED
    BY <1>0, <1>1, <2>1, <2>2, StartKeepsPrompts
<1>3. ASSUME NEW c \in Caller, SummaryTooLong(c) PROVE PromptsSound'
  <2>1. PICK rest \in WithoutOldestGroup(compaction[c].prompt) :
           compaction' = [compaction EXCEPT ![c].attempts = @ + 1, ![c].prompt = rest]
    BY <1>3 DEF SummaryTooLong
  <2>2. \A d \in Caller : compaction[d] \in [attempts : 0..3, prompt : Seq(Message), tail : Seq(Message)]
    BY <1>0 DEF TypeOK
  <2>3. Paired(rest) /\ CallsDiffer(rest)
    BY <1>0, <2>1, <2>2, OldestGroupCutsNoPair DEF PromptsSound
  <2>4. \A d \in Caller : compaction'[d].prompt \in {compaction[d].prompt, rest}
    <3>1. DOMAIN compaction = Caller
      BY <1>0 DEF TypeOK
    <3> QED
      BY <2>1, <2>2, <3>1
  <2> QED
    BY <1>0, <2>3, <2>4 DEF PromptsSound
<1>4. ASSUME NEW c \in Caller, SummaryFails(c) \/ SummaryDone(c) PROVE PromptsSound'
  BY <1>0, <1>4, EndKeepsPrompts DEF SummaryFails, SummaryDone
<1>5. CASE CompactCommand
  BY <1>0, <1>5, StartKeepsPrompts DEF CompactCommand
<1>6. ~(TurnTop \/ CompactCommand \/ Compaction) => compaction' = compaction \/ EndRun
  BY DEF Next, LoopStep, Submit, Begin, IterationLimit, Reinject, Send, OutputLimit,
         FinalAnswer, ToolResponse, ExecuteCall, TooManyUnknown, AddResults, GatePasses,
         GateFails, Abort, Rewind, vars, response
<1> QED
  BY <1>1, <1>2, <1>3, <1>4, <1>5, <1>6 DEF Compaction

\* No two messages make the same call.
LEMMA DiffersNext ==
    ASSUME RequestInv, [Next]_vars
    PROVE  CallsDiffer(history')
<1>0. /\ TypeOK /\ Sound(history) /\ CallsDiffer(history) /\ history \in Seq(Message)
      /\ PairingInv
  BY DEF RequestInv, PairingInv, Sound
<1>b. envInjected \in BOOLEAN /\ ltmInjected \in BOOLEAN /\ HasMemory \in BOOLEAN
      /\ LoadsMemory \in BOOLEAN
  BY <1>0, LoopAssumption DEF TypeOK, LoopAssumption, LoadsMemory
<1>1. CASE history' = history
  BY <1>0, <1>1
<1>2. CASE Submit
  BY <1>0, <1>2, AppendTextDiffers, ReminderDiffers DEF Submit, Role
<1>3. CASE Begin
  <2> DEFINE g == InjectLtm(InjectEnv(history, envInjected), TRUE, ltmInjected, LoadsMemory)
  <2>1. CallsDiffer(g) /\ g \in Seq(Message)
    BY <1>0, <1>b, InjectionDiffers, InjectEnvType, InjectLtmType
  <2>2. history' \in WithOptionalReminder(g)
    BY <1>3 DEF Begin
  <2> HIDE DEF g
  <2> QED
    BY <2>1, <2>2, ReminderDiffers
<1>4. CASE TurnTop \/ Send
  BY <1>0, <1>4, ReminderDiffers DEF TurnTop, Send
<1>5. CASE Reinject
  BY <1>0, <1>b, <1>5, InjectionDiffers DEF Reinject
<1>6. CASE OutputLimit
  <2>1. Append(Append(history, Text("assistant")), Text("user"))
          = history \o <<Text("assistant"), Text("user")>>
    BY <1>0, TextType DEF Role
  <2>2. CallsDiffer(Append(Append(history, Text("assistant")), Text("user")))
    BY <1>0, AppendTextDiffers DEF Role
  <2> QED
    BY <1>0, <1>6, <2>1, <2>2 DEF OutputLimit
<1>7. CASE FinalAnswer
  BY <1>0, <1>7, AppendTextDiffers DEF FinalAnswer, Role
<1>8. CASE ToolResponse
  <2>1. PICK ids \in SUBSET FreshIds : ids # {} /\ history' = Append(history, CallMsg(ids))
    BY <1>8 DEF ToolResponse
  <2>2. CallMsg(ids) \in Message /\ CallMsg(ids).ids = ids
    BY <2>1 DEF FreshIds, CallMsg, Message, Role
  <2>3. \A i \in DOMAIN history : ids \cap history[i].ids = {}
    BY <2>1 DEF FreshIds
  <2> QED
    BY <1>0, <2>1, <2>2, <2>3, AppendDiffers
<1>9. CASE AddResults
  <2>1. ResultsMsg(toolCalls) \in Message /\ ResultsMsg(toolCalls).role # "call"
    BY <1>0 DEF TypeOK, ResultsMsg, Message, Role
  <2> QED
    BY <1>0, <1>9, <2>1, AppendDiffers DEF AddResults
<1>10. CASE GateFails
  BY <1>0, <1>10, AppendTextDiffers DEF GateFails, Role
<1>11. ASSUME NEW c \in Caller, SummaryDone(c) PROVE CallsDiffer(history')
  <2> DEFINE rebuilt == <<Text("user")>> \o compaction[c].tail
             withLtm == c = "command" /\ HasMemory
  <2>1. PICK s \in 1..Len(history) : compaction[c].tail = SubSeq(history, s, Len(history))
    BY <1>0, <1>11 DEF SummaryDone, PairingInv, TailsAreSuffixes, KeptTail
  <2>2. s \in 1..(Len(history) + 1) /\ Len(history) \in 0..Len(history)
    BY <1>0, <2>1, LenProperties
  <2>3. CallsDiffer(compaction[c].tail) /\ compaction[c].tail \in Seq(Message)
    BY <1>0, <2>1, <2>2, SubSeqDiffers, SubSeqType
  <2>4. Text("user") \in Message /\ Text("user").role # "call"
    BY TextIsMessage DEF Role
  <2>5. CallsDiffer(rebuilt) /\ rebuilt \in Seq(Message)
    BY <2>3, <2>4, PrependDiffers, PrependIsHistory
  <2> HIDE DEF rebuilt
  <2>6. CallsDiffer(InjectLtm(InjectEnv(rebuilt, FALSE), TRUE, FALSE, withLtm))
    BY <1>b, <2>5, InjectionDiffers
  <2>7. history' \in {rebuilt, InjectLtm(InjectEnv(rebuilt, FALSE), TRUE, FALSE, withLtm)}
    BY <1>11 DEF SummaryDone, rebuilt
  <2> QED
    BY <2>5, <2>6, <2>7
<1>12. CASE Rewind
  <2>1. PICK n \in 0..Len(history) : history' = SubSeq(history, 1, n)
    BY <1>12 DEF Rewind
  <2>2. 1 \in 1..(Len(history) + 1)
    BY <1>0, LenProperties
  <2> QED
    BY <1>0, <2>1, <2>2, SubSeqDiffers
<1>13. \/ history' = history \/ Submit \/ Begin \/ TurnTop \/ Send \/ Reinject \/ OutputLimit
       \/ FinalAnswer \/ ToolResponse \/ AddResults \/ GateFails
       \/ \E c \in Caller : SummaryDone(c)
       \/ Rewind
  BY DEF Next, LoopStep, Compaction, IterationLimit, ExecuteCall, TooManyUnknown, GatePasses,
         Abort, SummaryTooLong, SummaryFails, CompactCommand, vars, conversation
<1> QED
  BY <1>1, <1>2, <1>3, <1>4, <1>5, <1>6, <1>7, <1>8, <1>9, <1>10, <1>11, <1>12, <1>13

\* A request is what is left of the history when it is sent; it is gone when the
\* response is there.
LEMMA RequestNext ==
    ASSUME RequestInv, PairingInv', CallsDiffer(history'), [Next]_vars
    PROVE  WellFormedRequest(request')
<1>1. CASE Send
  <2>1. history' \in Seq(Message) /\ Paired(history')
    BY DEF PairingInv, Sound
  <2> QED
    BY <1>1, <2>1, FilteredIsWellFormed DEF Send
<1>2. CASE request' \in {request, <<>>}
  BY <1>2, EmptyIsSound DEF RequestInv
<1>3. Send \/ request' \in {request, <<>>}
  BY DEF Next, LoopStep, Compaction, Submit, Begin, IterationLimit, TurnTop, Reinject,
         OutputLimit, FinalAnswer, ToolResponse, ExecuteCall, TooManyUnknown, AddResults,
         GatePasses, GateFails, Abort, SummaryTooLong, SummaryFails, SummaryDone,
         CompactCommand, Rewind, EndRun, vars
<1> QED
  BY <1>1, <1>2, <1>3

\* Whatever is compacted, cancelled or rewound between runs, a provider is only sent
\* requests that it accepts, for responses as for summaries.
THEOREM RequestsStayWellFormed ==
    ASSUME StreamingCommands = {}
    PROVE  Spec => []RequestsWellFormed
<1>1. Init => RequestInv
  <2> SUFFICES ASSUME Init PROVE RequestInv
    OBVIOUS
  <2>1. history = <<>> /\ request = <<>> /\ \A c \in Caller : compaction[c].prompt = <<>>
    BY DEF Init, NoCompaction
  <2> QED
    BY <2>1, PairingInit, EmptyIsSound DEF RequestInv, PromptsSound
<1>2. RequestInv /\ [Next]_vars => RequestInv'
  <2> SUFFICES ASSUME RequestInv, [Next]_vars PROVE RequestInv'
    OBVIOUS
  <2>1. PairingInv'
    BY PairingNext DEF RequestInv
  <2>2. CallsDiffer(history') /\ PromptsSound'
    BY DiffersNext, PromptsNext
  <2>3. WellFormedRequest(request')
    BY <2>1, <2>2, RequestNext
  <2> QED
    BY <2>1, <2>2, <2>3 DEF RequestInv
<1>3. RequestInv => RequestsWellFormed
  <2> SUFFICES ASSUME RequestInv, NEW c \in Caller
               PROVE  WellFormedRequest(FilterUnresolved(compaction[c].prompt))
    BY DEF RequestInv, RequestsWellFormed
  <2>1. compaction[c].prompt \in Seq(Message)
    BY DEF RequestInv, PairingInv, TypeOK
  <2> QED
    BY <2>1, FilteredIsWellFormed DEF RequestInv, PromptsSound
<1> QED
  BY <1>1, <1>2, <1>3, PTL DEF Spec


-----------------------------------------------------------------------------
(* The context is sent.                                                    *)
(*                                                                         *)
(* Both loops insert the context at the head of the history and only add   *)
(* behind it, or rebuild the history and insert it again before they send. *)
(* A step of either loop is one of the following for the head.             *)

Extends(g, h) == Len(g) >= Len(h) /\ \A i \in 1..Len(h) : g[i] = h[i]

\* Phases in which the context has been injected.
Settled == {"top", "summarising", "send", "streaming", "tools", "gate"}

HeadKept ==
    /\ Extends(history', history) /\ UNCHANGED <<envInjected, ltmInjected>>
    /\ pc' \in Settled => pc \in Settled
    /\ pc' = "streaming" => pc = "streaming" /\ request' = request

HeadSent ==
    /\ Extends(history', history) /\ UNCHANGED <<envInjected, ltmInjected>>
    /\ pc = "send" /\ request' = FilterUnresolved(history')

HeadInjected(memory) ==
    /\ Extends(history', InjectLtm(InjectEnv(history, envInjected), TRUE, ltmInjected, memory))
    /\ envInjected' = TRUE /\ ltmInjected' = (ltmInjected \/ memory)
    /\ pc' \in {"top", "send"}

\* After a compaction; the chat's run injects in a step of its own.
HeadRebuilt(memory) ==
    /\ \E rest \in Seq(Message) : rest # <<>> /\
          history' = InjectLtm(InjectEnv(rest, FALSE), TRUE, FALSE, memory)
    /\ envInjected' = TRUE /\ ltmInjected' = memory
    /\ pc' = "streaming" => pc = "streaming" /\ request' = request

HeadPending == envInjected' = FALSE /\ ltmInjected' = FALSE /\ pc' = "compacted"

HeadStep(chat) ==
    \/ HeadKept \/ HeadSent \/ HeadPending
    \/ \E memory \in BOOLEAN : (chat => memory = HasMemory)
                               /\ (HeadInjected(memory) \/ HeadRebuilt(memory))

RunCompacts == Compacting("run") => pc = "summarising"

\* Whatever is appended stays behind the head.
LEMMA AppendExtends ==
    ASSUME NEW h \in Seq(Message), NEW m \in Message
    PROVE  Extends(Append(h, m), h) /\ Append(h, m) \in Seq(Message)
  BY AppendProperties, LenProperties DEF Extends

\* What extends an extension extends the history.
LEMMA ExtendsTwice ==
    ASSUME NEW f \in Seq(Message), NEW g \in Seq(Message), NEW h \in Seq(Message),
           Extends(g, f), Extends(h, g)
    PROVE  Extends(h, f)
<1>1. Len(f) \in Nat /\ Len(g) \in Nat /\ Len(h) \in Nat
  BY LenProperties
<1> QED
  BY <1>1 DEF Extends

\* A reminder is added behind the head.
LEMMA ReminderExtends ==
    ASSUME NEW h \in Seq(Message), NEW g \in WithOptionalReminder(h)
    PROVE  Extends(g, h) /\ g \in Seq(Message)
<1>1. Text("user") \in Message
  BY TextIsMessage DEF Role
<1>2. Extends(h, h)
  <2>1. Len(h) \in Nat
    BY LenProperties
  <2> QED
    BY <2>1 DEF Extends
<1> QED
  BY <1>1, <1>2, AppendExtends DEF WithOptionalReminder

\* The steps of Agent.run, and those that run_to_completion has in common with it.
LEMMA LoopHead ==
    ASSUME TypeOK, RunCompacts, Submit \/ LoopStep \/ Compaction \/ Abort \/ CompactCommand
    PROVE  HeadStep(Interactive)
<1>0. /\ history \in Seq(Message) /\ envInjected \in BOOLEAN /\ ltmInjected \in BOOLEAN
      /\ HasMemory \in BOOLEAN /\ Interactive \in BOOLEAN
  BY LoopAssumption DEF TypeOK, LoopAssumption
<1>m. /\ Text("user") \in Message /\ Text("assistant") \in Message
      /\ \A ids \in SUBSET CallId : CallMsg(ids) \in Message /\ ResultsMsg(ids) \in Message
  BY TextIsMessage DEF Role, CallMsg, ResultsMsg, Message
<1>s. Extends(history, history)
  <2>1. Len(history) \in Nat
    BY <1>0, LenProperties
  <2> QED
    BY <2>1 DEF Extends
<1>1. CASE Submit
  <2>1. Extends(history', history)
    BY <1>0, <1>1, <1>m, AppendExtends, ReminderExtends, ExtendsTwice DEF Submit
  <2> QED
    BY <1>1, <2>1 DEF Submit, HeadStep, HeadKept, Settled
<1>2. CASE Begin
  <2> DEFINE g == InjectLtm(InjectEnv(history, envInjected), TRUE, ltmInjected, LoadsMemory)
  <2>1. LoadsMemory \in BOOLEAN /\ (Interactive => LoadsMemory = HasMemory)
    BY <1>0 DEF LoadsMemory
  <2>2. g \in Seq(Message)
    BY <1>0, <2>1, InjectEnvType, InjectLtmType
  <2>3. history' \in WithOptionalReminder(g)
    BY <1>2 DEF Begin
  <2>4. Extends(history', g)
    <3> HIDE DEF g
    <3> QED
      BY <2>2, <2>3, ReminderExtends
  <2>5. HeadInjected(LoadsMemory)
    BY <1>2, <2>4 DEF Begin, HeadInjected
  <2> QED
    BY <2>1, <2>5 DEF HeadStep
<1>3. CASE IterationLimit \/ ExecuteCall \/ TooManyUnknown \/ GatePasses \/ Abort \/ CompactCommand
  <2>1. history' = history /\ UNCHANGED <<envInjected, ltmInjected>>
    BY <1>3 DEF IterationLimit, ExecuteCall, TooManyUnknown, GatePasses, Abort, CompactCommand,
                conversation
  <2>2. pc' = "idle" \/ (pc' = pc /\ request' = request)
    BY <1>3 DEF IterationLimit, ExecuteCall, TooManyUnknown, GatePasses, Abort, CompactCommand, EndRun
  <2> QED
    BY <1>s, <2>1, <2>2 DEF HeadStep, HeadKept, Settled
<1>4. CASE TurnTop
  <2>1. Extends(history', history)
    BY <1>0, <1>4, ReminderExtends DEF TurnTop
  <2> QED
    BY <1>4, <2>1 DEF TurnTop, HeadStep, HeadKept, Settled
<1>5. CASE Reinject
  <2> DEFINE g == InjectLtm(InjectEnv(history, envInjected), TRUE, ltmInjected, HasMemory)
  <2>1. g \in Seq(Message) /\ history' = g
    BY <1>0, <1>5, InjectEnvType, InjectLtmType DEF Reinject
  <2>2. Extends(history', g)
    <3> HIDE DEF g
    <3>1. Len(g) \in Nat
      BY <2>1, LenProperties
    <3> QED
      BY <2>1, <3>1 DEF Extends
  <2>3. HeadInjected(HasMemory)
    BY <1>5, <2>2 DEF Reinject, HeadInjected
  <2> QED
    BY <1>0, <2>3 DEF HeadStep
<1>6. CASE Send
  <2>1. Extends(history', history)
    BY <1>0, <1>6, ReminderExtends DEF Send
  <2> QED
    BY <1>6, <2>1 DEF Send, HeadStep, HeadSent
<1>7. CASE OutputLimit
  <2>1. Append(Append(history, Text("assistant")), Text("user"))
          = history \o <<Text("assistant"), Text("user")>>
    BY <1>0, <1>m
  <2>2. Extends(Append(Append(history, Text("assistant")), Text("user")), history)
    BY <1>0, <1>m, AppendExtends, ExtendsTwice
  <2>3. Extends(history', history)
    BY <1>7, <1>s, <2>1, <2>2 DEF OutputLimit
  <2> QED
    BY <1>7, <2>3 DEF OutputLimit, HeadStep, HeadKept, Settled
<1>8. CASE FinalAnswer \/ ToolResponse \/ AddResults \/ GateFails
  <2>1. toolCalls \in SUBSET CallId
    BY <1>0 DEF TypeOK
  <2>2. Extends(history', history)
    <3>1. \A m \in Message : Extends(Append(history, m), history)
      BY <1>0, AppendExtends
    <3>2. CASE FinalAnswer \/ GateFails
      BY <1>m, <1>s, <3>1, <3>2 DEF FinalAnswer, GateFails
    <3>3. CASE ToolResponse
      <4>1. PICK ids \in SUBSET FreshIds : history' = Append(history, CallMsg(ids))
        BY <3>3 DEF ToolResponse
      <4>2. CallMsg(ids) \in Message
        BY <1>m, <4>1 DEF FreshIds
      <4> QED
        BY <3>1, <4>1, <4>2
    <3>4. CASE AddResults
      BY <1>m, <2>1, <3>1, <3>4 DEF AddResults
    <3> QED
      BY <1>8, <3>2, <3>3, <3>4
  <2>3. UNCHANGED <<envInjected, ltmInjected>> /\ pc \in Settled /\ pc' # "streaming"
    BY <1>8 DEF FinalAnswer, ToolResponse, AddResults, GateFails, EndRun, Settled
  <2> QED
    BY <2>2, <2>3 DEF HeadStep, HeadKept
<1>9. ASSUME NEW c \in Caller, SummaryTooLong(c) \/ SummaryFails(c)
      PROVE  HeadStep(Interactive)
  <2>1. history' = history /\ UNCHANGED <<envInjected, ltmInjected>> /\ request' = request
    BY <1>9 DEF SummaryTooLong, SummaryFails, conversation
  <2>2. pc' = pc \/ (pc' = "send" /\ pc = "summarising")
    BY <1>9 DEF SummaryTooLong, SummaryFails, RunCompacts, Caller
  <2> QED
    BY <1>s, <2>1, <2>2 DEF HeadStep, HeadKept, Settled
<1>10. ASSUME NEW c \in Caller, SummaryDone(c)
       PROVE  HeadStep(Interactive)
  <2> DEFINE rebuilt == <<Text("user")>> \o compaction[c].tail
             deferred == c = "run" /\ Interactive
             withLtm == c = "command" /\ HasMemory
  <2>1. rebuilt \in Seq(Message) /\ rebuilt # <<>>
    <3>1. compaction[c].tail \in Seq(Message)
      BY DEF TypeOK
    <3>2. <<Text("user")>> \in Seq(Message) /\ <<Text("user")>> # <<>>
      BY <1>m
    <3> QED
      BY <3>1, <3>2, ConcatProperties, ConcatEqualIffEmpty
  <2>2. /\ history' = IF deferred THEN rebuilt
                      ELSE InjectLtm(InjectEnv(rebuilt, FALSE), TRUE, FALSE, withLtm)
        /\ envInjected' = ~deferred /\ ltmInjected' = withLtm
        /\ pc' = IF c = "command" THEN pc ELSE IF deferred THEN "compacted" ELSE "send"
        /\ request' = request
    BY <1>10 DEF SummaryDone
  <2>3. CASE deferred
    BY <2>2, <2>3 DEF HeadStep, HeadPending
  <2>4. CASE ~deferred
    <3>1. withLtm \in BOOLEAN /\ (Interactive => withLtm = HasMemory)
      BY <1>0, <2>4 DEF Caller
    <3>2. envInjected' = TRUE /\ (pc' = "streaming" => pc = "streaming")
      BY <2>2, <2>4
    <3> HIDE DEF rebuilt, withLtm
    <3>3. HeadRebuilt(withLtm)
      BY <2>1, <2>2, <2>4, <3>2 DEF HeadRebuilt
    <3> QED
      BY <3>1, <3>3 DEF HeadStep
  <2> QED
    BY <2>3, <2>4
<1> QED
  BY <1>1, <1>2, <1>3, <1>4, <1>5, <1>6, <1>7, <1>8, <1>9, <1>10 DEF LoopStep, Compaction

\* What Agent.run and run_to_completion do alike; the instance of the second names
\* the operators anew.
LEMMA SubOperators ==
    /\ Sub!Message = Message
    /\ \A h : Sub!WithOptionalReminder(h) = WithOptionalReminder(h)
    /\ \A h : Sub!FilterUnresolved(h) = FilterUnresolved(h)
    /\ \A h : \A a, b, c \in BOOLEAN : /\ Sub!InjectEnv(h, a) = InjectEnv(h, a)
                                       /\ Sub!InjectLtm(h, a, b, c) = InjectLtm(h, a, b, c)
    /\ \A role : Sub!Text(role) = Text(role)
    /\ \A ids : Sub!CallMsg(ids) = CallMsg(ids) /\ Sub!ResultsMsg(ids) = ResultsMsg(ids)
    /\ Sub!NoCompaction = NoCompaction
<1>1. Sub!Message = Message
  BY DEF Sub!Message, Message, Sub!Role, Role
<1>2. \A h : Sub!WithOptionalReminder(h) = WithOptionalReminder(h)
  BY DEF Sub!WithOptionalReminder, WithOptionalReminder, Sub!Text, Text
<1>3. \A h : Sub!FilterUnresolved(h) = FilterUnresolved(h)
  BY DEF Sub!FilterUnresolved, FilterUnresolved, Sub!AnsweredIds, AnsweredIds, Sub!CallMsg, CallMsg
<1>4. \A role : Sub!Text(role) = Text(role)
  BY DEF Sub!Text, Text
<1>5. ASSUME NEW h, NEW a \in BOOLEAN, NEW b \in BOOLEAN, NEW c \in BOOLEAN
      PROVE  /\ Sub!InjectEnv(h, a) = InjectEnv(h, a)
             /\ Sub!InjectLtm(h, a, b, c) = InjectLtm(h, a, b, c)
  <2>1. Sub!InjectEnv(h, a) = InjectEnv(h, a)
    BY <1>4 DEF Sub!InjectEnv, InjectEnv
  <2>2. Sub!InsertAt(h, 2, Text("ltm")) = InsertAt(h, 2, Text("ltm"))
    BY DEF Sub!InsertAt, InsertAt
  <2>3. Sub!InjectLtm(h, a, b, c) = InjectLtm(h, a, b, c)
    BY <1>4, <2>2 DEF Sub!InjectLtm, InjectLtm
  <2> QED
    BY <2>1, <2>3
<1>6. \A ids : Sub!CallMsg(ids) = CallMsg(ids) /\ Sub!ResultsMsg(ids) = ResultsMsg(ids)
  BY DEF Sub!CallMsg, CallMsg, Sub!ResultsMsg, ResultsMsg
<1>7. Sub!NoCompaction = NoCompaction
  BY DEF Sub!NoCompaction, NoCompaction
<1> QED
  BY <1>1, <1>2, <1>3, <1>4, <1>5, <1>6, <1>7

\* Steps of run_to_completion that are steps of Agent.run.
LEMMA CommonSteps ==
    ASSUME TypeOK
    PROVE
    /\ Sub!Submit => Submit
    /\ Sub!IterationLimit => IterationLimit
    /\ Sub!Reinject => Reinject
    /\ Sub!Send => Send
    /\ Sub!ToolResponse => ToolResponse
    /\ Sub!ExecuteCall => ExecuteCall
    /\ Sub!GatePasses => GatePasses
    /\ Sub!GateFails => GateFails
    /\ Sub!Abort => Abort
    /\ \A c \in Caller : Sub!SummaryTooLong(c) => SummaryTooLong(c)
    /\ \A c \in Caller : Sub!SummaryFails(c) => SummaryFails(c)
<1> USE DEF Sub!conversation, conversation, Sub!counters, counters, Sub!response, response,
        Sub!gate, gate
<1>e. Sub!EndRun <=> EndRun
  BY SubOperators DEF Sub!EndRun, EndRun
<1>1. Sub!Submit => Submit
  BY SubOperators DEF Sub!Submit, Submit, Sub!AcceptsPrompt, AcceptsPrompt, Sub!Compacting, Compacting
<1>2. Sub!IterationLimit => IterationLimit
  BY <1>e DEF Sub!IterationLimit, IterationLimit, Sub!PastLimit, PastLimit,
              Sub!NextIteration, NextIteration
<1>3. TypeOK => (Sub!Reinject => Reinject)
  BY SubOperators, LoopAssumption DEF Sub!Reinject, Reinject, TypeOK, LoopAssumption
<1>4. Sub!Send => Send
  BY SubOperators DEF Sub!Send, Send
<1>5. Sub!ToolResponse => ToolResponse
  <2>1. Sub!FreshIds = FreshIds
    BY DEF Sub!FreshIds, FreshIds, Sub!Caller, Caller
  <2>2. \A S : Sub!Cardinality(S) = Cardinality(S)
    BY DEF Sub!Cardinality, Cardinality
  <2> QED
    BY <2>1, <2>2, SubOperators DEF Sub!ToolResponse, ToolResponse,
             Sub!RecoveriesAfterResponse, RecoveriesAfterResponse
<1>6. Sub!ExecuteCall => ExecuteCall
  BY DEF Sub!ExecuteCall, ExecuteCall
<1>7. Sub!GatePasses => GatePasses
  BY <1>e DEF Sub!GatePasses, GatePasses
<1>8. Sub!GateFails => GateFails
  BY <1>e, SubOperators DEF Sub!GateFails, GateFails
<1>9. Sub!Abort => Abort
  BY <1>e DEF Sub!Abort, Abort
<1>10. ASSUME NEW c \in Caller, Sub!SummaryTooLong(c)
       PROVE  SummaryTooLong(c)
  <2>1. \A p : Sub!WithoutOldestGroup(p) = WithoutOldestGroup(p)
    BY DEF Sub!WithoutOldestGroup, WithoutOldestGroup
  <2> QED
    BY <1>10, <2>1 DEF Sub!SummaryTooLong, SummaryTooLong
<1>11. ASSUME NEW c \in Caller, Sub!SummaryFails(c)
       PROVE  SummaryFails(c)
  BY <1>11, SubOperators DEF Sub!SummaryFails, SummaryFails, Sub!Compacting, Compacting
<1> QED
  BY <1>1, <1>2, <1>3, <1>4, <1>5, <1>6, <1>7, <1>8, <1>9, <1>10, <1>11

\* The others, of run_to_completion: it neither treats a cut response nor a missing
\* tool in a way of its own, and no chat command reaches it.
LEMMA SubNextCases ==
    ASSUME TypeOK, Sub!Next
    PROVE  \/ Submit \/ IterationLimit \/ Reinject \/ Send \/ ToolResponse \/ ExecuteCall
           \/ GatePasses \/ GateFails \/ Abort
           \/ \E c \in Caller : SummaryTooLong(c) \/ SummaryFails(c) \/ Sub!SummaryDone(c)
           \/ Sub!Begin \/ Sub!TurnTop \/ Sub!FinalAnswer \/ Sub!AddResults
<1>1. ~Sub!OutputLimit /\ ~Sub!TooManyUnknown /\ ~Sub!CompactCommand /\ ~Sub!Rewind
  BY DEF Sub!OutputLimit, Sub!TooManyUnknown, Sub!CompactCommand, Sub!Rewind, Sub!CommandAllowed
<1>2. Sub!Caller = Caller
  BY DEF Sub!Caller, Caller
<1> QED
  BY <1>1, <1>2, CommonSteps DEF Sub!Next, Sub!LoopStep, Sub!Compaction

\* A compaction of run_to_completion remembers histories, too.
LEMMA SubStartCompaction ==
    ASSUME TypeOK, NEW h \in Seq(Message), Sub!StartCompaction("run", h)
    PROVE  /\ compaction' \in CompactionType
           /\ compaction'["command"] = compaction["command"]
<1>1. PICK s \in Sub!KeepStarts(h, 1) :
         compaction' = [compaction EXCEPT !["run"] =
              [attempts |-> 1, prompt |-> SubSeq(h, 1, s - 1), tail |-> Sub!KeptTail(h, s)]]
  BY DEF Sub!StartCompaction
<1>2. Sub!KeepStarts(h, 1) = KeepStarts(h, 1)
  BY DEF Sub!KeepStarts, KeepStarts, Sub!RawKeepStarts, RawKeepStarts,
         Sub!AlignKeepStart, AlignKeepStart
<1>3. s \in 1..Len(h) /\ Len(h) \in Nat
  BY <1>1, <1>2, KeepStartsType, LenProperties
<1>4. SubSeq(h, 1, s - 1) \in Seq(Message) /\ Sub!KeptTail(h, s) \in Seq(Message)
  BY <1>3, SubSeqType DEF Sub!KeptTail
<1>5. compaction \in CompactionType
  BY DEF TypeOK, CompactionType
<1>6. compaction' \in CompactionType
  <2> DEFINE held == [attempts |-> 1, prompt |-> SubSeq(h, 1, s - 1), tail |-> Sub!KeptTail(h, s)]
  <2>1. held \in [attempts : 0..3, prompt : Seq(Message), tail : Seq(Message)]
    BY <1>4
  <2>2. compaction' = [compaction EXCEPT !["run"] = held]
    BY <1>1
  <2> HIDE DEF held
  <2> QED
    BY <1>5, <2>1, <2>2 DEF CompactionType
<1>7. compaction'["command"] = compaction["command"]
  BY <1>1, <1>5 DEF CompactionType, Caller
<1> QED
  BY <1>6, <1>7

\* The steps of run_to_completion.
LEMMA SubHead ==
    ASSUME TypeOK, RunCompacts, Sub!Next
    PROVE  HeadStep(FALSE) /\ TypeOK'
<1>0. /\ history \in Seq(Message) /\ envInjected \in BOOLEAN /\ ltmInjected \in BOOLEAN
      /\ HasMemory \in BOOLEAN /\ compaction \in CompactionType /\ toolCalls \in SUBSET CallId
  BY LoopAssumption DEF TypeOK, LoopAssumption, CompactionType
<1>m. /\ Text("user") \in Message /\ Text("assistant") \in Message
      /\ ResultsMsg(toolCalls) \in Message
  BY <1>0, TextIsMessage DEF Role, ResultsMsg, Message
<1>e. Sub!EndRun <=> EndRun
  BY SubOperators DEF Sub!EndRun, EndRun
<1>1. ASSUME Submit \/ LoopStep \/ Compaction \/ Abort
      PROVE  HeadStep(FALSE) /\ TypeOK'
  <2>1. HeadStep(Interactive)
    BY <1>1, LoopHead
  <2>2. HeadStep(FALSE)
    BY <2>1 DEF HeadStep
  <2>3. TypeOK'
    BY <1>1, NextType DEF Next
  <2> QED
    BY <2>2, <2>3
<1>2. CASE Sub!Begin
  <2> DEFINE memory == HasMemory /\ ~envInjected
             g == InjectLtm(InjectEnv(history, envInjected), TRUE, ltmInjected, memory)
  <2>1. memory \in BOOLEAN /\ Sub!LoadsMemory = memory
    BY <1>0 DEF Sub!LoadsMemory
  <2>2. g \in Seq(Message)
    BY <1>0, <2>1, InjectEnvType, InjectLtmType
  <2>3. history' \in WithOptionalReminder(g)
    <3> HIDE DEF memory
    <3> QED
      BY <1>0, <1>2, <2>1, SubOperators DEF Sub!Begin
  <2> HIDE DEF g
  <2>4. Extends(history', g) /\ history' \in Seq(Message)
    BY <2>2, <2>3, ReminderExtends
  <2>5. HeadInjected(memory)
    BY <1>2, <2>1, <2>4 DEF Sub!Begin, HeadInjected, g
  <2>6. /\ envInjected' = TRUE /\ ltmInjected' = (ltmInjected \/ memory)
        /\ iteration' = 0 /\ unknown' = 0 /\ escalated' = FALSE /\ recoveries' = 0
        /\ pc' = "top"
        /\ UNCHANGED <<toolCalls, answered, changed, verified, repairs, failures, compaction, prompts>>
    BY <1>2, <2>1 DEF Sub!Begin, Sub!response, Sub!gate
  <2>7. ltmInjected' \in BOOLEAN /\ envInjected' \in BOOLEAN /\ escalated' \in BOOLEAN
    BY <2>6
  <2>8. iteration' \in 0..MaxIterations /\ unknown' \in Nat /\ recoveries' \in 0..MaxRecoveries
        /\ pc' \in Phase
    BY <2>6, LoopAssumption DEF LoopAssumption, Phase
  <2>9. TypeOK'
    BY <2>4, <2>6, <2>7, <2>8 DEF TypeOK
  <2> QED
    BY <2>1, <2>5, <2>9 DEF HeadStep
<1>3. CASE Sub!TurnTop
  <2>1. PICK h \in WithOptionalReminder(history) :
          /\ history' = h
          /\ \/ pc' = "send" /\ UNCHANGED compaction
             \/ Sub!StartCompaction("run", h) /\ pc' = "summarising"
    BY <1>3, SubOperators DEF Sub!TurnTop
  <2>2. h \in Seq(Message) /\ Extends(history', history)
    BY <1>0, <2>1, ReminderExtends
  <2>3. /\ UNCHANGED <<envInjected, ltmInjected>> /\ pc = "top" /\ iteration' = iteration + 1
        /\ ~(iteration + 1 > MaxIterations)
        /\ UNCHANGED <<unknown, escalated, recoveries, toolCalls, answered, changed, verified,
                       repairs, failures, request, prompts>>
    BY <1>3 DEF Sub!TurnTop, Sub!PastLimit, Sub!NextIteration, Sub!response, Sub!gate
  <2>4. compaction' \in CompactionType
    BY <1>0, <2>1, <2>2, SubStartCompaction
  <2>5. iteration' \in 0..MaxIterations /\ pc' \in Phase
    BY <2>1, <2>3, LoopAssumption DEF TypeOK, LoopAssumption, Phase
  <2>6. TypeOK'
    BY <2>1, <2>2, <2>3, <2>4, <2>5 DEF TypeOK, CompactionType
  <2> QED
    BY <2>1, <2>2, <2>3, <2>6 DEF HeadStep, HeadKept, Settled
<1>4. CASE Sub!FinalAnswer
  <2>1. /\ history' = Append(history, Text("assistant")) /\ EndRun /\ pc = "streaming"
        /\ UNCHANGED <<envInjected, ltmInjected, changed, verified, repairs, failures, prompts>>
    BY <1>e, <1>4, SubOperators DEF Sub!FinalAnswer, Sub!NeedsVerification, Sub!gate
  <2>2. Extends(history', history) /\ history' \in Seq(Message)
    BY <1>0, <1>m, <2>1, AppendExtends
  <2>3. TypeOK'
    BY <2>1, <2>2, EndRunType DEF TypeOK, CompactionType
  <2>4. pc' = "idle"
    BY <2>1 DEF EndRun
  <2> QED
    BY <2>1, <2>2, <2>3, <2>4 DEF HeadStep, HeadKept, Settled
<1>5. CASE Sub!AddResults
  <2>1. /\ history' = Append(history, ResultsMsg(toolCalls)) /\ pc = "tools" /\ pc' = "top"
        /\ toolCalls' = {} /\ answered' = {}
        /\ UNCHANGED <<iteration, unknown, escalated, recoveries, compaction>>
        /\ UNCHANGED <<envInjected, ltmInjected, changed, verified, repairs, failures, prompts>>
    BY <1>5, SubOperators DEF Sub!AddResults, Sub!gate, Sub!counters
  <2>2. Extends(history', history) /\ history' \in Seq(Message)
    BY <1>0, <1>m, <2>1, AppendExtends
  <2>3. TypeOK'
    BY <2>1, <2>2 DEF TypeOK, Phase
  <2> QED
    BY <2>1, <2>2, <2>3 DEF HeadStep, HeadKept, Settled
<1>6. ASSUME NEW c \in Caller, Sub!SummaryDone(c)
      PROVE  HeadStep(FALSE) /\ TypeOK'
  <2> DEFINE rebuilt == <<Text("user")>> \o compaction[c].tail
             withLtm == c = "command" /\ HasMemory
  <2>1. rebuilt \in Seq(Message) /\ rebuilt # <<>>
    <3>1. compaction[c].tail \in Seq(Message)
      BY <1>0 DEF CompactionType
    <3>2. <<Text("user")>> \in Seq(Message) /\ <<Text("user")>> # <<>>
      BY <1>m
    <3> QED
      BY <3>1, <3>2, ConcatProperties, ConcatEqualIffEmpty
  <2>2. /\ history' = Sub!InjectLtm(Sub!InjectEnv(rebuilt, FALSE), TRUE, FALSE, withLtm)
        /\ envInjected' = TRUE /\ ltmInjected' = withLtm
        /\ pc' = IF c = "command" THEN pc ELSE "send"
        /\ failures' = 0
        /\ compaction' = [compaction EXCEPT ![c] = NoCompaction]
        /\ UNCHANGED <<iteration, unknown, escalated, recoveries, toolCalls, answered, changed,
                       verified, repairs, request, prompts>>
    BY <1>6, SubOperators DEF Sub!SummaryDone, Sub!counters, Sub!response, Sub!gate
  <2>3. withLtm \in BOOLEAN
    BY <1>0
  <2> HIDE DEF rebuilt, withLtm
  <2>4. history' = InjectLtm(InjectEnv(rebuilt, FALSE), TRUE, FALSE, withLtm)
    BY <2>2, <2>3, SubOperators
  <2>5. HeadRebuilt(withLtm)
    BY <2>1, <2>2, <2>4 DEF HeadRebuilt
  <2>6. history' \in Seq(Message)
    <3>1. InjectEnv(rebuilt, FALSE) \in Seq(Message)
      BY <2>1, InjectEnvType
    <3> QED
      BY <2>3, <2>4, <3>1, InjectLtmType
  <2>7. compaction' \in CompactionType
    BY <1>0, <2>2, NoCompactionType
  <2>8. failures' \in 0..MaxFailures /\ pc' \in Phase
    BY <2>2, LoopAssumption DEF LoopAssumption, TypeOK, Phase
  <2>9. envInjected' \in BOOLEAN /\ ltmInjected' \in BOOLEAN
    BY <2>2, <2>3
  <2>10. TypeOK'
    BY <2>2, <2>6, <2>7, <2>8, <2>9 DEF TypeOK, CompactionType
  <2> QED
    BY <2>3, <2>5, <2>10 DEF HeadStep
<1> QED
  BY <1>1, <1>2, <1>3, <1>4, <1>5, <1>6, SubNextCases DEF LoopStep, Compaction

\* A run compacts in its own phase.
LEMMA RunCompactsNext ==
    ASSUME TypeOK, RunCompacts, [Next \/ Sub!Next]_vars
    PROVE  RunCompacts'
<1>0. DOMAIN compaction = Caller /\ "run" \in Caller /\ NoCompaction.attempts = 0
  BY DEF TypeOK, Caller, NoCompaction
<1>e. Sub!EndRun <=> EndRun
  BY SubOperators DEF Sub!EndRun, EndRun
<1>1. CASE EndRun
  BY <1>0, <1>1 DEF EndRun, RunCompacts, Compacting
<1>2. CASE compaction'["run"] = compaction["run"] /\ (pc' = pc \/ pc # "summarising")
  BY <1>2 DEF RunCompacts, Compacting
<1>3. CASE TurnTop \/ Sub!TurnTop
  BY <1>2, <1>3 DEF TurnTop, Sub!TurnTop, RunCompacts
<1>4. CASE CompactCommand
  <2>1. compaction'["run"] = compaction["run"] /\ pc' = pc
    BY <1>0, <1>4 DEF CompactCommand, StartCompaction
  <2> QED
    BY <1>2, <2>1
<1>5. ASSUME NEW c \in Caller, SummaryFails(c) \/ SummaryDone(c) \/ Sub!SummaryDone(c)
      PROVE  RunCompacts'
  <2>1. compaction' = [compaction EXCEPT ![c] = NoCompaction]
    BY <1>5, SubOperators DEF SummaryFails, SummaryDone, Sub!SummaryDone
  <2>2. CASE c = "run"
    BY <1>0, <2>1, <2>2 DEF RunCompacts, Compacting
  <2>3. CASE c # "run"
    <3>1. pc' = pc
      BY <1>5, <2>3 DEF SummaryFails, SummaryDone, Sub!SummaryDone, Caller
    <3> QED
      BY <1>0, <1>2, <2>1, <2>3, <3>1
  <2> QED
    BY <2>2, <2>3
<1>6. ASSUME NEW c \in Caller, SummaryTooLong(c)
      PROVE  RunCompacts'
  <2>1. compaction[c].attempts \in 1..2 /\ pc' = pc
    BY <1>6 DEF SummaryTooLong
  <2>2. CASE c = "run"
    BY <2>1, <2>2 DEF RunCompacts, Compacting
  <2>3. CASE c # "run"
    <3>1. PICK rest : compaction' = [compaction EXCEPT ![c].attempts = @ + 1, ![c].prompt = rest]
      BY <1>6 DEF SummaryTooLong
    <3>2. compaction'["run"] = compaction["run"]
      BY <1>0, <2>3, <3>1
    <3> QED
      BY <1>2, <2>1, <3>2
  <2> QED
    BY <2>2, <2>3
<1>7. CASE Submit \/ Begin \/ Sub!Begin \/ IterationLimit \/ Reinject \/ Send \/ OutputLimit
           \/ FinalAnswer \/ ToolResponse \/ ExecuteCall \/ TooManyUnknown \/ AddResults
           \/ Sub!FinalAnswer \/ Sub!AddResults \/ GatePasses \/ GateFails \/ Abort \/ Rewind
           \/ UNCHANGED vars
  <2> DEFINE Kept == compaction' = compaction /\ (pc' = pc \/ pc # "summarising")
  <2>1. CASE Submit \/ Begin \/ Reinject \/ Send \/ OutputLimit \/ ToolResponse \/ ExecuteCall
                \/ Abort \/ Rewind \/ UNCHANGED vars
    <3>1. CASE Submit \/ Begin \/ Reinject \/ Send \/ OutputLimit
      BY <1>2, <3>1 DEF Submit, AcceptsPrompt, Begin, Reinject, Send, OutputLimit
    <3>2. CASE ToolResponse
      BY <1>2, <3>2 DEF ToolResponse
    <3>3. CASE ExecuteCall
      BY <1>2, <3>3 DEF ExecuteCall
    <3>4. CASE Rewind \/ UNCHANGED vars
      BY <1>2, <3>4 DEF Rewind, vars
    <3>5. CASE Abort
      BY <1>1, <3>5 DEF Abort
    <3> QED
      BY <2>1, <3>1, <3>2, <3>3, <3>4, <3>5
  <2>2. CASE Sub!Begin
    <3>1. Kept
      BY <2>2 DEF Sub!Begin
    <3> QED
      BY <1>2, <3>1
  <2>3. CASE IterationLimit \/ TooManyUnknown \/ GatePasses
    BY <1>1, <2>3 DEF IterationLimit, TooManyUnknown, GatePasses
  <2>4. CASE FinalAnswer
    <3>1. Kept \/ EndRun
      BY <2>4 DEF FinalAnswer
    <3> QED
      BY <1>1, <1>2, <3>1
  <2>5. CASE AddResults
    <3>1. Kept \/ EndRun
      BY <2>5 DEF AddResults
    <3> QED
      BY <1>1, <1>2, <3>1
  <2>6. CASE GateFails
    <3>1. Kept \/ EndRun
      BY <2>6 DEF GateFails
    <3> QED
      BY <1>1, <1>2, <3>1
  <2>7. CASE Sub!FinalAnswer
    <3>1. Kept \/ Sub!EndRun
      BY <2>7 DEF Sub!FinalAnswer
    <3> QED
      BY <1>1, <1>2, <1>e, <3>1
  <2>8. CASE Sub!AddResults
    <3>1. Kept \/ Sub!EndRun
      BY <2>8 DEF Sub!AddResults
    <3> QED
      BY <1>1, <1>2, <1>e, <3>1
  <2> QED
    BY <1>7, <2>1, <2>2, <2>3, <2>4, <2>5, <2>6, <2>7, <2>8
<1>8. CASE Next
  BY <1>3, <1>4, <1>5, <1>6, <1>7, <1>8 DEF Next, LoopStep, Compaction
<1>9. CASE Sub!Next
  BY <1>3, <1>5, <1>6, <1>7, <1>9, SubNextCases
<1> QED
  BY <1>7, <1>8, <1>9

\* What the flags say of the head of the history, and what they are when a request
\* is made.
ContextInv(chat) ==
    /\ envInjected => Len(history) >= 1 /\ history[1] = Text("env")
    /\ ltmInjected => envInjected /\ Len(history) > 1 /\ history[2] = Text("ltm")
    /\ pc \in Settled => envInjected /\ (chat /\ HasMemory => ltmInjected)
    /\ pc = "streaming" =>
          /\ request # <<>> /\ request[1] = Text("env")
          /\ chat /\ HasMemory => Len(request) > 1 /\ request[2] = Text("ltm")

\* Injecting what the flags say is missing.
LEMMA InjectionHead ==
    ASSUME NEW h \in Seq(Message), NEW env \in BOOLEAN, NEW ltm \in BOOLEAN,
           NEW memory \in BOOLEAN,
           env => Len(h) >= 1 /\ h[1] = Text("env"),
           ltm => env /\ Len(h) > 1 /\ h[2] = Text("ltm")
    PROVE  LET g == InjectLtm(InjectEnv(h, env), TRUE, ltm, memory)
           IN /\ g \in Seq(Message) /\ Len(g) >= 1 /\ g[1] = Text("env")
              /\ ltm \/ memory => Len(g) > 1 /\ g[2] = Text("ltm")
<1> DEFINE e == InjectEnv(h, env)
           g == InjectLtm(e, TRUE, ltm, memory)
<1>1. Text("env") \in Message /\ Text("ltm") \in Message /\ <<Text("env")>> \in Seq(Message)
      /\ Len(<<Text("env")>>) = 1 /\ <<Text("env")>>[1] = Text("env")
  BY TextIsMessage DEF Role
<1>2. e \in Seq(Message) /\ Len(e) >= 1 /\ e[1] = Text("env") /\ Len(e) \in Nat
      /\ (ltm => Len(e) > 1 /\ e[2] = Text("ltm"))
  <2>1. CASE env
    BY <2>1, LenProperties DEF InjectEnv
  <2>2. CASE ~env
    <3>1. ~ltm /\ e = <<Text("env")>> \o h /\ Len(h) \in Nat
      BY <2>2, LenProperties DEF InjectEnv
    <3> HIDE DEF e
    <3>2. e \in Seq(Message) /\ Len(e) = 1 + Len(h) /\ e[1] = Text("env")
      BY <1>1, <3>1, ConcatProperties
    <3> QED
      BY <3>1, <3>2
  <2> QED
    BY <2>1, <2>2
<1>3. e # <<>>
  BY <1>2, EmptySeq
<1>4. ASSUME ltm \/ ~memory
      PROVE  g \in Seq(Message) /\ Len(g) >= 1 /\ g[1] = Text("env")
             /\ (ltm \/ memory => Len(g) > 1 /\ g[2] = Text("ltm"))
  <2>1. g = e
    BY <1>4 DEF InjectLtm
  <2>2. ltm \/ memory => ltm
    BY <1>4
  <2>3. CASE ltm
    BY <1>2, <2>1, <2>3
  <2>4. CASE ~ltm
    BY <1>2, <2>1, <2>2, <2>4
  <2> QED
    BY <2>3, <2>4
<1>5. ASSUME ~(ltm \/ ~memory)
      PROVE  g \in Seq(Message) /\ Len(g) >= 1 /\ g[1] = Text("env")
             /\ Len(g) > 1 /\ g[2] = Text("ltm")
  <2>1. g = InsertAt(e, 2, Text("ltm"))
    BY <1>3, <1>5 DEF InjectLtm
  <2> HIDE DEF e, g
  <2>2. g \in Seq(Message) /\ Len(g) = Len(e) + 1 /\ g[1] = e[1] /\ g[2] = Text("ltm")
    BY <1>1, <1>2, <1>3, <2>1, InsertSecond
  <2> QED
    BY <1>2, <2>2
<1> HIDE DEF g
<1>6. /\ g \in Seq(Message) /\ Len(g) >= 1 /\ g[1] = Text("env")
      /\ ltm \/ memory => Len(g) > 1 /\ g[2] = Text("ltm")
  BY <1>4, <1>5
<1> QED
  BY <1>6 DEF e, g

\* The flags keep telling what is at the head of the history.
LEMMA ContextNext ==
    ASSUME TypeOK, TypeOK', NEW chat \in BOOLEAN, ContextInv(chat), HeadStep(chat)
    PROVE  ContextInv(chat)'
<1>0. /\ history \in Seq(Message) /\ envInjected \in BOOLEAN /\ ltmInjected \in BOOLEAN
      /\ HasMemory \in BOOLEAN /\ Len(history) \in Nat /\ history' \in Seq(Message)
      /\ Len(history') \in Nat
  BY LoopAssumption, LenProperties DEF TypeOK, LoopAssumption
<1> DEFINE Env(h) == Len(h) >= 1 /\ h[1] = Text("env")
           Ltm(h) == Len(h) > 1 /\ h[2] = Text("ltm")
<1>x. ASSUME NEW g \in Seq(Message), Extends(history', g)
      PROVE  (Env(g) => Env(history')) /\ (Ltm(g) => Ltm(history'))
  <2>1. Len(g) \in Nat
    BY LenProperties
  <2> QED
    BY <1>0, <1>x, <2>1 DEF Extends
<1>1. CASE HeadKept
  <2>1. (Env(history) => Env(history')) /\ (Ltm(history) => Ltm(history'))
    BY <1>0, <1>1, <1>x DEF HeadKept
  <2> QED
    BY <1>1, <2>1 DEF HeadKept, ContextInv
<1>2. CASE HeadSent
  <2>1. (Env(history) => Env(history')) /\ (Ltm(history) => Ltm(history'))
    BY <1>0, <1>2, <1>x DEF HeadSent
  <2>2. envInjected /\ (chat /\ HasMemory => ltmInjected)
    BY <1>2 DEF HeadSent, ContextInv, Settled
  <2>3. Env(history') /\ (chat /\ HasMemory => Ltm(history'))
    BY <2>1, <2>2 DEF ContextInv
  <2>4. Text("env").role # "call" /\ Text("ltm").role # "call"
    BY DEF Text
  <2>5. Len(request') \in Nat /\ Len(request') >= 1 /\ request'[1] = Text("env")
    <3>1. 1 \in 1..Len(history') /\ \A i \in 1..1 : history'[i].role # "call"
      BY <1>0, <2>3, <2>4
    <3>2. Len(request') >= 1 /\ Len(request') \in Nat /\ \A i \in 1..1 : request'[i] = history'[i]
      BY <1>0, <1>2, <3>1, FilterKeepsHead DEF HeadSent
    <3> QED
      BY <2>3, <3>2
  <2>6. chat /\ HasMemory => Len(request') > 1 /\ request'[2] = Text("ltm")
    <3> SUFFICES ASSUME chat, HasMemory
                 PROVE  Len(request') > 1 /\ request'[2] = Text("ltm")
      OBVIOUS
    <3>1. 2 \in 1..Len(history') /\ \A i \in 1..2 : history'[i].role # "call"
      BY <1>0, <2>3, <2>4
    <3>2. Len(request') >= 2 /\ Len(request') \in Nat /\ \A i \in 1..2 : request'[i] = history'[i]
      BY <1>0, <1>2, <3>1, FilterKeepsHead DEF HeadSent
    <3> QED
      BY <2>3, <3>2
  <2>7. request' # <<>>
    BY <2>5
  <2>8. envInjected' = envInjected /\ ltmInjected' = ltmInjected
    BY <1>2 DEF HeadSent
  <2> QED
    BY <2>1, <2>2, <2>5, <2>6, <2>7, <2>8 DEF ContextInv
<1>3. CASE HeadPending
  BY <1>3 DEF HeadPending, ContextInv, Settled
<1>4. ASSUME NEW memory \in BOOLEAN, chat => memory = HasMemory, HeadInjected(memory)
      PROVE  ContextInv(chat)'
  <2> DEFINE g == InjectLtm(InjectEnv(history, envInjected), TRUE, ltmInjected, memory)
  <2>1. g \in Seq(Message) /\ Env(g) /\ (ltmInjected \/ memory => Ltm(g))
    BY <1>0, InjectionHead DEF ContextInv
  <2>2. Extends(history', g)
    BY <1>4 DEF HeadInjected
  <2> HIDE DEF g
  <2>3. Env(history') /\ (ltmInjected \/ memory => Ltm(history'))
    BY <1>x, <2>1, <2>2
  <2>4. envInjected' = TRUE /\ ltmInjected' = (ltmInjected \/ memory) /\ pc' \in {"top", "send"}
    BY <1>4 DEF HeadInjected
  <2>5. chat /\ HasMemory => ltmInjected'
    BY <1>4, <2>4
  <2> QED
    BY <2>3, <2>4, <2>5 DEF ContextInv
<1>5. ASSUME NEW memory \in BOOLEAN, chat => memory = HasMemory, HeadRebuilt(memory)
      PROVE  ContextInv(chat)'
  <2>1. PICK rest \in Seq(Message) :
           rest # <<>> /\ history' = InjectLtm(InjectEnv(rest, FALSE), TRUE, FALSE, memory)
    BY <1>5 DEF HeadRebuilt
  <2>2. Env(history') /\ (memory => Ltm(history'))
    BY <2>1, InjectionHead
  <2>3. /\ envInjected' = TRUE /\ ltmInjected' = memory
        /\ pc' = "streaming" => pc = "streaming" /\ request' = request
    BY <1>5 DEF HeadRebuilt
  <2>4. chat /\ HasMemory => ltmInjected'
    BY <1>5, <2>3
  <2> QED
    BY <2>2, <2>3, <2>4 DEF ContextInv
<1> QED
  BY <1>1, <1>2, <1>3, <1>4, <1>5 DEF HeadStep

ContextSentInv ==
    /\ TypeOK /\ RunCompacts
    /\ ~rewound => IF part = "chat" THEN ContextInv(TRUE) ELSE ContextInv(FALSE)

\* As long as nothing is rewound, each request of either loop starts with the
\* environment, those of the chat go on with the memories: after compactions and
\* cancellations, and whatever /compact does to the history during a run.
THEOREM ContextIsSent ==
    ASSUME Interactive
    PROVE  MCSpec => []ContextSent
<1>1. MCInit => ContextSentInv
  <2> SUFFICES ASSUME MCInit PROVE ContextSentInv
    OBVIOUS
  <2>1. TypeOK
    BY InitType DEF MCInit
  <2>2. RunCompacts
    BY DEF MCInit, Init, RunCompacts, Compacting, Caller, NoCompaction
  <2>3. pc = "idle" /\ envInjected = FALSE /\ ltmInjected = FALSE
    BY DEF MCInit, Init
  <2>4. ContextInv(TRUE) /\ ContextInv(FALSE)
    BY <2>3 DEF ContextInv, Settled
  <2> QED
    BY <2>1, <2>2, <2>4 DEF ContextSentInv
<1>2. ContextSentInv /\ [MCNext]_<<part, vars, rewound>> => ContextSentInv'
  <2> SUFFICES ASSUME ContextSentInv, [MCNext]_<<part, vars, rewound>>
               PROVE  ContextSentInv'
    OBVIOUS
  <2>0. TypeOK /\ RunCompacts
    BY DEF ContextSentInv
  <2>1. CASE part = "chat" /\ Next /\ rewound' = (rewound \/ Rewind) /\ UNCHANGED part
    <3>1. TypeOK'
      BY <2>0, <2>1, NextType
    <3>2. RunCompacts'
      BY <2>0, <2>1, RunCompactsNext
    <3>3. ASSUME ~rewound'
          PROVE  ContextInv(TRUE)'
      <4>1. ContextInv(TRUE) /\ ~Rewind
        BY <2>1, <3>3 DEF ContextSentInv
      <4>2. HeadStep(Interactive)
        BY <2>0, <2>1, <4>1, LoopHead DEF Next
      <4>3. HeadStep(TRUE)
        BY <4>2 DEF HeadStep
      <4> QED
        BY <2>0, <3>1, <4>1, <4>3, ContextNext
    <3> QED
      BY <2>1, <3>1, <3>2, <3>3 DEF ContextSentInv
  <2>2. CASE part = "agent" /\ Sub!Next /\ UNCHANGED <<part, rewound>>
    <3>1. HeadStep(FALSE) /\ TypeOK'
      BY <2>0, <2>2, SubHead
    <3>2. RunCompacts'
      BY <2>0, <2>2, RunCompactsNext
    <3>3. ASSUME ~rewound'
          PROVE  ContextInv(FALSE)'
      <4>1. ContextInv(FALSE)
        BY <2>2, <3>3 DEF ContextSentInv
      <4> QED
        BY <2>0, <3>1, <4>1, ContextNext
    <3> QED
      BY <2>2, <3>1, <3>2, <3>3 DEF ContextSentInv
  <2>3. CASE UNCHANGED <<part, vars, rewound>>
    <3>1. UNCHANGED vars
      BY <2>3
    <3>2. TypeOK'
      BY <2>0, <3>1, NextType
    <3>3. UNCHANGED <<history, envInjected, ltmInjected, pc, request, compaction, part, rewound>>
      BY <2>3 DEF vars, conversation
    <3> QED
      BY <2>0, <3>2, <3>3 DEF ContextSentInv, ContextInv, RunCompacts, Compacting
  <2> QED
    BY <2>1, <2>2, <2>3 DEF MCNext
<1>3. ContextSentInv => ContextSent
  <2> SUFFICES ASSUME ContextSentInv, pc = "streaming", ~rewound
               PROVE  /\ request # <<>> /\ request[1] = Text("env")
                      /\ part = "chat" /\ HasMemory => Len(request) > 1 /\ request[2] = Text("ltm")
    BY DEF ContextSent
  <2> QED
    BY DEF ContextSentInv, ContextInv
<1> QED
  BY <1>1, <1>2, <1>3, PTL DEF MCSpec

=============================================================================

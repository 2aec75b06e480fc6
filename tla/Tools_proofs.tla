----------------------------- MODULE Tools_proofs -----------------------------
(***************************************************************************)
(* For any calls and rules, any definitions of agents and any number of    *)
(* responses: results stand in the order of the calls, what changes a file *)
(* is recorded, rules are kept, and who was launched while planning writes *)
(* only the plan.  For any tools, servers and skills: what the limits of a *)
(* skill took away stays away.  For any hooks and runs: a prompt hook's    *)
(* message is taken once.  For any tests and changes: the first answer     *)
(* has passed the gate.                                                    *)
(***************************************************************************)
EXTENDS ToolExecution, ToolSets, Hooks, Verification, SequenceTheorems, FiniteSetTheorems,
        WellFoundedInduction, TLAPS

\* A non-empty set of numbers has a smallest one.
LEMMA Smallest ==
    ASSUME NEW T, T \subseteq Nat, T # {}
    PROVE  \E x \in T : \A y \in T : x <= y
<1>1. PICK x \in T : \A y \in T : <<y, x>> \notin OpToRel(<, Nat)
  BY NatLessThanWellFounded, WFMin
<1>2. \A y \in T : ~(y < x)
  BY <1>1 DEF OpToRel
<1> QED
  BY <1>2

-----------------------------------------------------------------------------
(* Batches.                                                                *)

\* The calls of a parallel batch are safe: the batch ends before the first call
\* that is not.
LEMMA BatchIsSafe ==
    ASSUME calls \in Seq(Call), results \in Seq(Nat), InParallel,
           NEW k \in Batch
    PROVE  k \in DOMAIN calls /\ Safe(calls[k])
<1> DEFINE Ends(j) == /\ \A i \in NextCall..j : Safe(calls[i])
                      /\ j < Len(calls) => ~Safe(calls[j + 1])
           Stops == {j \in Nat : NextCall <= j /\ (j >= Len(calls) \/ ~Safe(calls[j + 1]))}
<1>1. NextCall \in Nat /\ NextCall >= 1 /\ Len(calls) \in Nat
  BY DEF NextCall
<1>2. NextCall <= Len(calls) /\ Safe(calls[NextCall])
  <2> SUFFICES ASSUME BatchEnd = NextCall
               PROVE  FALSE
    BY <1>1 DEF BatchEnd
  <2>1. Batch = {NextCall}
    BY <1>1 DEF Batch
  <2>2. Cardinality({NextCall}) = 1
    BY FS_Singleton
  <2> QED
    BY <2>1, <2>2 DEF InParallel
<1>3. \E j \in NextCall..Len(calls) : Ends(j)
  <2>1. Len(calls) \in Stops
    BY <1>1, <1>2
  <2>2. PICK j \in Stops : \A i \in Stops : j <= i
    BY <2>1, Smallest
  <2>3. j \in NextCall..Len(calls)
    BY <2>1, <2>2, <1>1
  <2>4. ASSUME NEW i \in NextCall..j
        PROVE  Safe(calls[i])
    <3>1. CASE i = NextCall
      BY <3>1, <1>2
    <3>2. CASE i # NextCall
      <4>1. i - 1 \in Nat /\ NextCall <= i - 1 /\ i - 1 < j /\ i - 1 < Len(calls)
        BY <3>2, <2>3, <1>1
      <4>2. i - 1 \notin Stops
        BY <4>1, <2>2
      <4>3. (i - 1) + 1 = i
        BY <1>1
      <4> QED
        BY <4>1, <4>2, <4>3
    <3> QED
      BY <3>1, <3>2
  <2> QED
    BY <2>2, <2>3, <2>4
<1>4. BatchEnd = CHOOSE j \in NextCall..Len(calls) : Ends(j)
  BY <1>1, <1>2 DEF BatchEnd
<1>5. BatchEnd \in NextCall..Len(calls) /\ Ends(BatchEnd)
  BY <1>3, <1>4
<1> QED
  BY <1>1, <1>5 DEF Batch

-----------------------------------------------------------------------------
(* The order of the results, and the record of changed files.              *)

\* The calls that are answered are a beginning of the response, and what a
\* parallel batch will return comes right behind it.
OrderInv ==
    /\ calls \in Seq(Call)
    /\ results \in Seq(Nat) /\ running \in Seq(Nat)
    /\ ResultsInCallOrder
    /\ ChangedAreRecorded

\* Answering one call keeps the order.
LEMMA AnsweredKeepsOrder ==
    ASSUME results \in Seq(Nat), ResultsInCallOrder, Answered
    PROVE  results' \in Seq(Nat) /\ ResultsInCallOrder'
BY DEF Answered, NextCall, ResultsInCallOrder

\* Running a tool records what it changes.
LEMMA RunRecords ==
    ASSUME ChangedAreRecorded, Run
    PROVE  ChangedAreRecorded'
BY DEF Run, ChangedAreRecorded, Touched, RecordedOf, NamesItsFile, files

\* Every step keeps the order and the record.
LEMMA OrderStep ==
    ASSUME OrderInv, [Next]_vars
    PROVE  OrderInv'
<1> USE DEF OrderInv
<1>1. CASE SetMode
  BY <1>1 DEF SetMode, response, files, ResultsInCallOrder, ChangedAreRecorded
<1>2. CASE BreakRules
  BY <1>2 DEF BreakRules, response, files, ResultsInCallOrder, ChangedAreRecorded
<1>3. CASE Respond
  <2>1. calls' \in Seq(Call)
    BY <1>3 DEF Respond
  <2> QED
    BY <1>3, <2>1 DEF Respond, files, ResultsInCallOrder, ChangedAreRecorded
<1>4. CASE FinishParallel
  <2>1. PICK k \in Batch : /\ running' = Append(running, k)
                           /\ touched' \in {touched, Touched(calls[k])}
    BY <1>4 DEF FinishParallel
  <2>2. k \in DOMAIN calls /\ Safe(calls[k])
    BY <1>4, BatchIsSafe DEF FinishParallel
  <2>3. calls[k] \in Call /\ calls[k].concurrent
    BY <2>2 DEF Safe
  <2>4. calls[k].writes = {}
    BY <2>3, CallAssumption
  <2>5. touched' = touched
    BY <2>1, <2>4 DEF Touched
  <2>6. running' \in Seq(Nat)
    BY <2>1, <2>2
  <2> QED
    BY <1>4, <2>5, <2>6 DEF FinishParallel, ResultsInCallOrder, ChangedAreRecorded
<1>5. CASE CollectParallel
  <2>1. /\ results' = results \o [k \in 1..Len(running) |-> Len(results) + k]
        /\ running' = <<>>
        /\ UNCHANGED <<calls, changed, touched>>
    BY <1>5 DEF CollectParallel, Gathered, InOrderOfCalls, files
  <2> DEFINE n == Len(results)
             gathered == [k \in 1..Len(running) |-> n + k]
  <2>2. /\ n \in Nat /\ gathered \in Seq(Nat)
        /\ \A k \in 1..Len(gathered) : gathered[k] = n + k
    <3>1. n \in Nat /\ Len(running) \in Nat
      OBVIOUS
    <3>2. gathered \in Seq(Nat)
      BY <3>1
    <3>3. DOMAIN gathered = 1..Len(gathered)
      BY <3>2
    <3> QED
      BY <3>1, <3>2, <3>3
  <2>3. results' = results \o gathered
    BY <2>1
  <2>4. results' \in Seq(Nat) /\ DOMAIN results' = 1..(n + Len(gathered))
    <3> HIDE DEF gathered
    <3> QED
      BY <2>2, <2>3
  <2>5. ASSUME NEW k \in DOMAIN results'
        PROVE  results'[k] = k
    <3> HIDE DEF gathered
    <3>1. CASE k <= n
      BY <3>1, <2>2, <2>3, <2>4 DEF ResultsInCallOrder
    <3>2. CASE k > n
      <4>1. k - n \in 1..Len(gathered) /\ results'[k] = gathered[k - n]
        BY <3>2, <2>2, <2>3, <2>4
      <4> QED
        BY <4>1, <2>2, <2>4
    <3> QED
      BY <3>1, <3>2, <2>2, <2>4
  <2> QED
    BY <2>1, <2>4, <2>5 DEF ChangedAreRecorded, ResultsInCallOrder
<1>6. CASE UnknownTool
  <2>1. results' \in Seq(Nat) /\ ResultsInCallOrder'
    BY <1>6, AnsweredKeepsOrder DEF UnknownTool
  <2> QED
    BY <1>6, <2>1 DEF UnknownTool, files, ChangedAreRecorded
<1>7. ASSUME Run, UNCHANGED <<calls, running>>
      PROVE  OrderInv'
  <2>1. results' \in Seq(Nat) /\ ResultsInCallOrder'
    BY <1>7, AnsweredKeepsOrder DEF Run
  <2> QED
    BY <1>7, <2>1, RunRecords
<1>8. ASSUME Refuse, UNCHANGED <<calls, running>>
      PROVE  OrderInv'
  <2>1. results' \in Seq(Nat) /\ ResultsInCallOrder'
    BY <1>8, AnsweredKeepsOrder DEF Refuse
  <2> QED
    BY <1>8, <2>1 DEF Refuse, files, ChangedAreRecorded
<1>9. ASSUME UNCHANGED <<calls, results, running, files>>
      PROVE  OrderInv'
  BY <1>9 DEF files, ResultsInCallOrder, ChangedAreRecorded
<1>10. CASE CheckCall
  BY <1>10, <1>7, <1>8, <1>9 DEF CheckCall
<1>11. CASE Classify
  BY <1>11, <1>7, <1>9 DEF Classify
<1>12. ASSUME NEW what \in {"deny", "allow", "always"}, Answer(what)
       PROVE  OrderInv'
  BY <1>12, <1>7, <1>8 DEF Answer
<1>13. CASE EndResponse
  BY <1>13 DEF EndResponse, files, ResultsInCallOrder, ChangedAreRecorded
<1>14. ASSUME NEW s \in SubAgent, SubCall(s)
       PROVE  OrderInv'
  BY <1>14, <1>9 DEF SubCall, response
<1>15. CASE UNCHANGED vars
  BY <1>15, <1>9 DEF vars, response
<1> QED
  BY <1>1, <1>2, <1>3, <1>4, <1>5, <1>6, <1>10, <1>11, <1>12, <1>13, <1>14, <1>15
     DEF Next

\* Whatever runs in parallel and whenever it ends, the results are in the order of
\* the calls (agent_runner.py, run).
THEOREM OrderKept == Spec => []ResultsInCallOrder
<1>1. Init => OrderInv
  BY DEF Init, OrderInv, ResultsInCallOrder, ChangedAreRecorded
<1>2. OrderInv /\ [Next]_vars => OrderInv'
  BY OrderStep
<1>3. OrderInv => ResultsInCallOrder
  BY DEF OrderInv
<1> QED
  BY <1>1, <1>2, <1>3, PTL DEF Spec

\* The record is complete for the tools that name their file, although a parallel
\* batch does not write it, for only tools that write nothing are in one.
THEOREM ChangesRecorded == Spec => []ChangedAreRecorded
<1>1. Init => OrderInv
  BY DEF Init, OrderInv, ResultsInCallOrder, ChangedAreRecorded
<1>2. OrderInv /\ [Next]_vars => OrderInv'
  BY OrderStep
<1>3. OrderInv => ChangedAreRecorded
  BY DEF OrderInv
<1> QED
  BY <1>1, <1>2, <1>3, PTL DEF Spec

-----------------------------------------------------------------------------
(* The rules.                                                              *)

\* The answer "always" adds to the rules that could be read, and the only other
\* step that touches the file leaves it unreadable (rules.py, append_local_rule).
THEOREM RulesKept == Spec => RulesAreKept
<1>1. ASSUME [Next]_vars
      PROVE  LoadLocal \subseteq LoadLocal' \/ unreadable'
  <2>1. CASE UNCHANGED rules
    BY <2>1 DEF rules, LoadLocal
  <2>2. CASE BreakRules
    BY <2>2 DEF BreakRules
  <2>3. ASSUME NEW what \in {"deny", "allow", "always"}, Answer(what)
        PROVE  LoadLocal \subseteq LoadLocal'
    <3>1. CASE UNCHANGED rules
      BY <3>1 DEF rules, LoadLocal
    <3>2. CASE AppendLocal(AlwaysRule(Current))
      BY <3>2 DEF AppendLocal, LoadLocal
    <3> QED
      BY <2>3, <3>1, <3>2 DEF Answer
  <2> QED
    BY <1>1, <2>1, <2>2, <2>3
       DEF Next, vars, SetMode, Respond, FinishParallel, CollectParallel, UnknownTool,
           CheckCall, Classify, EndResponse, SubCall
<1> QED
  BY <1>1, PTL DEF Spec, RulesAreKept

-----------------------------------------------------------------------------
(* The layers, and what was allowed for good.                              *)

\* Of layers of which the last decides, a first one does.
LEMMA FirstDecides ==
    ASSUME NEW layers, NEW n \in Nat, n >= 1, layers[n] # "none"
    PROVE  \E i \in 1..n : layers[i] # "none" /\ \A j \in 1..(i - 1) : layers[j] = "none"
<1> DEFINE T == {i \in 1..n : layers[i] # "none"}
<1>1. PICK i \in T : \A j \in T : i <= j
  <2>1. T \subseteq Nat /\ n \in T
    OBVIOUS
  <2> HIDE DEF T
  <2> QED
    BY <2>1, Smallest
<1>2. ASSUME NEW j \in 1..(i - 1)
      PROVE  layers[j] = "none"
  <2>1. j \in 1..n /\ ~(i <= j)
    BY <1>1
  <2> QED
    BY <1>1, <2>1
<1> QED
  BY <1>1, <1>2

\* A rule that allows the one piece of a call decides where the others say nothing,
\* among rules that only allow.
LEMMA AllowingRuleDecides ==
    ASSUME NEW c \in Call, Len(c.content) = 1, NEW local,
           \A r \in local : r.effect = "allow",
           AlwaysRule(c) \subseteq local, ByRules(UserRules, c) = "none"
    PROVE  ByRules(UserRules \cup local, c) = "allow"
<1> DEFINE piece == c.content[1]
           Effects(some) == {r.effect : r \in {s \in some : s.tool = c.tool /\ s.pattern = piece}}
<1>1. c.content \in Seq(STRING)
  BY CallAssumption
<1>2. DOMAIN c.content = {1}
  BY <1>1
<1>3. \A some : {Evaluate(some, c.tool, c.content[i]) : i \in DOMAIN c.content}
                    = {Evaluate(some, c.tool, piece)}
  BY <1>2
<1>4. Effects(UserRules) \subseteq {"allow", "ask", "deny"}
  BY CallAssumption DEF Rule, Effect
<1>5. Effects(UserRules) = {}
  <2>1. Evaluate(UserRules, c.tool, piece) \notin {"deny", "ask", "allow"}
    BY <1>3 DEF ByRules
  <2>2. "deny" \notin Effects(UserRules)
    BY <2>1 DEF Evaluate
  <2>3. "ask" \notin Effects(UserRules)
    BY <2>1, <2>2 DEF Evaluate
  <2>4. Effects(UserRules) # {"allow"}
    BY <2>1, <2>2, <2>3 DEF Evaluate
  <2> HIDE DEF Effects
  <2> QED
    BY <1>4, <2>2, <2>3, <2>4
<1>6. [tool |-> c.tool, pattern |-> piece, effect |-> "allow"] \in local
  BY <1>2 DEF AlwaysRule
<1>7. Effects(local) = {"allow"}
  BY <1>6
<1>8. Effects(UserRules \cup local) = {"allow"}
  <2>1. Effects(UserRules \cup local) = Effects(UserRules) \cup Effects(local)
    OBVIOUS
  <2> HIDE DEF Effects
  <2> QED
    BY <1>5, <1>7, <2>1
<1>9. Evaluate(UserRules \cup local, c.tool, piece) = "allow"
  BY <1>8 DEF Evaluate
<1> QED
  BY <1>3, <1>9 DEF ByRules

\* Where the rules allow, only the layer of sensitive files may still ask.
LEMMA AllowedIsNotAsked ==
    ASSUME NEW m, NEW allowing, NEW c, ByRules(allowing, c) = "allow",
           ~IsSensitiveFile(c.content)
    PROVE  Check(m, allowing, c) \notin {"ask", "classify"}
<1> DEFINE layers == <<PlanException(m, c), SafeCommand(c), BannedCommand(c),
                       SensitiveFile(m, c), Bypass(m), Sandbox(c),
                       ByRules(allowing, c), AutoRisk(m, c), ModeMatrix(m, c.category)>>
           deciding == CHOOSE i \in DOMAIN layers :
                           /\ layers[i] # "none"
                           /\ \A j \in 1..(i - 1) : layers[j] = "none"
<1>1. layers[1] \in {"none", "allow"} /\ layers[2] \in {"none", "allow"}
      /\ layers[3] \in {"none", "deny"}
  BY DEF PlanException, SafeCommand, BannedCommand, When
<1>2. layers[4] = "none" /\ layers[5] \in {"none", "allow"} /\ layers[6] \in {"none", "deny"}
  BY DEF SensitiveFile, Bypass, Sandbox, When
<1>3. layers[7] = "allow" /\ DOMAIN layers = 1..9
  OBVIOUS
<1>4. Check(m, allowing, c) = layers[deciding]
  BY DEF Check
<1> HIDE DEF layers
<1>5. deciding \in 1..9 /\ \A j \in 1..(deciding - 1) : layers[j] = "none"
  <2>1. \E i \in 1..7 : layers[i] # "none" /\ \A j \in 1..(i - 1) : layers[j] = "none"
    BY <1>3, FirstDecides
  <2> QED
    BY <2>1, <1>3
<1> HIDE DEF deciding
<1>6. deciding \in 1..7
  <2>1. 7 \in 1..(deciding - 1) => FALSE
    BY <1>3, <1>5
  <2> QED
    BY <1>5, <2>1
<1> QED
  BY <1>1, <1>2, <1>3, <1>4, <1>6

\* Whether a question about the current call is one the user has not answered.
Unanswered ==
    \/ Current \notin always
    \/ Len(Current.content) # 1
    \/ IsSensitiveFile(Current.content)
    \/ ByRules(UserRules, Current) # "none"

\* What is allowed for good is written down and can be read, and a call waits for its
\* answer alone.
AlwaysInv ==
    /\ calls \in Seq(Call) /\ results \in Seq(Nat)
    /\ \A r \in localRules : r.effect = "allow"
    /\ \A c \in always : AlwaysRule(c) \subseteq LoadLocal
    /\ waiting # "none" => Turn /\ Unanswered

\* Every step keeps what is allowed for good written down.
LEMMA AlwaysStep ==
    ASSUME AlwaysInv, OrderInv, OrderInv', [Next]_vars
    PROVE  AlwaysInv'
<1> USE DEF AlwaysInv
<1>1. calls' \in Seq(Call) /\ results' \in Seq(Nat) /\ NextCall \in Nat /\ NextCall >= 1
  BY DEF OrderInv, NextCall
<1>2. ASSUME Turn
      PROVE  Current \in Call /\ ~InParallel /\ calls # <<>> /\ Len(results) # Len(calls)
  BY <1>1, <1>2 DEF Turn, Current, NextCall
<1>3. ASSUME UNCHANGED <<calls, results, always, localRules, unreadable>>,
             waiting' \in {"none", waiting}
      PROVE  AlwaysInv'
  BY <1>1, <1>3 DEF LoadLocal, Turn, Unanswered, Current, NextCall, InParallel, Batch, BatchEnd
<1>4. ASSUME UNCHANGED <<always, localRules, unreadable>>, waiting' = "none"
      PROVE  AlwaysInv'
  BY <1>1, <1>4 DEF LoadLocal
<1>5. CASE SetMode
  BY <1>3, <1>5 DEF SetMode, rules, response
<1>6. CASE BreakRules
  <2>1. UNCHANGED <<calls, results, waiting, localRules>> /\ always' = {}
    BY <1>6 DEF BreakRules, response
  <2>2. waiting' # "none" => Turn' /\ Unanswered'
    BY <2>1 DEF Turn, Unanswered, Current, NextCall, InParallel, Batch, BatchEnd
  <2> QED
    BY <1>1, <2>1, <2>2
<1>7. CASE Respond \/ FinishParallel \/ CollectParallel \/ EndResponse
  <2>1. waiting = "none"
    BY <1>2, <1>7 DEF Respond, FinishParallel, CollectParallel, EndResponse
  <2>2. UNCHANGED <<always, localRules, unreadable, waiting>>
    BY <1>7 DEF Respond, FinishParallel, CollectParallel, EndResponse, rules
  <2> QED
    BY <1>4, <2>1, <2>2
<1>8. CASE UnknownTool
  BY <1>4, <1>8 DEF UnknownTool, Answered, rules
<1>9. CASE CheckCall
  <2>1. UNCHANGED <<calls, always, localRules, unreadable>> /\ Turn
    BY <1>9 DEF CheckCall, rules
  <2>2. CASE waiting' = "none"
    BY <1>4, <2>1, <2>2
  <2>3. CASE waiting' # "none"
    <3>1. /\ Check(mode, Rules, Current) \in {"ask", "classify"}
          /\ results' = results
      BY <1>9, <2>3 DEF CheckCall, Run, Refuse, Answered
    <3>2. Unanswered
      <4> SUFFICES ASSUME Current \in always, Len(Current.content) = 1,
                          ~IsSensitiveFile(Current.content),
                          ByRules(UserRules, Current) = "none"
                   PROVE  FALSE
        BY DEF Unanswered
      <4>1. AlwaysRule(Current) \subseteq LoadLocal /\ \A r \in LoadLocal : r.effect = "allow"
        BY DEF LoadLocal
      <4>2. ByRules(Rules, Current) = "allow"
        BY <1>2, <2>1, <4>1, AllowingRuleDecides DEF Rules
      <4> QED
        BY <3>1, <4>2, AllowedIsNotAsked
    <3>3. Turn' /\ Unanswered'
      BY <2>1, <3>1, <3>2 DEF Turn, Unanswered, Current, NextCall, InParallel, Batch, BatchEnd
    <3> QED
      BY <1>1, <2>1, <3>3 DEF LoadLocal
  <2> QED
    BY <2>2, <2>3
<1>10. CASE Classify
  <2>1. UNCHANGED <<calls, always, localRules, unreadable>> /\ waiting # "none"
    BY <1>10 DEF Classify, rules
  <2>2. CASE waiting' = "none"
    BY <1>4, <2>1, <2>2
  <2>3. CASE waiting' # "none"
    <3>1. results' = results
      BY <1>10, <2>3 DEF Classify, Run, Answered
    <3>2. Turn' /\ Unanswered'
      BY <2>1, <3>1 DEF Turn, Unanswered, Current, NextCall, InParallel, Batch, BatchEnd
    <3> QED
      BY <1>1, <2>1, <3>2 DEF LoadLocal
  <2> QED
    BY <2>2, <2>3
<1>11. ASSUME NEW what \in {"deny", "allow", "always"}, Answer(what)
       PROVE  AlwaysInv'
  <2>1. waiting' = "none"
    BY <1>11 DEF Answer, Refuse, Run, Answered
  <2>2. CASE what # "always"
    BY <1>4, <1>11, <2>1, <2>2 DEF Answer, rules
  <2>3. CASE what = "always"
    <3> DEFINE new == AlwaysRule(Current)
    <3>1. AppendLocal(new) /\ always' = always \cup {Current}
      BY <1>11, <2>3 DEF Answer
    <3>2. \A r \in new : r.effect = "allow"
      BY DEF AlwaysRule
    <3>3. (\A r \in localRules' : r.effect = "allow") /\ LoadLocal \cup new \subseteq LoadLocal'
      <4> HIDE DEF new
      <4>1. CASE new = {}
        BY <3>1, <4>1 DEF AppendLocal, LoadLocal
      <4>2. CASE new # {}
        BY <3>1, <3>2, <4>2 DEF AppendLocal, LoadLocal
      <4> QED
        BY <4>1, <4>2
    <3> QED
      BY <1>1, <2>1, <3>1, <3>3
  <2> QED
    BY <2>2, <2>3
<1>12. ASSUME NEW s \in SubAgent, SubCall(s)
       PROVE  AlwaysInv'
  BY <1>3, <1>12 DEF SubCall, rules, response
<1>13. CASE UNCHANGED vars
  BY <1>3, <1>13 DEF vars, rules, response
<1> QED
  BY <1>5, <1>6, <1>7, <1>8, <1>9, <1>10, <1>11, <1>12, <1>13 DEF Next

\* For any calls and rules of the user: what was allowed for good is not asked about
\* again, through every change of the mode, every batch and every other answer
\* (rules.py, append_local_rule, and checker.py).
THEOREM AlwaysStays == Spec => []AlwaysMeansAlways
<1>1. Init => OrderInv /\ AlwaysInv
  BY DEF Init, OrderInv, ResultsInCallOrder, ChangedAreRecorded, AlwaysInv
<1>2. (OrderInv /\ AlwaysInv) /\ [Next]_vars => (OrderInv /\ AlwaysInv)'
  BY OrderStep, AlwaysStep
<1>3. AlwaysInv => AlwaysMeansAlways
  BY DEF AlwaysInv, Unanswered, AlwaysMeansAlways
<1> QED
  BY <1>1, <1>2, <1>3, PTL DEF Spec

-----------------------------------------------------------------------------
(* Plan mode of sub-agents.                                                *)

\* Rules that are not there decide nothing.
LEMMA NoRules ==
    ASSUME NEW c
    PROVE  ByRules({}, c) = "none"
<1> DEFINE effects == {Evaluate({}, c.tool, c.content[i]) : i \in DOMAIN c.content}
<1>1. \A piece : Evaluate({}, c.tool, piece) = "none"
  BY DEF Evaluate
<1>2. effects \subseteq {"none"}
  BY <1>1
<1>3. "deny" \notin effects /\ "ask" \notin effects /\ effects # {"allow"}
  BY <1>2
<1> QED
  BY <1>3 DEF ByRules

\* What plan mode allows without asking writes nothing but the plan, unless it is a
\* safe command, and no language model is asked in it.
SafeCall(c) == c.category = "command" /\ IsSafeCommand(c.content)

LEMMA PlanAllows ==
    ASSUME NEW c \in Call
    PROVE  /\ Check("plan", {}, c) # "classify"
           /\ Check("plan", {}, c) = "allow" => c.writes \subseteq {"plan"} \/ SafeCall(c)
<1> DEFINE layers == <<PlanException("plan", c), SafeCommand(c), BannedCommand(c),
                       SensitiveFile("plan", c), Bypass("plan"), Sandbox(c),
                       ByRules({}, c), AutoRisk("plan", c),
                       ModeMatrix("plan", c.category)>>
           deciding == CHOOSE i \in DOMAIN layers :
                           /\ layers[i] # "none"
                           /\ \A j \in 1..(i - 1) : layers[j] = "none"
<1>1. /\ layers[3] \in {"none", "deny"} /\ layers[4] = "none" /\ layers[5] = "none"
      /\ layers[6] \in {"none", "deny"} /\ layers[7] = "none" /\ layers[8] = "none"
  BY NoRules DEF BannedCommand, SensitiveFile, Bypass, Sandbox, AutoRisk, When
<1>2. /\ layers[1] \in {"none", "allow"}
      /\ layers[1] = "allow" => \/ c.tool \in PlanModeAllowedTools
                                 \/ IsPlanFile(c.content)
  BY DEF PlanException, When
<1>3. /\ layers[2] \in {"none", "allow"}
      /\ layers[2] = "allow" => SafeCall(c)
  BY DEF SafeCommand, SafeCall, When
<1>4. /\ layers[9] \in {"allow", "ask"}
      /\ layers[9] = "allow" => c.category = "read"
  BY DEF ModeMatrix
<1>5. DOMAIN layers = 1..9
  OBVIOUS
<1>6. Check("plan", {}, c) = layers[deciding]
  BY DEF Check
<1> HIDE DEF layers
<1>7. deciding \in 1..9
  <2>1. \E i \in 1..9 : layers[i] # "none" /\ \A j \in 1..(i - 1) : layers[j] = "none"
    BY <1>4, FirstDecides
  <2> QED
    BY <2>1, <1>5
<1> HIDE DEF deciding
<1>8. Check("plan", {}, c) = "allow" => c.writes \subseteq {"plan"} \/ SafeCall(c)
  <2>1. layers[deciding] = "allow" => deciding \in {1, 2, 9}
    BY <1>1, <1>7
  <2> QED
    BY <2>1, <1>2, <1>3, <1>4, <1>6, CallAssumption
<1>9. Check("plan", {}, c) # "classify"
  BY <1>1, <1>2, <1>3, <1>4, <1>6, <1>7
<1> QED
  BY <1>8, <1>9

\* A sub-agent that was launched while planning, in the directory of the chat, has
\* the mode plan for good.
SubAgents ==
    [mode : Mode \cup {"none"}, planning : BOOLEAN, apart : BOOLEAN,
     tools : SUBSET STRING, wrote : SUBSET (Call \X STRING)]

PlannerInv ==
    /\ subs \in [SubAgent -> SubAgents]
    /\ \A s \in SubAgent : subs[s].planning /\ ~subs[s].apart => subs[s].mode = "plan"
    /\ PlannersOnlyRead

\* A launch keeps the invariant.
LEMMA LaunchKeepsPlanners ==
    ASSUME PlannerInv, Launch
    PROVE  PlannerInv'
<1>1. PICK s \in SubAgent, how \in Launches, d \in Definition :
          subs' = [subs EXCEPT ![s] =
              [mode |-> SubMode(how, d), planning |-> mode = "plan",
               apart |-> Apart(how, d), tools |-> AgentTools(Defined(how, d)),
               wrote |-> {}]]
  BY DEF Launch
<1>2. Defined(how, d) \in [mode : Mode, tools : SUBSET STRING,
                           disallowed : SUBSET STRING, isolation : {"", "worktree"}]
  BY CallAssumption DEF Defined, Mode
<1>3. /\ SubMode(how, d) \in Mode /\ Apart(how, d) \in BOOLEAN
      /\ mode = "plan" /\ ~Apart(how, d) => SubMode(how, d) = "plan"
  BY <1>2 DEF SubMode, Apart, Mode
<1>4. AgentTools(Defined(how, d)) \in SUBSET STRING
  BY <1>2, CallAssumption DEF AgentTools
<1> DEFINE new == [mode |-> SubMode(how, d), planning |-> mode = "plan",
                   apart |-> Apart(how, d), tools |-> AgentTools(Defined(how, d)),
                   wrote |-> {}]
<1>5. /\ new \in SubAgents /\ new.wrote = {}
      /\ new.planning /\ ~new.apart => new.mode = "plan"
  BY <1>3, <1>4 DEF SubAgents
<1> HIDE DEF new
<1>6. subs' = [subs EXCEPT ![s] = new]
  BY <1>1 DEF new
<1> QED
  BY <1>5, <1>6 DEF PlannerInv, PlannersOnlyRead

\* Every step does.
LEMMA PlannerStep ==
    ASSUME PlannerInv, [Next]_vars
    PROVE  PlannerInv'
<1>1. CASE UNCHANGED subs
  BY <1>1 DEF PlannerInv, PlannersOnlyRead
<1>2. CASE Launch
  BY <1>2, LaunchKeepsPlanners
<1>3. ASSUME NEW s \in SubAgent, SubCall(s)
      PROVE  PlannerInv'
  <2>1. PICK c \in Call : /\ SubAllows(s, c)
                          /\ subs' = [subs EXCEPT ![s].wrote = @ \cup {c} \X c.writes]
    BY <1>3 DEF SubCall
  <2> DEFINE new == {c} \X c.writes
  <2>2. new \subseteq Call \X STRING /\ \A w \in new : w[1] = c /\ w[2] \in c.writes
    BY CallAssumption
  <2>3. subs[s].planning /\ ~subs[s].apart => c.writes \subseteq {"plan"} \/ SafeCall(c)
    BY <2>1, PlanAllows DEF SubAllows, PlannerInv
  <2>4. subs' = [subs EXCEPT ![s] = [subs[s] EXCEPT !.wrote = subs[s].wrote \cup new]]
    BY <2>1
  <2> HIDE DEF new
  <2>5. /\ subs'[s] = [mode |-> subs[s].mode, planning |-> subs[s].planning,
                       apart |-> subs[s].apart, tools |-> subs[s].tools,
                       wrote |-> subs[s].wrote \cup new]
        /\ DOMAIN subs' = SubAgent
        /\ \A t \in SubAgent \ {s} : subs'[t] = subs[t]
    BY <2>4 DEF PlannerInv, SubAgents
  <2>6. subs' \in [SubAgent -> SubAgents]
    BY <2>2, <2>4, <2>5 DEF PlannerInv, SubAgents
  <2>7. PlannersOnlyRead'
    <3> SUFFICES ASSUME NEW t \in SubAgent, subs'[t].planning, ~subs'[t].apart,
                        NEW w \in subs'[t].wrote
                 PROVE  w[2] = "plan" \/ SafeCall(w[1])
      BY DEF PlannersOnlyRead, SafeCall
    <3>1. CASE w \in subs[t].wrote
      <4>1. subs[t].planning /\ ~subs[t].apart
        BY <2>5
      <4> QED
        BY <3>1, <4>1 DEF PlannerInv, PlannersOnlyRead, SafeCall
    <3>2. CASE t = s /\ w \in new
      BY <2>2, <2>3, <2>5, <3>2
    <3> QED
      BY <2>5, <3>1, <3>2
  <2>8. \A t \in SubAgent : subs'[t].planning /\ ~subs'[t].apart => subs'[t].mode = "plan"
    BY <2>5 DEF PlannerInv
  <2> QED
    BY <2>6, <2>7, <2>8 DEF PlannerInv
<1>4. ASSUME Run
      PROVE  Launch \/ UNCHANGED subs
  BY <1>4 DEF Run
<1> QED
  BY <1>1, <1>2, <1>3, <1>4
     DEF Next, vars, SetMode, BreakRules, Respond, FinishParallel, CollectParallel,
         UnknownTool, CheckCall, Classify, Answer, EndResponse, Refuse

\* For every definition of agents and whatever mode the loop is in afterwards: who is
\* launched in plan mode, in the directory of the chat, changes nothing but the plan,
\* other than with a command of the safe list (agent_tool.py, checker.py).
THEOREM PlannersBound == Spec => []PlannersOnlyRead
<1>1. Init => PlannerInv
  BY DEF Init, PlannerInv, PlannersOnlyRead, NotLaunched, SubAgents
<1>2. PlannerInv /\ [Next]_vars => PlannerInv'
  BY PlannerStep
<1>3. PlannerInv => PlannersOnlyRead
  BY DEF PlannerInv
<1> QED
  BY <1>1, <1>2, <1>3, PTL DEF Spec

-----------------------------------------------------------------------------
(* The limits of skills.                                                   *)

BuiltIn == Work \cup System \cup {"Agent", "present_plan", "ExitPlanMode"}
ServerTools == UNION {McpTools[s] : s \in Servers}
SkillTools == UNION {Custom[s] : s \in Skill}
AnyTool == BuiltIn \cup ServerTools \cup SkillTools

\* The servers put their tools into the first registry; an agent with limits has
\* a copy.
LimitsInv ==
    /\ heap \in Seq(SUBSET AnyTool)
    /\ agentAt \in DOMAIN heap
    /\ narrowedBy # {} => agentAt # 1
    /\ LimitsHold

\* Replacing the registry by a part of it, within new limits or without, keeps the
\* limits.
LEMMA ReplaceKeepsLimits ==
    ASSUME LimitsInv, NEW tools, tools \subseteq Offered, Replace(tools), loaded' = loaded,
           \A s \in narrowedBy' \ narrowedBy : tools \subseteq Allowed[s] \cup System
    PROVE  LimitsInv'
<1>1. Offered \in SUBSET AnyTool
  BY DEF LimitsInv, Offered
<1>2. /\ heap' \in Seq(SUBSET AnyTool)
      /\ agentAt' \in DOMAIN heap' /\ agentAt' # 1
      /\ Offered' = tools
  BY <1>1 DEF LimitsInv, Replace, Offered
<1>3. LimitsHold'
  BY <1>2 DEF LimitsInv, LimitsHold
<1> QED
  BY <1>2, <1>3 DEF LimitsInv

\* Every step keeps each sub-agent's tools within its limits.
LEMMA LimitsStep ==
    ASSUME LimitsInv, [ToolsNext]_toolVars
    PROVE  LimitsInv'
<1> USE DEF LimitsInv
<1>1. ASSUME NEW up \in SUBSET Servers, NEW listed \in SUBSET up, McpConnects(up, listed)
      PROVE  LimitsInv'
  <2>1. UNION {McpTools[s] : s \in listed} \subseteq AnyTool
    BY DEF AnyTool, ServerTools
  <2>2. /\ heap' = [heap EXCEPT ![1] = heap[1] \cup UNION {McpTools[s] : s \in listed}]
        /\ 1 \in DOMAIN heap
    BY <1>1 DEF McpConnects, McpTarget
  <2>3. heap' \in Seq(SUBSET AnyTool) /\ DOMAIN heap' = DOMAIN heap
    BY <2>1, <2>2
  <2>4. LimitsHold'
    BY <1>1, <2>2 DEF McpConnects, LimitsHold, Offered
  <2> QED
    BY <1>1, <2>3, <2>4 DEF McpConnects
<1>2. CASE McpCloses
  <2>1. /\ heap' = [heap EXCEPT ![1] = heap[1] \ UNION {McpTools[s] : s \in Servers}]
        /\ 1 \in DOMAIN heap
    BY <1>2 DEF McpCloses
  <2>2. heap' \in Seq(SUBSET AnyTool) /\ DOMAIN heap' = DOMAIN heap
    BY <2>1
  <2>3. Offered' \subseteq Offered
    BY <1>2, <2>1 DEF McpCloses, Offered
  <2> QED
    BY <1>2, <2>2, <2>3 DEF McpCloses, LimitsHold
<1>3. ASSUME NEW s \in Skill, UseSkill(s)
      PROVE  LimitsInv'
  <2>1. CASE Allowed[s] # {} /\ Allowed[s] \subseteq Offered
    <3>1. Replace(Narrowed(s)) /\ narrowedBy' = narrowedBy \cup {s} /\ loaded' = loaded
      BY <1>3, <2>1 DEF UseSkill
    <3>2. Narrowed(s) \subseteq Offered /\ Narrowed(s) \subseteq Allowed[s] \cup System
      BY <2>1 DEF Narrowed
    <3> QED
      BY <3>1, <3>2, ReplaceKeepsLimits
  <2>2. CASE ~(Allowed[s] # {} /\ Allowed[s] \subseteq Offered)
    BY <1>3, <2>2 DEF UseSkill, LimitsHold, Offered
  <2> QED
    BY <2>1, <2>2
<1>4. ASSUME NEW s \in Skill, LoadSkill(s)
      PROVE  LimitsInv'
  <2>1. heap' = [heap EXCEPT ![agentAt] = heap[agentAt] \cup Custom[s]]
    BY <1>4 DEF LoadSkill
  <2>2. Custom[s] \subseteq AnyTool
    <3>1. Custom[s] \subseteq SkillTools
      BY DEF SkillTools
    <3> QED
      BY <3>1 DEF AnyTool
  <2>3. heap' \in Seq(SUBSET AnyTool) /\ DOMAIN heap' = DOMAIN heap
    <3>1. heap[agentAt] \cup Custom[s] \in SUBSET AnyTool
      BY <2>2
    <3> QED
      BY <2>1, <3>1
  <2>4. Offered' = Offered \cup Custom[s]
    BY <1>4, <2>1 DEF LoadSkill, Offered
  <2>5. LimitsHold'
    <3> SUFFICES ASSUME NEW t \in narrowedBy
                 PROVE  Offered' \subseteq Allowed[t] \cup System \cup loaded'
      BY <1>4 DEF LoadSkill, LimitsHold
    <3>1. Offered \subseteq Allowed[t] \cup System \cup loaded
      BY DEF LimitsHold
    <3> QED
      BY <1>4, <2>4, <3>1 DEF LoadSkill
  <2> QED
    BY <1>4, <2>3, <2>5 DEF LoadSkill
<1>5. CASE CreateTeam
  <2>1. Replace(Offered \cap CoordinatorTools) /\ narrowedBy' = narrowedBy /\ loaded' = loaded
    BY <1>5 DEF CreateTeam
  <2> QED
    BY <2>1, ReplaceKeepsLimits
<1>6. CASE Spawn
  BY <1>6 DEF Spawn, LimitsHold, Offered
<1>7. CASE UNCHANGED toolVars
  BY <1>7 DEF toolVars, LimitsHold, Offered
<1> QED
  BY <1>1, <1>2, <1>3, <1>4, <1>5, <1>6, <1>7 DEF ToolsNext

\* Whatever servers connect and whatever skills, teams and sub-agents follow, the
\* agent has only tools that each of its limits allows, apart from the system's
\* and those LoadSkill registered (skills/executor.py, app.py, team_create.py).
THEOREM LimitsStay == ToolsSpec => []LimitsHold
<1>1. ToolsInit => LimitsInv
  BY DEF ToolsInit, LimitsInv, LimitsHold, AnyTool, BuiltIn
<1>2. LimitsInv /\ [ToolsNext]_toolVars => LimitsInv'
  BY LimitsStep
<1>3. LimitsInv => LimitsHold
  BY DEF LimitsInv
<1> QED
  BY <1>1, <1>2, <1>3, PTL DEF ToolsSpec

-----------------------------------------------------------------------------
(* Verification.                                                           *)

\* In the run of the first prompt the gate has not been passed before the answer.
VerifiedInv ==
    /\ attempts \in Nat /\ prompts \in Nat /\ prompts >= 1 /\ passed \in BOOLEAN
    /\ changedFiles \subseteq Source \cup Test \cup {"package.json"}
    /\ broken \subseteq Source
    /\ prompts = 1 /\ pc # "answered" => ~passed
    /\ FirstAnswerIsVerified

\* If a test command is found for the language of a changed file, the gate runs the
\* test that has its name.
Claimed(f) ==
    HasTestCommand(f) /\ (f \in Python => changedFiles \cap Test \cap Python = {})

LEMMA NamedTestsRun ==
    ASSUME NEW f \in changedFiles \cap broken, f \in Source, Claimed(f),
           NEW t \in DirectTest[f]
    PROVE  \E tests \in Commands(changedFiles) : t \in tests
<1>1. t \in Test /\ (t \in Python <=> f \in Python)
  BY VerificationAssumption
<1>2. t \in DirectTests(changedFiles)
  BY DEF DirectTests
<1>3. t \in ImpactedTests(changedFiles)
  BY <1>2 DEF ImpactedTests
<1>4. CASE f \in Python
  <2>1. changedFiles \cap Test \cap Python = {}
    BY <1>4 DEF Claimed
  <2>2. t \in Targets(changedFiles)
    BY <1>1, <1>3, <1>4, <2>1 DEF Targets
  <2>3. Targets(changedFiles) \in Commands(changedFiles)
    BY <1>4 DEF Commands
  <2> QED
    BY <2>2, <2>3
<1>5. CASE f \notin Python
  <2>1. "test" \in scripts
    BY <1>5 DEF Claimed, HasTestCommand
  <2>2. t \in ScriptTargets(changedFiles)
    BY <1>1, <1>3, <1>5 DEF ScriptTargets
  <2>3. ScriptTargets(changedFiles) \in Commands(changedFiles)
    BY <2>1 DEF Commands
  <2> QED
    BY <2>2, <2>3
<1> QED
  BY <1>4, <1>5

\* What is run finds the named tests of the changed files to pass.
LEMMA NamedTestsPass ==
    ASSUME broken \subseteq Source,
           Commands(changedFiles) = {} \/ ~Fails(changedFiles),
           NEW f \in changedFiles \cap broken, Claimed(f)
    PROVE  NamedTestPasses(f)
<1> SUFFICES ASSUME NEW t \in DirectTest[f] PROVE f \notin Covers[t]
  BY DEF NamedTestPasses
<1>1. PICK tests \in Commands(changedFiles) : t \in tests
  BY NamedTestsRun
<1> QED
  BY <1>1 DEF Fails

\* Every step keeps the first answer verified.
LEMMA VerifiedStep ==
    ASSUME VerifiedInv, [VerificationNext]_verificationVars
    PROVE  VerifiedInv'
<1> USE DEF VerifiedInv
<1>1. ASSUME NEW how \in Ways, NEW f \in Source \cup Test \cup {"package.json"},
             Change(how, f)
      PROVE  VerifiedInv'
  <2>1. /\ pc = "working" /\ pc' = "working"
        /\ UNCHANGED <<passed, attempts, prompts>>
        /\ broken' \subseteq Source
        /\ changedFiles' \subseteq Source \cup Test \cup {"package.json"}
    BY <1>1 DEF Change, Recorded
  <2> QED
    BY <2>1 DEF FirstAnswerIsVerified
<1>2. CASE FinalAnswer
  <2>1. /\ UNCHANGED <<broken, changedFiles, passed, attempts, prompts>> /\ pc = "working"
        /\ pc' = IF changedFiles # {} /\ ~passed THEN "gate" ELSE "answered"
    BY <1>2 DEF FinalAnswer
  <2>2. FirstAnswerIsVerified'
    <3> SUFFICES ASSUME pc' = "answered", prompts = 1
                 PROVE  changedFiles = {}
      BY <2>1 DEF FirstAnswerIsVerified
    <3> QED
      BY <2>1
  <2>3. prompts = 1 => ~passed
    BY <2>1
  <2> QED
    BY <2>1, <2>2, <2>3
<1>3. CASE Gate
  <2>1. /\ UNCHANGED <<broken, scripts, changedFiles, prompts>>
        /\ pc = "gate" /\ pc' = IF passed' THEN "answered" ELSE "working"
    BY <1>3 DEF Gate
  <2> DEFINE Sound == Commands(changedFiles) = {} \/ ~Fails(changedFiles)
  <2>2. Sound => FirstAnswerIsVerified'
    <3>1. Sound => \A f \in changedFiles \cap broken : Claimed(f) => NamedTestPasses(f)
      BY NamedTestsPass
    <3>2. \A f : Claimed(f) <=>
                    HasTestCommand(f)' /\ (f \in Python => changedFiles' \cap Test \cap Python = {})
      BY <2>1 DEF Claimed, HasTestCommand
    <3>3. \A f : NamedTestPasses(f) <=> NamedTestPasses(f)'
      BY DEF NamedTestPasses
    <3> HIDE DEF Sound
    <3> QED
      BY <2>1, <3>1, <3>2, <3>3 DEF FirstAnswerIsVerified
  <2> HIDE DEF Sound
  <2>3. CASE Commands(changedFiles) = {}
    <3>1. Sound
      BY <2>3 DEF Sound
    <3>2. passed' = TRUE /\ attempts' = attempts
      BY <1>3, <2>3 DEF Gate
    <3>3. passed'
      BY <3>2, Zenon
    <3>4. passed' \in BOOLEAN /\ pc' = "answered"
      BY <2>1, <3>2, <3>3, Zenon
    <3> QED
      BY <2>1, <2>2, <3>1, <3>2, <3>4
  <2>4. CASE Commands(changedFiles) # {}
    <3>1. PICK failed \in {Fails(changedFiles), TRUE} :
            /\ passed' = (~failed \/ attempts >= MaxRepairAttempts)
            /\ attempts' = attempts + IF failed THEN 1 ELSE 0
      BY <1>3, <2>4 DEF Gate
    <3>2. attempts' \in Nat /\ passed' \in BOOLEAN
      BY <3>1
    <3>3. CASE ~passed'
      BY <2>1, <3>2, <3>3 DEF FirstAnswerIsVerified
    <3>4. CASE passed' /\ failed
      <4>1. attempts >= MaxRepairAttempts
        BY <3>1, <3>4, Zenon
      <4>2. attempts' = attempts + 1
        BY <3>1, <3>4
      <4>3. attempts' > MaxRepairAttempts
        BY <4>1, <4>2, VerificationAssumption
      <4> QED
        BY <2>1, <3>2, <3>4, <4>3 DEF FirstAnswerIsVerified, GaveUp
    <3>5. CASE passed' /\ ~failed
      <4>1. Sound
        BY <3>1, <3>5 DEF Sound
      <4> QED
        BY <2>1, <2>2, <3>2, <3>5, <4>1
    <3> QED
      BY <3>3, <3>4, <3>5
  <2> QED
    BY <2>3, <2>4
<1>4. CASE Prompt
  BY <1>4 DEF Prompt, FirstAnswerIsVerified
<1>5. CASE UNCHANGED verificationVars
  BY <1>5 DEF verificationVars, FirstAnswerIsVerified, GaveUp, HasTestCommand, NamedTestPasses
<1> QED
  BY <1>1, <1>2, <1>3, <1>4, <1>5 DEF VerificationNext

\* For any files, tests and imports, and whatever is changed and repaired before it: the
\* first answer stands only over recorded files whose test of their name passes, or after
\* all repairs; for files of a language that a test command is found for, and for Python
\* if no Python test was changed (agent_runner.py, router.py).
THEOREM FirstAnswerVerified == VerificationSpec => []FirstAnswerIsVerified
<1>1. VerificationInit => VerifiedInv
  <2> SUFFICES ASSUME VerificationInit PROVE VerifiedInv
    OBVIOUS
  <2>1. /\ changedFiles = {} /\ broken = {} /\ attempts = 0 /\ prompts = 1
        /\ pc = "working"
    BY DEF VerificationInit
  <2>2. passed = FALSE
    BY DEF VerificationInit
  <2>3. passed \in BOOLEAN /\ ~passed
    BY <2>2, Zenon
  <2>4. FirstAnswerIsVerified
    BY <2>1 DEF FirstAnswerIsVerified
  <2> QED
    BY <2>1, <2>3, <2>4 DEF VerifiedInv
<1>2. VerifiedInv /\ [VerificationNext]_verificationVars => VerifiedInv'
  BY VerifiedStep
<1>3. VerifiedInv => FirstAnswerIsVerified
  BY DEF VerifiedInv
<1> QED
  BY <1>1, <1>2, <1>3, PTL DEF VerificationSpec

-----------------------------------------------------------------------------
(* The messages of hooks.                                                  *)

\* Two sequences in a row have the elements of both.
LEMMA ConcatElements ==
    ASSUME NEW s \in Seq(Nat), NEW t \in Seq(Nat)
    PROVE  /\ s \o t \in Seq(Nat) /\ Elements(s \o t) = Elements(s) \cup Elements(t)
           /\ Once(s) /\ Once(t) /\ Elements(s) \cap Elements(t) = {} => Once(s \o t)
<1> DEFINE u == s \o t
           n == Len(s)
<1>1. n \in Nat /\ Len(t) \in Nat /\ DOMAIN s = 1..n /\ DOMAIN t = 1..Len(t)
  OBVIOUS
<1>2. /\ u \in Seq(Nat) /\ DOMAIN u = 1..(n + Len(t))
      /\ \A i \in 1..n : i \in DOMAIN u /\ u[i] = s[i]
      /\ \A i \in 1..Len(t) : n + i \in DOMAIN u /\ u[n + i] = t[i]
  BY <1>1
<1> HIDE DEF u, n
<1>3. \A i \in DOMAIN u : i \in 1..n \/ (i - n \in 1..Len(t) /\ u[i] = t[i - n])
  <2>1. ASSUME NEW i \in DOMAIN u, i \notin 1..n
        PROVE  i - n \in 1..Len(t) /\ n + (i - n) = i
    BY <1>1, <1>2, <2>1
  <2> QED
    BY <1>2, <2>1
<1>4. Elements(u) = Elements(s) \cup Elements(t)
  <2>1. ASSUME NEW i \in DOMAIN u
        PROVE  u[i] \in Elements(s) \cup Elements(t)
    BY <1>1, <1>3, <1>2 DEF Elements
  <2>2. \A i \in DOMAIN s : s[i] \in Elements(u)
    BY <1>1, <1>2 DEF Elements
  <2>3. \A i \in DOMAIN t : t[i] \in Elements(u)
    BY <1>1, <1>2 DEF Elements
  <2> QED
    BY <2>1, <2>2, <2>3, Zenon DEF Elements
<1>5. ASSUME Once(s), Once(t), Elements(s) \cap Elements(t) = {}
      PROVE  Once(u)
  <2> SUFFICES ASSUME NEW i \in DOMAIN u, NEW j \in DOMAIN u, u[i] = u[j]
               PROVE  i = j
    BY DEF Once
  <2>1. CASE i \in 1..n /\ j \in 1..n
    BY <1>1, <1>2, <1>5, <2>1 DEF Once
  <2>2. CASE i \notin 1..n /\ j \notin 1..n
    <3>1. i - n = j - n
      BY <1>1, <1>3, <1>5, <2>2 DEF Once
    <3> QED
      BY <1>1, <1>2, <3>1
  <2>3. ASSUME NEW x \in 1..n, NEW y \in 1..Len(t)
        PROVE  s[x] # t[y]
    BY <1>1, <1>5 DEF Elements
  <2> QED
    BY <1>2, <1>3, <2>1, <2>2, <2>3
<1> QED
  BY <1>2, <1>4, <1>5 DEF u

\* The numbers up to n stand once each in the buffer or in a conversation.
Parts(n, buffer, conv) ==
    /\ 1..n = Elements(buffer) \cup UNION {Elements(conv[r]) : r \in HookRun}
    /\ Once(buffer)
    /\ \A r \in HookRun :
          /\ Once(conv[r]) /\ Elements(conv[r]) \cap Elements(buffer) = {}
          /\ \A s \in HookRun \ {r} : Elements(conv[r]) \cap Elements(conv[s]) = {}

\* Messages with new numbers join the buffer.
LEMMA NewMessages ==
    ASSUME NEW n \in Nat, NEW k \in Nat, NEW buffer \in Seq(Nat), NEW conv,
           Parts(n, buffer, conv)
    PROVE  /\ buffer \o [j \in 1..k |-> n + j] \in Seq(Nat)
           /\ Parts(n + k, buffer \o [j \in 1..k |-> n + j], conv)
<1> DEFINE new == [j \in 1..k |-> n + j]
<1>1. new \in Seq(Nat) /\ DOMAIN new = 1..k /\ \A j \in 1..k : new[j] = n + j
  OBVIOUS
<1> HIDE DEF new
<1>2. Elements(new) = (n + 1)..(n + k)
  <2>1. \A m \in (n + 1)..(n + k) : m - n \in 1..k /\ n + (m - n) = m
    OBVIOUS
  <2>2. \A j \in 1..k : n + j \in (n + 1)..(n + k)
    OBVIOUS
  <2>3. ASSUME NEW m \in (n + 1)..(n + k)
        PROVE  m \in Elements(new)
    <3>1. m - n \in DOMAIN new /\ new[m - n] = m
      BY <1>1, <2>1
    <3> QED
      BY <3>1 DEF Elements
  <2>4. \A j \in DOMAIN new : new[j] \in (n + 1)..(n + k)
    BY <1>1, <2>2
  <2> QED
    BY <2>3, <2>4, Zenon DEF Elements
<1>3. Once(new)
  BY <1>1 DEF Once
<1>4. 1..(n + k) = (1..n) \cup Elements(new) /\ (1..n) \cap Elements(new) = {}
  BY <1>2
<1>5. /\ buffer \o new \in Seq(Nat)
      /\ Elements(buffer \o new) = Elements(buffer) \cup Elements(new)
      /\ Once(buffer \o new)
  <2>1. Elements(buffer) \cap Elements(new) = {}
    BY <1>4 DEF Parts
  <2> QED
    BY <1>1, <1>3, <2>1, ConcatElements DEF Parts
<1> HIDE DEF new
<1>6. \A r \in HookRun : Elements(conv[r]) \subseteq 1..n
  BY DEF Parts
<1>7. Parts(n + k, buffer \o new, conv)
  BY <1>4, <1>5, <1>6, Zenon DEF Parts
<1> QED
  BY <1>5, <1>7 DEF new

\* A run that takes the buffer has what the buffer had.
LEMMA TakenMessages ==
    ASSUME NEW n \in Nat, NEW buffer \in Seq(Nat), NEW conv \in [HookRun -> Seq(Nat)],
           Parts(n, buffer, conv), NEW r \in HookRun
    PROVE  /\ [conv EXCEPT ![r] = conv[r] \o buffer] \in [HookRun -> Seq(Nat)]
           /\ Parts(n, <<>>, [conv EXCEPT ![r] = conv[r] \o buffer])
<1> DEFINE both == conv[r] \o buffer
           taken == [conv EXCEPT ![r] = both]
<1>1. /\ both \in Seq(Nat) /\ Elements(both) = Elements(conv[r]) \cup Elements(buffer)
      /\ Once(both)
  BY ConcatElements DEF Parts
<1> HIDE DEF both
<1>2. /\ taken \in [HookRun -> Seq(Nat)] /\ taken[r] = both
      /\ \A s \in HookRun \ {r} : taken[s] = conv[s]
  BY <1>1
<1> HIDE DEF taken
<1>3. Elements(<<>>) = {} /\ Once(<<>>)
  BY DEF Elements, Once
<1>4. 1..n = Elements(<<>>) \cup UNION {Elements(taken[s]) : s \in HookRun}
  <2>1. 1..n = Elements(buffer) \cup UNION {Elements(conv[s]) : s \in HookRun}
    BY DEF Parts
  <2>2. Elements(taken[r]) = Elements(conv[r]) \cup Elements(buffer)
    BY <1>1, <1>2
  <2> QED
    BY <1>2, <1>3, <2>1, <2>2
<1>5. ASSUME NEW s \in HookRun
      PROVE  Once(taken[s]) /\ Elements(taken[s]) \cap Elements(<<>>) = {}
  BY <1>1, <1>2, <1>3 DEF Parts
<1>6. ASSUME NEW s \in HookRun, NEW q \in HookRun \ {s}
      PROVE  Elements(taken[s]) \cap Elements(taken[q]) = {}
  <2>1. CASE s = r
    BY <1>1, <1>2, <2>1 DEF Parts
  <2>2. CASE q = r
    BY <1>1, <1>2, <2>2 DEF Parts
  <2>3. CASE s # r /\ q # r
    BY <1>2, <2>3 DEF Parts
  <2> QED
    BY <2>1, <2>2, <2>3
<1>7. Parts(n, <<>>, taken)
  BY <1>3, <1>4, <1>5, <1>6 DEF Parts
<1> QED
  BY <1>2, <1>7 DEF taken, both

MessagesInv ==
    /\ queue \in [HookRun -> SUBSET HookNumber]
    /\ emitted \in Seq(HookRun) /\ messages \in Seq(Nat)
    /\ added \in [HookRun -> Seq(Nat)]
    /\ Parts(Len(emitted), messages, added)

\* What prompt hooks leave is numbered on.
LEMMA LeaveKeepsMessages ==
    ASSUME NEW r \in HookRun, NEW k \in Nat, NEW held \in Seq(Nat), Leave(r, k, held),
           emitted \in Seq(HookRun), NEW conv, Parts(Len(emitted), held, conv)
    PROVE  /\ emitted' \in Seq(HookRun) /\ messages' \in Seq(Nat)
           /\ Parts(Len(emitted'), messages', conv)
<1>1. /\ emitted' = emitted \o [j \in 1..k |-> r]
      /\ messages' = held \o [j \in 1..k |-> Len(emitted) + j]
  BY DEF Leave
<1> DEFINE rs == [j \in 1..k |-> r]
<1>2. rs \in Seq(HookRun) /\ Len(rs) = k
  OBVIOUS
<1> HIDE DEF rs
<1>3. emitted' \in Seq(HookRun) /\ Len(emitted') = Len(emitted) + k /\ Len(emitted) \in Nat
  <2>1. emitted' = emitted \o rs
    BY <1>1 DEF rs
  <2>2. Len(emitted) \in Nat
    OBVIOUS
  <2> QED
    BY <1>2, <2>1, <2>2, ConcatProperties
<1> QED
  BY <1>1, <1>3, NewMessages

\* Running hooks adds messages and loses none.
LEMMA RunHooksKeepsMessages ==
    ASSUME MessagesInv, NEW r \in HookRun, NEW hooks \in SUBSET HookNumber,
           NEW held \in Seq(Nat), RunHooks(r, hooks, held),
           NEW conv, Parts(Len(emitted), held, conv)
    PROVE  /\ queue' \in [HookRun -> SUBSET HookNumber]
           /\ emitted' \in Seq(HookRun) /\ messages' \in Seq(Nat)
           /\ Parts(Len(emitted'), messages', conv)
<1>1. Prompts(Started(hooks)) \subseteq 1..Len(HookList) /\ Len(HookList) \in Nat
  <2>1. HookList \in Seq(Hook)
    BY HookAssumption
  <2> HIDE DEF Hook
  <2>2. Len(HookList) \in Nat /\ HookNumber = 1..Len(HookList)
    BY <2>1 DEF HookNumber
  <2>3. Prompts(Started(hooks)) \subseteq HookNumber
    BY DEF Prompts, Started
  <2> QED
    BY <2>2, <2>3
<1>2. Cardinality(Prompts(Started(hooks))) \in Nat
  <2>1. 0 \in Int /\ 1 \in Int /\ Len(HookList) \in Int
    BY <1>1
  <2>2. IsFiniteSet(1..Len(HookList))
    BY <2>1, FS_Interval
  <2>3. IsFiniteSet(Prompts(Started(hooks)))
    BY <1>1, <2>2, FS_Subset
  <2> QED
    BY <2>3, FS_CardinalityType
<1>3. Leave(r, Cardinality(Prompts(Started(hooks))), held)
  BY DEF RunHooks
<1>4. queue' \in [HookRun -> SUBSET HookNumber]
  BY DEF RunHooks, MessagesInv
<1>5. emitted \in Seq(HookRun)
  BY DEF MessagesInv
<1> QED
  BY <1>2, <1>3, <1>4, <1>5, LeaveKeepsMessages

\* Every step keeps each message in one place.
LEMMA MessagesStep ==
    ASSUME MessagesInv, [HookNext]_hookVars
    PROVE  MessagesInv'
<1>1. /\ queue \in [HookRun -> SUBSET HookNumber] /\ emitted \in Seq(HookRun)
      /\ messages \in Seq(Nat) /\ added \in [HookRun -> Seq(Nat)]
      /\ Parts(Len(emitted), messages, added)
  BY DEF MessagesInv
<1>2. CASE BackgroundEnds
  <2>1. PICK r \in HookRun, h \in HookNumber :
           Leave(r, IF HookList[h].action = "prompt" THEN 1 ELSE 0, messages)
    BY <1>2 DEF BackgroundEnds
  <2>2. UNCHANGED <<queue, added>>
    BY <1>2 DEF BackgroundEnds
  <2>3. (IF HookList[h].action = "prompt" THEN 1 ELSE 0) \in Nat
    OBVIOUS
  <2>4. /\ emitted' \in Seq(HookRun) /\ messages' \in Seq(Nat)
        /\ Parts(Len(emitted'), messages', added)
    BY <1>1, <2>1, <2>3, LeaveKeepsMessages
  <2> QED
    BY <1>1, <2>2, <2>4 DEF MessagesInv
<1>3. ASSUME NEW r \in HookRun, HookEnds(r)
      PROVE  MessagesInv'
  <2>1. RunHooks(r, queue[r], messages) /\ added' = added
    BY <1>3 DEF HookEnds
  <2>2. queue[r] \in SUBSET HookNumber
    BY <1>1
  <2>3. /\ queue' \in [HookRun -> SUBSET HookNumber]
        /\ emitted' \in Seq(HookRun) /\ messages' \in Seq(Nat)
        /\ Parts(Len(emitted'), messages', added)
    BY <1>1, <2>1, <2>2, RunHooksKeepsMessages
  <2> QED
    BY <1>1, <2>1, <2>3 DEF MessagesInv
<1>4. ASSUME NEW r \in HookRun, NextEvent(r)
      PROVE  MessagesInv'
  <2>1. PICK event : RunHooks(r, Matching(event, executed),
                              IF Collects(r) THEN <<>> ELSE messages)
    BY <1>4 DEF NextEvent, AfterCollect, CollectClears
  <2>2. added' = IF Collects(r) THEN [added EXCEPT ![r] = added[r] \o messages] ELSE added
    BY <1>4 DEF NextEvent
  <2> DEFINE held == IF Collects(r) THEN <<>> ELSE messages
  <2>3. /\ added' \in [HookRun -> Seq(Nat)] /\ held \in Seq(Nat)
        /\ Parts(Len(emitted), held, added')
    <3>1. Len(emitted) \in Nat
      BY <1>1
    <3>2. CASE Collects(r)
      <4>1. /\ [added EXCEPT ![r] = added[r] \o messages] \in [HookRun -> Seq(Nat)]
            /\ Parts(Len(emitted), <<>>, [added EXCEPT ![r] = added[r] \o messages])
        BY <1>1, <3>1, TakenMessages
      <4>2. <<>> \in Seq(Nat)
        OBVIOUS
      <4>3. added' = [added EXCEPT ![r] = added[r] \o messages] /\ held = <<>>
        BY <2>2, <3>2
      <4> HIDE DEF held
      <4> QED
        BY <4>1, <4>2, <4>3
    <3>3. CASE ~Collects(r)
      BY <1>1, <2>2, <3>3
    <3> QED
      BY <3>2, <3>3
  <2>4. Matching(event, executed) \in SUBSET HookNumber
    BY DEF Matching
  <2> HIDE DEF held
  <2>5. /\ queue' \in [HookRun -> SUBSET HookNumber]
        /\ emitted' \in Seq(HookRun) /\ messages' \in Seq(Nat)
        /\ Parts(Len(emitted'), messages', added')
    <3>1. RunHooks(r, Matching(event, executed), held)
      BY <2>1 DEF held
    <3> QED
      BY <2>3, <2>4, <3>1, RunHooksKeepsMessages
  <2> QED
    BY <2>3, <2>5 DEF MessagesInv
<1>5. CASE UNCHANGED hookVars
  BY <1>1, <1>5 DEF hookVars, engine, MessagesInv
<1> QED
  BY <1>2, <1>3, <1>4, <1>5 DEF HookNext

\* In every interleaving of runs and asynchronous hooks each message of a prompt hook
\* waits or has been taken by one conversation, once.
THEOREM EachPromptOnce == HookSpec => []PromptsAddedOnce
<1>1. HookInit => MessagesInv
  <2> SUFFICES ASSUME HookInit PROVE MessagesInv
    OBVIOUS
  <2>1. /\ messages = <<>> /\ emitted = <<>> /\ added = [r \in HookRun |-> <<>>]
        /\ queue = [r \in HookRun |-> {}]
    BY DEF HookInit
  <2>2. Elements(<<>>) = {} /\ Once(<<>>) /\ Len(<<>>) = 0 /\ 1..0 = {}
    BY DEF Elements, Once
  <2>3. \A r \in HookRun : added[r] = <<>>
    BY <2>1
  <2>4. Parts(Len(emitted), messages, added)
    BY <2>1, <2>2, <2>3 DEF Parts
  <2>5. /\ queue \in [HookRun -> SUBSET HookNumber] /\ added \in [HookRun -> Seq(Nat)]
        /\ messages \in Seq(Nat) /\ emitted \in Seq(HookRun)
    BY <2>1
  <2> QED
    BY <2>4, <2>5 DEF MessagesInv
<1>2. MessagesInv /\ [HookNext]_hookVars => MessagesInv'
  BY MessagesStep
<1>3. MessagesInv => PromptsAddedOnce
  <2>1. MessagesInv => DOMAIN emitted = 1..Len(emitted)
    BY DEF MessagesInv
  <2> QED
    BY <2>1, Zenon DEF MessagesInv, Parts, PromptsAddedOnce
<1> QED
  BY <1>1, <1>2, <1>3, PTL DEF HookSpec

=============================================================================

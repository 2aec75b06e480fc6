---------------------------- MODULE ResultBudget -----------------------------
(***************************************************************************)
(* How tool results are shortened for the model: what is too large is      *)
(* stored in a file and replaced by a preview, what is old is cut.  The    *)
(* history keeps the results as they were recorded; each decision is kept  *)
(* in the agent's replacement state, so that a request repeats the earlier *)
(* one word for word and the provider's prefix cache stays valid.          *)
(*                                                                         *)
(* The main agent may fork, one fork at a time: it starts from a copy of   *)
(* history and state, and stores results in the same directory.  Of the    *)
(* history, two kinds of messages matter: the results of a message, a set, *)
(* and the answer without tool calls that ends a turn, the empty set.      *)
(***************************************************************************)
EXTENDS Integers, Sequences, FiniteSets, Functions

CONSTANTS
    MaxResults,       \* bound: results of each agent
    MaxMessages,      \* bound: messages of a history
    MaxCalls,         \* bound: calls in one message
    Outputs,          \* bound: the forms of what tools give
    Length,           \* Form -> length
    SingleLimit,      \* SINGLE_RESULT_CHAR_LIMIT
    AggregateLimit,   \* AGGREGATE_CHAR_LIMIT
    SnipChars,        \* OLD_RESULT_SNIP_CHARS
    KeepTurns,        \* KEEP_RECENT_TURNS
    Batch,            \* SNIP_BATCH_TURNS
    MinKeep           \* MIN_KEEP_MESSAGES

\* short, long and huge are results as the tools give them; a stored one starts
\* with <persisted-output>, a snipped one with <snipped>.
Form == {"short", "long", "huge", "stored", "snipped"}
None == "none"

\* Both kinds of replacement are short: a snipped result keeps 200 characters, less
\* than OLD_RESULT_SNIP_CHARS = 2000, and no message has so many results that their
\* previews alone pass the limit.  Compaction keeps at most MIN_KEEP_MESSAGES = 5
\* messages, so no more turns than KEEP_RECENT_TURNS = 10.
ASSUME ResultBudgetAssumption ==
    /\ MaxResults \in [{"main", "fork"} -> Nat] /\ MaxMessages \in Nat /\ MaxCalls \in Nat \ {0}
    /\ Outputs \subseteq {"short", "long", "huge"}
    /\ SingleLimit \in Nat /\ AggregateLimit \in Nat /\ SnipChars \in Nat
    /\ KeepTurns \in Nat /\ Batch \in Nat \ {0} /\ MinKeep \in Nat
    /\ Length \in [Form -> Nat]
    /\ Length["huge"] > SingleLimit
    /\ \A f \in Form \ {"huge"} : Length[f] <= SingleLimit
    /\ Length["snipped"] <= SnipChars
    /\ MaxCalls * Length["stored"] <= AggregateLimit
    /\ MinKeep <= KeepTurns

Agent == {"main", "fork"}
Id == UNION {{a} \X (1..MaxResults[a]) : a \in Agent}
Nothing == [i \in Id |-> None]
Result == [id : Id, form : Form]

EndOfTurn == {}

VARIABLES
    phase,       \* what each agent does
    history,     \* its messages
    made,        \* how many results it has made
    seen,        \* seen_ids
    kept,        \* replacements
    boundary,    \* snipped_through_turn
    sent,        \* each result as the last request showed it
    restarted,   \* no request since the program was restarted
    files        \* the stored results, in one directory

state == <<seen, kept, boundary>>
vars == <<phase, history, made, state, sent, restarted, files>>

Init ==
    /\ phase = [a \in Agent |-> IF a = "main" THEN "idle" ELSE "none"]
    /\ history = [a \in Agent |-> <<>>]
    /\ made = [a \in Agent |-> 0]
    /\ seen = [a \in Agent |-> {}]
    /\ kept = [a \in Agent |-> Nothing]
    /\ boundary = [a \in Agent |-> 0]
    /\ sent = [a \in Agent |-> Nothing]
    /\ restarted = FALSE
    /\ files = {}

ResultsOf(h) == UNION Range(h)

Turns(h) == Cardinality({i \in DOMAIN h : h[i] = EndOfTurn})

-----------------------------------------------------------------------------
(* Passes 1 and 2: results that are too large, alone or together.          *)

Decided(a, r) == IF kept[a][r.id] # None THEN kept[a][r.id] ELSE r.form

\* Results nothing was decided about yet.
Fresh(a, m) ==
    {r \in m : /\ kept[a][r.id] = None
               /\ r.id \notin seen[a]
               /\ r.form # "stored"}

Oversized(a, m) == {r \in Fresh(a, m) : Length[r.form] > SingleLimit}

Rest(a, m) == Fresh(a, m) \ Oversized(a, m)

TotalOfRest(a, m) == SumFunction([r \in Rest(a, m) |-> Length[r.form]])

Total(a, m) ==
    SumFunction([r \in m |-> IF r \in Oversized(a, m) THEN Length["stored"]
                             ELSE Length[Decided(a, r)]])

\* The loop stores the rest one by one, the longest first, equal ones in the
\* order of the calls, until the message is within the limit.
Before(a, m, r) ==
    {s \in Rest(a, m) :
        \/ Length[s.form] > Length[r.form]
        \/ Length[s.form] = Length[r.form] /\ s.id[2] < r.id[2]}

StillTooMuch(a, m, r) ==
    Total(a, m) - SumFunction([s \in Before(a, m, r) |->
                                  Length[s.form] - Length["stored"]]) > AggregateLimit

Surplus(a, m) ==
    {r \in Rest(a, m) : \A s \in Before(a, m, r) \cup {r} : StillTooMuch(a, m, s)}

ToStore(a) ==
    UNION {Oversized(a, m) \cup Surplus(a, m) : m \in Range(history[a])}

\* Recorded with a preview in the first place: a decision like any other.
StoredAlready(a) ==
    {r \in ResultsOf(history[a]) : /\ kept[a][r.id] = None
                                   /\ r.id \notin seen[a]
                                   /\ r.form = "stored"}

AfterStoring(a, r) == IF r \in ToStore(a) THEN "stored" ELSE Decided(a, r)

-----------------------------------------------------------------------------
(* Pass 3: results that are old, batch by batch.                           *)

Target(a) == Turns(history[a]) - KeepTurns

\* The cursor falls back when the history has become shorter.
Cursor(a) ==
    IF Target(a) < boundary[a] THEN IF Target(a) > 0 THEN Target(a) ELSE 0
    ELSE boundary[a]

BatchIsFull(a) == Target(a) > 0 /\ Target(a) - Cursor(a) >= Batch

\* The results of the first turns, up to the given one.
ResultsUpTo(h, turn) ==
    UNION {h[i] : i \in {j \in DOMAIN h : Turns(SubSeq(h, 1, j)) <= turn}}

ToSnip(a) ==
    IF ~BatchIsFull(a) THEN {}
    ELSE {r \in ResultsUpTo(history[a], Target(a)) :
             /\ AfterStoring(a, r) \notin {"stored", "snipped"}
             /\ Length[AfterStoring(a, r)] > SnipChars}

Shown(a, r) == IF r \in ToSnip(a) THEN "snipped" ELSE AfterStoring(a, r)

-----------------------------------------------------------------------------
(* The agents.                                                             *)

IdsOf(results) == {r.id : r \in results}

ShownTo(a) ==
    [i \in Id |-> IF i \in IdsOf(ResultsOf(history[a]))
                  THEN Shown(a, CHOOSE r \in ResultsOf(history[a]) : r.id = i)
                  ELSE None]

\* One request to the model: the budget is applied to a copy of the history.
Request(a) ==
    /\ phase[a] = "idle"
    /\ phase' = [phase EXCEPT ![a] = "asked"]
    /\ sent' = [sent EXCEPT ![a] = ShownTo(a)]
    /\ kept' = [kept EXCEPT ![a] =
                   [i \in Id |->
                       IF i \in IdsOf(ToSnip(a)) THEN "snipped"
                       ELSE IF i \in IdsOf(ToStore(a) \cup StoredAlready(a)) THEN "stored"
                       ELSE @[i]]]
    /\ seen' = [seen EXCEPT ![a] = @ \cup IdsOf(ResultsOf(history[a]))]
    /\ boundary' = [boundary EXCEPT ![a] =
                       IF BatchIsFull(a) THEN Target(a) ELSE Cursor(a)]
    /\ files' = files \cup IdsOf(ToStore(a))
    /\ restarted' = (restarted /\ a # "main")
    /\ UNCHANGED <<history, made>>

\* The model answers without calling a tool: a turn of the main agent ends.
FinalAnswer ==
    /\ phase["main"] = "asked" /\ Len(history["main"]) < MaxMessages
    /\ history' = [history EXCEPT !["main"] = Append(@, EndOfTurn)]
    /\ phase' = [phase EXCEPT !["main"] = "idle"]
    /\ UNCHANGED <<made, state, sent, restarted, files>>

\* The request fails or the run is cancelled.
Abort ==
    /\ phase["main"] \in {"asked", "calling"}
    /\ phase' = [phase EXCEPT !["main"] = "idle"]
    /\ UNCHANGED <<history, made, state, sent, restarted, files>>

\* A result that is too large is stored at once.
Recorded(form) == IF form = "huge" THEN "stored" ELSE form

AddResults(a) ==
    /\ phase[a] \in {"asked", "calling"} /\ Len(history[a]) < MaxMessages
    /\ \E n \in 1..MaxCalls : \E output \in [1..n -> Outputs] :
          /\ made[a] + n <= MaxResults[a]
          /\ made' = [made EXCEPT ![a] = @ + n]
          /\ history' = [history EXCEPT ![a] = Append(@,
                {[id |-> <<a, made[a] + i>>, form |-> Recorded(output[i])] : i \in 1..n})]
          /\ files' = files \cup {<<a, made[a] + i>> : i \in {j \in 1..n : output[j] = "huge"}}
    /\ phase' = [phase EXCEPT ![a] = "idle"]
    /\ UNCHANGED <<state, sent, restarted>>

CloneNothing == UNCHANGED state

\* The Agent tool without a type: the call that runs gets a result of its own in
\* the fork, the state is cloned.  The provider has the main agent's last request
\* in its cache.
CloneState ==
    /\ seen' = [seen EXCEPT !["fork"] = seen["main"]]
    /\ kept' = [kept EXCEPT !["fork"] = kept["main"]]
    /\ boundary' = [boundary EXCEPT !["fork"] = boundary["main"]]

Fork ==
    /\ phase["main"] = "asked" /\ phase["fork"] = "none"
    /\ made["main"] < MaxResults["main"]
    /\ phase' = [phase EXCEPT !["main"] = "calling", !["fork"] = "idle"]
    /\ history' = [history EXCEPT !["fork"] =
          Append(history["main"],
                 {[id |-> <<"main", made["main"] + 1>>, form |-> "short"]})]
    /\ CloneState
    /\ sent' = [sent EXCEPT !["fork"] = sent["main"]]
    /\ UNCHANGED <<made, restarted, files>>

\* The fork answers, fails or is cancelled: that is its end.
EndFork ==
    /\ phase["fork"] = "asked"
    /\ phase' = [phase EXCEPT !["fork"] = "none"]
    /\ history' = [history EXCEPT !["fork"] = <<>>]
    /\ seen' = [seen EXCEPT !["fork"] = {}]
    /\ kept' = [kept EXCEPT !["fork"] = Nothing]
    /\ boundary' = [boundary EXCEPT !["fork"] = 0]
    /\ sent' = [sent EXCEPT !["fork"] = Nothing]
    /\ UNCHANGED <<made, restarted, files>>

\* The tail of the history stays, the directory is emptied, the state is not
\* touched.
Compact(a) ==
    /\ phase[a] = "idle"
    /\ \E tail \in 0..MinKeep :
          /\ tail < Len(history[a])
          /\ history' = [history EXCEPT ![a] =
                            SubSeq(@, Len(@) - tail + 1, Len(@))]
    /\ files' = {}
    /\ UNCHANGED <<phase, made, state, sent, restarted>>

\* /rewind and /new.  What a round is depends on messages that are left out here:
\* any end of the history may go.
Rewind ==
    /\ phase["main"] = "idle"
    /\ \E left \in 0..(Len(history["main"]) - 1) :
          history' = [history EXCEPT !["main"] = SubSeq(@, 1, left)]
    /\ UNCHANGED <<phase, made, state, sent, restarted, files>>

\* The program starts anew and resumes the session: a fork is gone, and nobody
\* reads the records of the decisions.
Restart ==
    /\ phase' = [a \in Agent |-> IF a = "main" THEN "idle" ELSE "none"]
    /\ history' = [history EXCEPT !["fork"] = <<>>]
    /\ seen' = [a \in Agent |-> {}]
    /\ kept' = [a \in Agent |-> Nothing]
    /\ boundary' = [a \in Agent |-> 0]
    /\ sent' = [sent EXCEPT !["fork"] = Nothing]
    /\ restarted' = TRUE
    /\ UNCHANGED <<made, files>>

Next ==
    \/ \E a \in Agent :
          Request(a) \/ AddResults(a) \/ Compact(a)
    \/ FinalAnswer \/ Abort \/ Fork \/ EndFork \/ Rewind \/ Restart

Spec == Init /\ [][Next]_vars

-----------------------------------------------------------------------------
(* Properties.                                                             *)

TypeOK ==
    /\ phase \in [Agent -> {"none", "idle", "asked", "calling"}]
    /\ history \in [Agent -> Seq(SUBSET Result)]
    /\ made \in [Agent -> Nat]
    /\ seen \in [Agent -> SUBSET Id]
    /\ kept \in [Agent -> [Id -> {None, "stored", "snipped"}]]
    /\ boundary \in [Agent -> Nat]
    /\ sent \in [Agent -> [Id -> Form \cup {None}]]
    /\ restarted \in BOOLEAN
    /\ files \subseteq Id

\* A request shows each result as the one before it did, whatever was added,
\* rewound, compacted or forked in between; only when a whole batch of turns has
\* become old, results that were whole are cut.
SentResultsAreStable ==
    [][\A a \in Agent, i \in Id :
          Request(a) /\ ~(restarted /\ a = "main")
          /\ sent[a][i] # None /\ sent'[a][i] \notin {None, sent[a][i]}
          => /\ sent'[a][i] = "snipped" /\ sent[a][i] # "stored"
             /\ boundary'[a] >= boundary[a] + Batch]_vars

\* The results of a message, as the model gets them, are within the limit
\* together.
WithinBudget ==
    \A a \in Agent : \A m \in Range(history[a]) :
        (\A r \in m : sent[a][r.id] # None)
        => SumFunction([r \in m |-> Length[sent[a][r.id]]]) <= AggregateLimit

-----------------------------------------------------------------------------
(* What the documentation of the code says and the code does not keep.     *)

\* A preview names the file that holds the whole result
\* (context/manager.py:222).
StoredResultsAreThere ==
    \A a \in Agent : phase[a] = "asked" =>
        \A r \in ResultsOf(history[a]) :
            sent[a][r.id] = "stored" => r.id \in files

\* A resumed session takes over the decisions (context/manager.py:261).
DecisionsSurviveRestart ==
    [][\A i \in Id : Request("main") /\ restarted /\ sent["main"][i] # None
          => sent'["main"][i] \in {None, sent["main"][i]}]_vars

=============================================================================

---------------------------- MODULE TaskLifecycle ----------------------------
(***************************************************************************)
(* What the background tasks of agents/task_manager.py promise to the      *)
(* lead, without mailboxes, follow-ups or the poller: a task is launched   *)
(* at most once, ends once in one of three ways, and is reported once,     *)
(* with the outcome it has when it is over.                                *)
(***************************************************************************)
CONSTANT Agent      \* agents that can be launched in the background

VARIABLES
    life,           \* where the task of each agent is
    outcome         \* its status once it is over

vars == <<life, outcome>>

Life == {"unborn", "working", "over", "reported"}
Outcome == {"completed", "failed", "cancelled"}
NoOutcome == "none"

Init ==
    /\ life = [a \in Agent |-> "unborn"]
    /\ outcome = [a \in Agent |-> NoOutcome]

Launch(a) ==
    /\ life[a] = "unborn"
    /\ life' = [life EXCEPT ![a] = "working"]
    /\ UNCHANGED outcome

End(a) ==
    /\ life[a] = "working"
    /\ life' = [life EXCEPT ![a] = "over"]
    /\ \E o \in Outcome : outcome' = [outcome EXCEPT ![a] = o]

\* All tasks that are over are reported together.
Report ==
    /\ \E a \in Agent : life[a] = "over"
    /\ life' = [a \in Agent |->
                   IF life[a] = "over" THEN "reported" ELSE life[a]]
    /\ UNCHANGED outcome

Next == (\E a \in Agent : Launch(a) \/ End(a)) \/ Report

Spec == Init /\ [][Next]_vars

=============================================================================

---------------------------- MODULE SharedTasks ----------------------------
(***************************************************************************)
(* The task board of a team (teams/shared_task.py) and the four tools the  *)
(* members use on it.  All members of a team share one store, a dictionary *)
(* in memory and the file tasks.json, which is read before every look and  *)
(* every update and written after every change; no tool awaits anything.   *)
(* A write may fail before it touches the file, or leave it torn.  Ids are *)
(* numbers, and a task is known by the call that created it.               *)
(***************************************************************************)
EXTENDS Naturals, FiniteSets

CONSTANTS MaxCreates    \* calls of TaskCreate (bound)

VARIABLES
    store,      \* the manager has a store for the team
    nextId, tasks,      \* _next_id and _tasks: id to [made, status]
    disk,       \* the file: "absent", "torn" or [next, tasks]
    creates,    \* calls of TaskCreate so far
    told        \* what the tools reported: call to [id, status]

sharedVars == <<store, nextId, tasks, disk, creates, told>>

NoTasks == [i \in {} |-> 0]
Statuses == {"pending", "in_progress", "completed", "blocked"}
Torn == [next |-> 0, tasks |-> NoTasks]      \* json.loads raises
Absent == [next |-> 1, tasks |-> NoTasks]

SharedInit ==
    /\ store = TRUE /\ nextId = 1 /\ tasks = NoTasks /\ disk = Absent
    /\ creates = 0 /\ told = NoTasks

Put(f, k, v) == [i \in DOMAIN f \cup {k} |-> IF i = k THEN v ELSE f[i]]

\* _load overwrites what the file names, and keeps what only memory has.
LoadedTasks ==
    [i \in DOMAIN tasks \cup DOMAIN disk.tasks |->
        IF i \in DOMAIN disk.tasks THEN disk.tasks[i] ELSE tasks[i]]
LoadedNext == IF disk = Absent THEN nextId ELSE disk.next

\* _save: the file is written, left as it was, or torn.
Content(next, ts) == [next |-> next, tasks |-> ts]
SavedWithoutNext(next, ts) == Content(1, ts)
Saved(next, ts) == Content(next, ts)

\* TaskCreate takes the next id of memory and does not read the file.
Create(saves) ==
    LET task == [made |-> creates + 1, status |-> "pending"]
        ts == Put(tasks, nextId, task)
    IN /\ store /\ creates < MaxCreates
       /\ creates' = creates + 1
       /\ tasks' = ts /\ nextId' = nextId + 1
       /\ disk' = CASE saves = "yes" -> Saved(nextId + 1, ts)
                    [] saves = "no" -> disk
                    [] saves = "torn" -> Torn
       /\ told' = IF saves = "yes"
                  THEN Put(told, creates + 1, [id |-> nextId, status |-> "pending"])
                  ELSE told
       /\ UNCHANGED store

\* TaskGet and TaskList: with a torn file the tool call is an error.
Look ==
    /\ store /\ disk # Torn
    /\ tasks' = LoadedTasks /\ nextId' = LoadedNext
    /\ UNCHANGED <<store, disk, creates, told>>

\* TaskUpdate: the status is checked before the store is asked.
Update(id, status, saves) ==
    LET ts == [LoadedTasks EXCEPT ![id].status = status]
        call == LoadedTasks[id].made
    IN /\ store /\ disk # Torn /\ id \in DOMAIN LoadedTasks
       /\ tasks' = ts /\ nextId' = LoadedNext
       /\ disk' = CASE saves = "yes" -> Saved(LoadedNext, ts)
                    [] saves = "no" -> disk
                    [] saves = "torn" -> Torn
       /\ told' = IF saves = "yes" /\ call \in DOMAIN told
                  THEN [told EXCEPT ![call].status = status] ELSE told
       /\ UNCHANGED <<store, creates>>

\* TeamDelete drops the store with the directory; its members get errors.
Drop ==
    /\ store /\ store' = FALSE /\ disk' = Absent
    /\ UNCHANGED <<nextId, tasks, creates, told>>

SharedNext ==
    \/ \E s \in {"yes", "no", "torn"} :
          Create(s) \/ \E id \in 1..MaxCreates, st \in {"pending", "completed"} : Update(id, st, s)
    \/ Look \/ Drop

SharedSpec == SharedInit /\ [][SharedNext]_sharedVars

----------------------------------------------------------------------------
\* What the board shows, after the file was read.
Board == IF disk = Torn THEN tasks ELSE LoadedTasks

\* A task that was reported as created stays on the board under the id that was
\* reported: no failed write, of it or of another task, no repair of a torn file
\* and no id counted back by a reload makes a later task take its place
\* (shared_task.py, create, _load and _save).
ReportedStay ==
    store => \A c \in DOMAIN told :
                told[c].id \in DOMAIN Board /\ Board[told[c].id].made = c

\* A call that ended in an error has changed nothing the board shows.
ErrorsChangeNothing ==
    \A i \in DOMAIN Board :
        /\ Board[i].made \in DOMAIN told
        /\ Board[i].status = told[Board[i].made].status
============================================================================

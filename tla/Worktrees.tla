------------------------------ MODULE Worktrees ------------------------------
(***************************************************************************)
(* WorktreeManager (worktree/) and those who share it: the /worktree       *)
(* command and the tools EnterWorktree and ExitWorktree, sub-agents that   *)
(* are isolated in a worktree of their own (tools/agent_tool.py), the loop *)
(* that removes stale worktrees, and the restart of the program, which     *)
(* finds the sessions file.                                                *)
(*                                                                         *)
(* Nothing in the methods of the manager waits while its lock is held, so  *)
(* each is one step, which may fail half-way: a worktree is added and its  *)
(* setup raises, the removal of one does not succeed, the sessions file is *)
(* not written or torn.  A kill between two of these leaves what a failure *)
(* of the second one leaves, and a restart follows.  Of the files of a     *)
(* worktree only what git tells of them is kept: commits on top of the     *)
(* commit it was created from, and whether something is not committed.     *)
(***************************************************************************)
EXTENDS Integers, Sequences, FiniteSets

CONSTANTS
    Own,            \* names the user or the model gives to worktrees
    Isolated,       \* generated names of the worktrees of sub-agents
    Root,           \* the project itself
    Faults,         \* what may fail: "git" when asked for changes, the "setup" of a
                    \* worktree, to "remove" one, to "write" the sessions file
    MaxCommits,     \* bound: commits in a worktree
    MaxFailures,    \* bound: steps in which something fails
    MaxRestarts     \* bound: restarts

ASSUME WorktreesAssumption ==
    /\ Faults \subseteq {"git", "setup", "remove", "write"}
    /\ MaxCommits \in Nat /\ MaxFailures \in Nat /\ MaxRestarts \in Nat

VARIABLES
    tree,           \* the directory of each name: what git and its mtime tell
    strays,         \* names of which a branch is left without its worktree
    active,         \* _active, in the order of the dictionary
    saved,          \* worktree_sessions.json
    agent,          \* the sub-agent of each isolated worktree
    workdir,        \* work_dir of the main agent
    released,       \* history: worktrees left on purpose
    missed,         \* history: those a failure has kept out of the file since
    failures, restarts

records == <<saved, missed, failures>>

worktreeVars ==
    <<tree, strays, active, records, agent, workdir, released, restarts>>

Name == Own \cup Isolated
NoTree == [there |-> FALSE, commits |-> 0, dirty |-> FALSE, aged |-> FALSE]
NewTree == [NoTree EXCEPT !.there = TRUE]

WorktreesInit ==
    /\ tree = [n \in Name |-> NoTree]
    /\ strays = {}
    /\ active = <<>> /\ saved = <<>>
    /\ agent = [n \in Isolated |-> "none"]
    /\ workdir = Root
    /\ released = {} /\ missed = {}
    /\ failures = 0 /\ restarts = 0

-----------------------------------------------------------------------------
(* WorktreeManager.                                                        *)

Names(handles) == {handles[i].name : i \in DOMAIN handles}

HandleOf(n) == active[CHOOSE i \in DOMAIN active : active[i].name = n]

\* Assigning to a key that is there keeps its place.
Put(handles, h) ==
    IF h.name \in Names(handles)
    THEN [i \in DOMAIN handles |-> IF handles[i].name = h.name THEN h ELSE handles[i]]
    ELSE Append(handles, h)

\* Those of other names, in their order.
Without(handles, names) ==
    LET kept[i \in 0..Len(handles)] ==
            IF i = 0 THEN <<>>
            ELSE IF handles[i].name \in names THEN kept[i - 1]
            ELSE Append(kept[i - 1], handles[i])
    IN kept[Len(handles)]

Fault == failures < MaxFailures /\ failures' = failures + 1

\* _persist_sessions: the file is written in place and a failure is swallowed; it
\* leaves the file as it was, or torn, which is read as no entries.  `stuck` are the
\* worktrees that were to be removed and are still there.
Persist(stuck) ==
    LET entries == [i \in DOMAIN active' |->
                       [name |-> active'[i].name, branch |-> active'[i].branch]]
    IN \/ /\ saved' = entries
          /\ IF stuck = {} THEN UNCHANGED failures ELSE Fault
          /\ missed' = (missed \cup stuck) \ Names(active')
       \/ /\ "write" \in Faults /\ Fault /\ saved' \in {saved, <<>>}
          /\ missed' = missed \cup stuck
                         \cup ((Names(saved) \cup Names(active')) \ Names(saved'))

\* The worktrees, of those to be removed, that git does not remove.
Stuck(names) ==
    IF "remove" \in Faults THEN SUBSET {n \in names : tree[n].there} ELSE {{}}

\* _remove_worktree_dir: by force, and the branch when the handle knows it; an
\* error is not looked at.
Remove(names, stuck) ==
    /\ tree' = [n \in Name |-> IF n \in names \ stuck THEN NoTree ELSE tree[n]]
    /\ strays' = strays \cup {n \in names \ stuck : tree[n].there /\ ~HandleOf(n).branch}

\* git adds the worktree; it refuses a directory that is there.
Add(n) ==
    /\ n \notin Names(active) /\ ~tree[n].there
    /\ tree' = [tree EXCEPT ![n] = NewTree]
    /\ released' = released \ {n}

CreateUnsaved(n) ==
    /\ Add(n)
    /\ active' = Append(active, [name |-> n, branch |-> TRUE, base |-> 0])
    /\ UNCHANGED records

\* A name that is active is left as it is.
Create(n) ==
    /\ Add(n)
    /\ active' = Append(active, [name |-> n, branch |-> TRUE, base |-> 0])
    /\ Persist({})

\* _post_create_setup raises: the worktree is there and in no record.
CreateFails(n) ==
    /\ "setup" \in Faults /\ Fault /\ Add(n)
    /\ missed' = missed \cup {n}
    /\ UNCHANGED <<active, saved>>

\* A handle made of what is there: its branch is not known, its head is today's.
Enter(n) ==
    /\ tree[n].there
    /\ active' = Put(active, [name |-> n, branch |-> FALSE, base |-> tree[n].commits])

Exit(n, action) ==
    /\ active' = Without(active, {n})
    /\ \/ /\ action = "remove"
          /\ \E stuck \in Stuck({n}) : Remove({n}, stuck) /\ Persist(stuck)
          /\ UNCHANGED released
       \/ /\ action = "keep"
          /\ released' = released \cup {n} /\ UNCHANGED <<tree, strays>>
          /\ Persist({})

\* count_worktree_changes: an exception counts as a change, an error of git as
\* none.
ChangesUncommittedOnly(n, base) == {tree[n].dirty}

Changes(n, base) ==
    {tree[n].dirty \/ tree[n].commits > base} \cup (IF "git" \in Faults THEN {FALSE, TRUE} ELSE {})

-----------------------------------------------------------------------------
(* The user and the main agent.                                            *)

\* /worktree create and /worktree enter, also while a run streams.
CreateCommand(n) ==
    /\ \/ Create(n) /\ workdir' = n
       \/ CreateFails(n) /\ UNCHANGED workdir
       \/ n \in Names(active) /\ workdir' = n
          /\ UNCHANGED <<tree, active, released, records>>
    /\ UNCHANGED <<strays, agent, restarts>>

EnterCommand(n) ==
    /\ Enter(n)
    /\ workdir' = n
    /\ UNCHANGED <<tree, strays, records, agent, released, restarts>>

\* /worktree exit: the last of the active ones, whatever is in it.
ExitCommand(action) ==
    /\ active # <<>>
    /\ Exit(active[Len(active)].name, action)
    /\ workdir' = Root
    /\ UNCHANGED <<agent, restarts>>

\* The tool creates as the command does, and the agent stays where it is.  Sub-agents
\* have both tools.
EnterTool(n) ==
    /\ Create(n) \/ CreateFails(n)
    /\ UNCHANGED <<strays, agent, workdir, restarts>>

ExitTool(action, discard) ==
    /\ active # <<>>
    /\ LET h == active[Len(active)] IN
       /\ action = "remove" /\ ~discard => FALSE \in Changes(h.name, h.base)
       /\ Exit(h.name, action)
    /\ UNCHANGED <<agent, workdir, restarts>>

\* Whoever works in a worktree edits or commits; the directory itself gets a new
\* mtime only when one of its own entries does.
Work(n) ==
    /\ tree[n].there /\ (workdir = n \/ (n \in Isolated /\ agent[n] = "working"))
    /\ \/ tree[n].commits < MaxCommits
          /\ tree' = [tree EXCEPT ![n] =
                        [tree[n] EXCEPT !.commits = @ + 1, !.dirty = FALSE]]
       \/ \E aged \in {tree[n].aged, FALSE} :
             tree' = [tree EXCEPT ![n] =
                        [tree[n] EXCEPT !.dirty = TRUE, !.aged = aged]]
    /\ UNCHANGED <<strays, active, records, agent, workdir, released, restarts>>

-----------------------------------------------------------------------------
(* Sub-agents.                                                             *)

StartAgent(n) ==
    /\ agent[n] = "none"
    /\ \/ Create(n) /\ agent' = [agent EXCEPT ![n] = "working"]
       \/ CreateFails(n) /\ UNCHANGED agent
    /\ UNCHANGED <<strays, workdir, restarts>>

\* auto_cleanup, by the head the worktree was created with.
FinishAgent(n) ==
    /\ agent[n] = "working"
    /\ agent' = [agent EXCEPT ![n] = "over"]
    /\ \/ /\ n \in Names(active) /\ FALSE \in Changes(n, 0)
          /\ active' = Without(active, {n})
          /\ \E stuck \in Stuck({n}) : Remove({n}, stuck) /\ Persist(stuck)
       \/ /\ n \in Names(active) => TRUE \in Changes(n, 0)
          /\ UNCHANGED <<tree, strays, active, records>>
    /\ UNCHANGED <<workdir, released, restarts>>

\* A run that raises or is cancelled leaves the worktree.
FailAgent(n) ==
    /\ agent[n] = "working"
    /\ agent' = [agent EXCEPT ![n] = "over"]
    /\ UNCHANGED <<tree, strays, active, records, workdir, released, restarts>>

-----------------------------------------------------------------------------
(* Time and restarts.                                                      *)

Age(n) ==
    /\ tree[n].there /\ ~tree[n].aged
    /\ tree' = [tree EXCEPT ![n] = [tree[n] EXCEPT !.aged = TRUE]]
    /\ UNCHANGED <<strays, active, records, agent, workdir, released, restarts>>

CleanupStale ==
    /\ LET stale == {n \in Names(active) : ~tree[n].there \/ tree[n].aged}
       IN /\ stale # {}
          /\ active' = Without(active, stale)
          /\ \E stuck \in Stuck(stale) : Remove(stale, stuck) /\ Persist(stuck)
    /\ UNCHANGED <<agent, workdir, released, restarts>>

\* The program ends or dies, and starts again: restore_session, with the heads of
\* now.  The last worktree of the file is where the main agent works.
Restart ==
    /\ restarts < MaxRestarts /\ restarts' = restarts + 1
    /\ LET found == Without(saved, {n \in Name : ~tree[n].there})
       IN /\ active' = [i \in DOMAIN found |->
                           [name |-> found[i].name, branch |-> found[i].branch,
                            base |-> tree[found[i].name].commits]]
          /\ workdir' = IF found = <<>> THEN Root ELSE found[Len(found)].name
    /\ agent' = [n \in Isolated |-> IF agent[n] = "working" THEN "over" ELSE agent[n]]
    /\ UNCHANGED <<tree, strays, records, released>>

-----------------------------------------------------------------------------

Action == {"keep", "remove"}

WorktreesNext ==
    \/ \E n \in Own : CreateCommand(n) \/ EnterTool(n)
    \/ \E n \in Name : EnterCommand(n) \/ Work(n) \/ Age(n)
    \/ \E action \in Action : ExitCommand(action)
    \/ \E action \in Action, discard \in BOOLEAN : ExitTool(action, discard)
    \/ \E n \in Isolated : StartAgent(n) \/ FinishAgent(n) \/ FailAgent(n)
    \/ CleanupStale \/ Restart

WorktreesSpec == WorktreesInit /\ [][WorktreesNext]_worktreeVars
-----------------------------------------------------------------------------
(* Properties.                                                             *)

Tree == [there : BOOLEAN, commits : 0..MaxCommits, dirty : BOOLEAN, aged : BOOLEAN]
Handle == [name : Name, branch : BOOLEAN, base : 0..MaxCommits]
SavedHandle == [name : Name, branch : BOOLEAN]

Distinct(handles) ==
    \A i, j \in DOMAIN handles : handles[i].name = handles[j].name => i = j

\* Every variable stays in its type; a worktree is active once, and in the file
\* once.
WorktreesTypeOK ==
    /\ tree \in [Name -> Tree]
    /\ strays \subseteq Name /\ released \subseteq Name /\ missed \subseteq Name
    /\ active \in Seq(Handle) /\ Distinct(active)
    /\ saved \in Seq(SavedHandle) /\ Distinct(saved)
    /\ agent \in [Isolated -> {"none", "working", "over"}]
    /\ workdir \in Name \cup {Root}

\* A worktree that is there and was not left on purpose is in the sessions file, so
\* that a restart at any time finds it again; but for those whose setup or removal
\* failed, or that a failing write has left out, until a write that names them.
NothingForgotten ==
    \A n \in Name : tree[n].there /\ n \notin released \cup missed => n \in Names(saved)

\* Work in n that the step destroys: what was not committed, and the commits when
\* the branch goes with the worktree.
Lost(n) ==
    /\ tree[n].there /\ ~tree'[n].there
    /\ tree[n].dirty \/ (tree[n].commits > 0 /\ n \notin strays')

\* The clean-up after a sub-agent removes a worktree only without a change, and
\* ExitWorktree without discard_changes none with changes, nor, in the session that
\* made them, one with commits of its own, whoever entered, left or removed worktrees
\* meanwhile and whatever failed (auto_cleanup, "fail-closed", and exit_worktree.py).
\* Nothing is said of cleanup_stale, which removes by age, work or not, nor of
\* commands that ask for the removal.
RemovalKeepsWork ==
    [][\A n \in Name : Lost(n) =>
          /\ \A s \in Isolated : ~FinishAgent(s)
          /\ ExitTool("remove", FALSE) => restarts > 0 /\ ~tree[n].dirty]_worktreeVars

-----------------------------------------------------------------------------
(* What the documentation of the code says and the code does not keep: the   *)
(* README tells how each of these comes to be violated.                      *)

\* Every worktree that is there and was not left on purpose is in the file, also
\* after a failure.
FoundAfterFailures ==
    \A n \in Name : tree[n].there /\ n \notin released => n \in Names(saved)

\* The removal of stale worktrees destroys no work.
StaleKeepsWork == [][CleanupStale => \A n \in Name : ~Lost(n)]_worktreeVars

\* The same for every session (the description of the tool): commits made before
\* a restart count as well.
UnconfirmedExitKeepsCommits ==
    [][ExitTool("remove", FALSE) => \A n \in Name : ~Lost(n)]_worktreeVars

\* With a worktree ExitWorktree deletes its branch (same place).
RemoveTakesBranch ==
    [][\A discard \in BOOLEAN : ExitTool("remove", discard) => strays' = strays]_worktreeVars

\* A worktree somebody works in is not stale (the docstring of cleanup_stale).
StaleIsUnused ==
    [][CleanupStale => \A n \in Name :
          tree[n].there /\ ~tree'[n].there
            => workdir # n /\ ~(n \in Isolated /\ agent[n] = "working")]_worktreeVars

\* After EnterWorktree the agent is in the worktree (the answer of the tool).
EnterToolEnters ==
    [][\A n \in Own : EnterTool(n) => workdir' = n]_worktreeVars

\* The worktree that is left is one that the user or the model entered (the comment
\* in exit_worktree.py), not that of a sub-agent at work.
ExitSparesAgents ==
    [][\A action \in Action : ExitCommand(action) =>
          \A n \in Isolated : agent[n] = "working" => tree'[n].there = tree[n].there]_worktreeVars

\* The main agent never finds itself in the worktree of a sub-agent it did not
\* enter: restore_session restores the worktree of the last session.
RestoredIsOwn ==
    [][Restart => workdir' \in Own \cup {Root} \/ workdir' = workdir]_worktreeVars

=============================================================================

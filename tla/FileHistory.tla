----------------------------- MODULE FileHistory -----------------------------
(***************************************************************************)
(* The files the agent edits: the content cache of the file tools          *)
(* (cache.py, tools/read_file.py, write_file.py, edit_file.py,             *)
(* apply_patch_tool.py), the backups and snapshots of                      *)
(* filehistory/history.py, and /rewind, which takes turns from the history *)
(* and puts the files back (commands/handlers/rewind.py).                  *)
(*                                                                         *)
(* Every change of a file gives it a content never seen before, so that a  *)
(* content is a number and says when it was written; Absent is a file that *)
(* is not there.  Of the history only the roles matter.                    *)
(***************************************************************************)
EXTENDS Integers, Sequences, FiniteSets

CONSTANTS
    File,
    MAX_SNAPSHOTS,
    MaxChanges,         \* bound: contents written
    MaxVersion,         \* bound: tracked edits of a file
    MaxMessages,        \* bound: length of the history
    MaxConversations,   \* bound: conversations of the session
    MaxRewinds,         \* bound: rewinds
    Shell               \* whether Bash and apply_patch also change files

ASSUME FileAssumption ==
    /\ IsFiniteSet(File) /\ MAX_SNAPSHOTS \in Nat \ {0}
    /\ MaxChanges \in Nat \ {0} /\ MaxVersion \in Nat /\ MaxMessages \in Nat /\ MaxConversations \in Nat
    /\ MaxRewinds \in Nat
    /\ Shell \in BOOLEAN

VARIABLES
    disk,           \* content of each file
    cache,          \* FileCache._store
    fetched,        \* files read from the disk since they last changed
    tracked,        \* FileHistory._tracked: version of each file, 0 if none
    backup,         \* content of the backup file of each version
    snapshots,      \* FileHistory._snapshots
    history,        \* roles of the messages of the conversation
    phase,          \* "idle", "ask" the model or executing "tools"
    conversations,
    rewinds,
    changes,        \* contents written so far
    attempts        \* tracked edits the history tells of

fileVars == <<disk, changes, fetched>>
historyVars == <<tracked, backup, snapshots>>
counters == <<conversations, rewinds>>
vars == <<fileVars, cache, historyVars, history, phase, counters, attempts>>

Absent == 0
Content == 0..MaxChanges
Version == 1..MaxVersion

Init ==
    /\ disk \in [File -> {Absent, 1}]
    /\ changes = 1
    /\ cache = [f \in File |-> Absent]
    /\ fetched = {}
    /\ tracked = [f \in File |-> 0]
    /\ backup = [f \in File |-> [v \in Version |-> Absent]]
    /\ snapshots = <<>>
    /\ history = <<>>
    /\ phase = "idle"
    /\ conversations = 1 /\ rewinds = 0
    /\ attempts = {}

-----------------------------------------------------------------------------
(* The conversation.                                                       *)

\* A prompt, a response with tool calls, their results: messages are added.
Say(role, from, to) ==
    /\ phase = from /\ phase' = to
    /\ Len(history) < MaxMessages
    /\ history' = Append(history, role)

Prompt ==
    /\ Say("user", "idle", "ask")
    /\ UNCHANGED <<fileVars, cache, historyVars, counters, attempts>>

CallTools ==
    /\ Say("assistant", "ask", "tools")
    /\ UNCHANGED <<fileVars, cache, historyVars, counters, attempts>>

AddResults ==
    /\ Say("user", "tools", "ask")
    /\ UNCHANGED <<fileVars, cache, historyVars, counters, attempts>>

\* A run that is cancelled or fails takes no snapshot.
Cancel ==
    /\ phase # "idle"
    /\ phase' = "idle"
    /\ UNCHANGED <<fileVars, cache, historyVars, history, counters,
                   attempts>>

\* /session new: another conversation, the same FileHistory.
NewConversation ==
    /\ phase = "idle" /\ conversations < MaxConversations
    /\ conversations' = conversations + 1
    /\ history' = <<>>
    /\ attempts' = {}
    /\ UNCHANGED <<fileVars, cache, historyVars, phase, rewinds>>

-----------------------------------------------------------------------------
(* The tools.                                                              *)

Unfetch == fetched' = fetched \ {f \in File : disk'[f] # disk[f]}

Change(f) ==
    /\ changes < MaxChanges
    /\ changes' = changes + 1
    /\ disk' = [disk EXCEPT ![f] = changes + 1]
    /\ Unfetch

\* An edit that is tracked: the message that will hold its result, the rewinds
\* before it, and the content of the file.
Attempt(f, v) ==
    [file |-> f, at |-> Len(history) + 1, since |-> rewinds, version |-> v,
     before |-> disk[f]]

\* track_edit keeps the content before the edit, whatever becomes of the edit.
TrackEditAfterWrite(f) ==
    LET v == tracked[f] + 1 IN
    /\ v \in Version
    /\ backup' = [backup EXCEPT ![f][v] = changes + 1]
    /\ tracked' = [tracked EXCEPT ![f] = v]
    /\ attempts' = attempts \cup {Attempt(f, v)}
    /\ UNCHANGED snapshots

TrackEdit(f) ==
    LET v == tracked[f] + 1 IN
    /\ v \in Version
    /\ backup' = IF disk[f] = Absent THEN backup
                 ELSE [backup EXCEPT ![f] = [backup[f] EXCEPT ![v] = disk[f]]]
    /\ tracked' = [tracked EXCEPT ![f] = v]
    /\ attempts' = attempts \cup {Attempt(f, v)}
    /\ UNCHANGED snapshots

Invalidate(f) == cache' = [cache EXCEPT ![f] = Absent]

\* WriteFile, and EditFile when it finds its string once.
WriteFile(f) ==
    /\ phase = "tools"
    /\ TrackEdit(f)
    /\ Change(f)
    /\ Invalidate(f)
    /\ UNCHANGED <<history, phase, counters>>

\* EditFile of a file or a string that is not there.
EditFails(f) ==
    /\ phase = "tools"
    /\ TrackEdit(f)
    /\ UNCHANGED <<fileVars, cache, history, phase, counters>>

\* `if self._cache': a FileCache has a length, and an empty one is false.
UsesCacheIfGiven == TRUE

UsesCache == \E f \in File : cache[f] # Absent

ReadFile(f) ==
    /\ phase = "tools" /\ disk[f] # Absent
    /\ IF UsesCache /\ cache[f] # Absent THEN UNCHANGED <<cache, fetched>>
       ELSE /\ fetched' = fetched \cup {f}
            /\ cache' = IF UsesCache THEN [cache EXCEPT ![f] = disk[f]]
                        ELSE cache
    /\ UNCHANGED <<disk, changes, historyVars, history, phase, counters,
                   attempts>>

\* What ReadFile would answer.
Answer(f) == IF UsesCache /\ cache[f] # Absent THEN cache[f] ELSE disk[f]

\* apply_patch plans all its writes and then performs them one by one; a write
\* that fails ends it.
ApplyPatch(planned) ==
    /\ phase = "tools" /\ Shell
    /\ \E done \in SUBSET planned :
          /\ changes + Cardinality(done) <= MaxChanges
          /\ \E new \in [done -> (changes + 1)..(changes + Cardinality(done))] :
                /\ \A f, g \in done : new[f] = new[g] => f = g
                /\ disk' = [f \in File |-> IF f \in done THEN new[f] ELSE disk[f]]
          /\ changes' = changes + Cardinality(done)
    /\ Unfetch
    /\ UNCHANGED <<cache, historyVars, history, phase, counters, attempts>>

\* A command writes or removes a file.
Bash(f) ==
    /\ phase = "tools" /\ Shell
    /\ \/ Change(f)
       \/ disk[f] # Absent /\ disk' = [disk EXCEPT ![f] = Absent]
                           /\ Unfetch /\ UNCHANGED changes
    /\ UNCHANGED <<cache, historyVars, history, phase, counters, attempts>>

-----------------------------------------------------------------------------
(* Snapshots.                                                              *)

Suffix(s, n) == SubSeq(s, IF Len(s) > n THEN Len(s) - n + 1 ELSE 1, Len(s))

\* make_snapshot copies a file of which no backup of this version exists.
Backups ==
    [f \in File |-> [v \in Version |->
        IF v = tracked[f] /\ backup[f][v] = Absent THEN disk[f]
        ELSE backup[f][v]]]

Snapshot(at) ==
    [at |-> at, version |-> tracked,
     held |-> [f \in File |-> IF tracked[f] = 0 THEN Absent
                              ELSE Backups[f][tracked[f]]]]

\* A run ends with a final answer.
Finish ==
    /\ Say("assistant", "ask", "idle")
    /\ backup' = Backups
    /\ snapshots' = Suffix(Append(snapshots, Snapshot(Len(history) + 1)),
                           MAX_SNAPSHOTS)
    /\ UNCHANGED <<fileVars, cache, tracked, counters, attempts>>

-----------------------------------------------------------------------------
(* /rewind.                                                                *)

\* The longest beginning of h whose last message, if any, is of the role.
EndingWith(h, role) ==
    CHOOSE n \in 0..Len(h) :
        /\ n = 0 \/ h[n] = role
        /\ \A i \in (n + 1)..Len(h) : h[i] # role

\* One round: the messages that are not the user's, then those that are.
OneTurnLess(h) ==
    LET users == SubSeq(h, 1, EndingWith(h, "user"))
    IN SubSeq(users, 1, EndingWith(users, "assistant"))

TurnsLess(h, n) ==
    LET after[i \in 0..n] == IF i = 0 THEN h ELSE OneTurnLess(after[i - 1])
    IN after[n]

\* _snapshot_index_for_history: of the snapshots later than the history the
\* first with the least message index; none is 0.
SnapshotIndex(len) ==
    LET later == {i \in DOMAIN snapshots : snapshots[i].at > len}
    IN IF later = {} THEN 0
       ELSE CHOOSE i \in later : \A j \in later :
               snapshots[i].at < snapshots[j].at
                 \/ (snapshots[i].at = snapshots[j].at /\ i <= j)

\* FileHistory.rewind.
RestoreForgetsVersions(i) ==
    LET target == snapshots[i].version
        inIt == {f \in File : target[f] # 0}
        restored == [f \in File |->
                        IF f \in inIt THEN backup[f][target[f]] ELSE disk[f]]
    IN /\ disk' = restored
       /\ Unfetch
       /\ snapshots' = SubSeq(snapshots, 1, i)
       /\ tracked' = [f \in File |-> IF f \in inIt THEN 0 ELSE tracked[f]]
       /\ UNCHANGED backup

Restore(i) ==
    LET target == snapshots[i].version
        inIt == {f \in File : target[f] # 0}
        restored == [f \in File |->
                        IF f \in inIt THEN backup[f][target[f]] ELSE disk[f]]
    IN /\ disk' = restored
       /\ Unfetch
       /\ snapshots' = SubSeq(snapshots, 1, i)
       /\ tracked' = [f \in File |-> IF f \in inIt THEN target[f] ELSE tracked[f]]
       /\ UNCHANGED backup

Rounds == 1..((MaxMessages + 1) \div 2)

\* Between two runs; AgentLoop has the rewinds under a run.
Rewind(n) ==
    /\ phase = "idle" /\ history # <<>>
    /\ rewinds < MaxRewinds /\ rewinds' = rewinds + 1
    /\ history' = TurnsLess(history, n)
    /\ LET i == SnapshotIndex(Len(history'))
       IN IF i = 0 THEN UNCHANGED <<disk, fetched, historyVars>> ELSE Restore(i)
    /\ attempts' = {e \in attempts : e.at <= Len(history')}
    /\ UNCHANGED <<changes, cache, phase, conversations>>

-----------------------------------------------------------------------------

Next ==
    \/ Prompt \/ CallTools \/ AddResults \/ Finish \/ Cancel \/ NewConversation
    \/ \E f \in File : WriteFile(f) \/ EditFails(f) \/ ReadFile(f) \/ Bash(f)
    \/ \E planned \in (SUBSET File) \ {{}} : ApplyPatch(planned)
    \/ \E n \in Rounds : Rewind(n)

Spec == Init /\ [][Next]_vars

-----------------------------------------------------------------------------
(* Properties.                                                             *)

\* Every variable stays in its type; no version is used that was not given out.
TypeOK ==
    /\ disk \in [File -> Content] /\ cache \in [File -> Content]
    /\ tracked \in [File -> {0} \cup Version]
    /\ backup \in [File -> [Version -> Content]]
    /\ Len(snapshots) <= MAX_SNAPSHOTS
    /\ \A i \in DOMAIN snapshots : \A f \in File :
          snapshots[i].version[f] <= tracked[f]
    /\ history \in Seq({"user", "assistant"})
    /\ phase \in {"idle", "ask", "tools"}
    /\ changes \in Content /\ fetched \subseteq File

\* Versions are given out again after a rewind; still the contents a snapshot
\* refers to are those of the time it was taken, however the edits, rewinds and
\* dropped snapshots since then went.
SnapshotsKeepContents ==
    \A i \in DOMAIN snapshots : \A f \in File :
        LET s == snapshots[i] IN
        s.held[f] # Absent => backup[f][s.version[f]] = s.held[f]

\* ReadFile answers with the content the file has, whoever changed it: the tools
\* that invalidate the cache, or Bash, apply_patch and /rewind, which do not.
ReadsAreCurrent == \A f \in File : disk[f] # Absent => Answer(f) = disk[f]

RemovedEdits(f) == {e \in attempts : e.file = f /\ e.at > Len(history')}

SnapshotsRemoved ==
    {i \in DOMAIN snapshots : snapshots[i].at > Len(history')}

\* A rewind that takes away exactly one edit of a file that was there before it
\* gives the file the content it had, when a run that ended since the edit is
\* taken away with it, none that ended before and no rewind came between.
RewindUndoesSoleEdit ==
    [][\A n \in Rounds : Rewind(n) =>
          \A f \in File : \A e \in RemovedEdits(f) :
              /\ RemovedEdits(f) = {e}
              /\ e.before # Absent /\ e.since = rewinds
              /\ SnapshotsRemoved # {}
              /\ \A s \in SnapshotsRemoved : snapshots[s].version[f] = e.version
              => disk'[f] = e.before]_vars

-----------------------------------------------------------------------------
(* What the documentation of the code says and the code does not keep: the   *)
(* README tells how each of these comes to be violated.                      *)

\* The rewind takes turns away as a whole, of runs of which the last has ended.
WholeTurnsGo ==
    LET ends == {snapshots[i].at : i \in DOMAIN snapshots}
    IN Len(history) \in ends /\ Len(history') \in ends \cup {0}

\* The first of the edits of f that a rewind takes away.
FirstRemoved(f) ==
    {e \in RemovedEdits(f) : \A d \in RemovedEdits(f) :
        e.at < d.at \/ (e.at = d.at /\ e.version <= d.version)}

\* A rewind that takes away whole turns puts back every file that was there and
\* was edited in them (the comment over the restoring in rewind.py).
RewindUndoesRemovedEdits ==
    [][\A n \in Rounds : Rewind(n) /\ WholeTurnsGo =>
          \A f \in File : \A e \in FirstRemoved(f) :
              e.before # Absent => disk'[f] = e.before]_vars

\* ... and removes every file that they created.
RewindRemovesCreatedFiles ==
    [][\A n \in Rounds : Rewind(n) /\ WholeTurnsGo =>
          \A f \in File : \A e \in FirstRemoved(f) :
              e.before = Absent => disk'[f] = Absent]_vars

\* A rewind that takes away whole turns leaves the files alone that they did not
\* edit (the docstring of _snapshot_index_for_history).
RewindKeepsEarlierTurns ==
    [][\A n \in Rounds : Rewind(n) /\ WholeTurnsGo =>
          \A f \in File : RemovedEdits(f) = {} => disk'[f] = disk[f]]_vars

\* A file that was read and has not changed since is in the cache: to read it
\* again costs no disk access (the docstring of cache.py).
ReadsAreCached == \A f \in fetched : UsesCache /\ cache[f] # Absent

\* A patch changes all of its files or none of them.
PatchIsAtomic ==
    [][\A planned \in SUBSET File : ApplyPatch(planned) =>
          \/ \A f \in planned : disk'[f] = disk[f]
          \/ \A f \in planned : disk'[f] # disk[f]]_vars

=============================================================================

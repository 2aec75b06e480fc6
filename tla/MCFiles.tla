------------------------------- MODULE MCFiles -------------------------------
(***************************************************************************)
(* The files of the project, for TLC: the history that a rewind restores   *)
(* them from, the worktrees and the index of the repository.  A behaviour  *)
(* is one of the three and the others stand still.  The index is of two    *)
(* source files, one of which a test imports by a module name that either  *)
(* may stand for, and only the first of them with the tsconfig.json that   *)
(* may be written.                                                         *)
(***************************************************************************)
EXTENDS FileHistory, Worktrees, RepoIndex

VARIABLE part    \* which of the three models takes its steps

\* One import, of a module that either of two files may stand for.
MCCandidates == [default |-> [m |-> <<"a", "b">>], mapped |-> [m |-> <<"a">>]]

Defines(name) == [NoText EXCEPT !.defs = {name}]
Imports == [NoText EXCEPT !.uses = {"n"}, !.imports = {"m"}]
Maps == [NoText EXCEPT !.paths = "mapped"]

MCText == {Defines("n"), Imports, Maps}

MCStart == [f \in Path |-> CASE f = "b" -> Defines("n")
                             [] f = "t" -> Imports
                             [] OTHER -> NoText]

MCInit ==
    part \in {"history", "worktrees", "index"} /\ Init /\ WorktreesInit /\ IndexInit

MCNext ==
    \/ part = "history" /\ Next /\ UNCHANGED <<part, worktreeVars, indexVars>>
    \/ part = "worktrees" /\ WorktreesNext /\ UNCHANGED <<part, vars, indexVars>>
    \/ part = "index" /\ IndexNext /\ UNCHANGED <<part, vars, worktreeVars>>

MCSpec == MCInit /\ [][MCNext]_<<part, vars, worktreeVars, indexVars>>

=============================================================================

----------------------------- MODULE RepoIndex -----------------------------
(***************************************************************************)
(* Repository intelligence: an index of the workspace (what files define,  *)
(* refer to, import and call) in a JSON file with an SQLite mirror, brought *)
(* up to date file by file while files are edited and other processes do   *)
(* the same.                                                               *)
(***************************************************************************)
EXTENDS Integers, Sequences, FiniteSets

CONSTANTS
    Path,            \* paths
    Config,          \* the path of tsconfig.json
    Candidates,      \* by what tsconfig.json says, for a module name the paths it may
                     \* stand for, in order
    Text,            \* texts: [defs, uses, imports, paths], the last one of tsconfig.json;
                     \* one that does not parse is empty
    Start,           \* texts of the files at first
    Process,         \* the processes that load the index
    MaxEdits         \* bound: edits

VARIABLES
    text,            \* the text of each file, NoText for a path without file
    stamp,           \* its size and mtime, 0 for a path without file
    json,            \* .xhx/repo/index.json
    mirror,          \* the symbols table of .xhx/repo/index.db
    work,            \* what a process has gathered
    ways,            \* history: what tsconfig.json has said
    edits

workspace == <<text, stamp, ways, edits>>
indexVars == <<workspace, json, mirror, work>>

NoText == [defs |-> {}, uses |-> {}, imports |-> {}, paths |-> "default"]

ASSUME IndexAssumption == Config \in Path /\ Start \in [Path -> Text \cup {NoText}]

\* An index of nothing; also what a missing or unreadable file is taken for.
Nothing == [map |-> [f \in Path |-> 0], symbols |-> {}, imports |-> {},
            calls |-> {}, references |-> {}]

\* Of a file that is replaced in place there is nothing to read in between.
NoFile == {}
Torn == {}

Idle == [pc |-> "idle", old |-> Nothing, new |-> Nothing]

IndexInit ==
    /\ text = Start
    /\ stamp = [f \in Path |-> IF Start[f] = NoText THEN 0 ELSE 1]
    /\ json = NoFile /\ mirror = NoFile
    /\ work = [p \in Process |-> Idle]
    /\ ways = {Start[Config].paths}
    /\ edits = 1

-----------------------------------------------------------------------------
(* What is read from the files `some`, and what is kept of an old index.   *)

Known(map) == {f \in Path : map[f] # 0}

Changed(old, map) == {f \in Known(map) : map[f] # old[f]}

Unchanged(old, map) == {f \in Known(map) : map[f] = old[f]}

SymbolsIn(some) == UNION {{f} \X text[f].defs : f \in some}

\* _first_known, of the candidates that tsconfig.json gives now.
Resolve(module, known) ==
    LET candidates == Candidates[text[Config].paths][module]
        found == {i \in DOMAIN candidates : candidates[i] \in known}
    IN {candidates[i] : i \in {j \in found : \A k \in found : j <= k}}

ImportsIn(some, known) ==
    UNION {{<<f, target>> : target \in UNION {Resolve(m, known) : m \in text[f].imports}}
              : f \in some}

\* A name that is defined once resolves; a definition in the file itself wins.
Callee(f, name, symbols) ==
    LET inFile == {s \in symbols : s = <<f, name>>}
        all == {s \in symbols : s[2] = name}
    IN IF inFile # {} THEN f
       ELSE IF Cardinality(all) = 1 THEN (CHOOSE s \in all : TRUE)[1]
       ELSE "none"

CallsIn(some, symbols) ==
    UNION {{<<f, n, Callee(f, n, symbols)>> : n \in text[f].uses} : f \in some}

ReferencesIn(some, symbols) ==
    UNION {{<<f, n>> : n \in text[f].uses \cap {s[2] : s \in symbols}} : f \in some}

KeptFrom(edges, paths) == {e \in edges : e[1] \in paths}

-----------------------------------------------------------------------------
(* Loading the index.                                                      *)

At(p, pc) == work[p].pc = pc

Move(p, new, pc) ==
    work' = [work EXCEPT ![p] = [@ EXCEPT !.new = new, !.pc = pc]]

\* load_repo_intel_index: an index that cannot be read is built anew, one whose
\* fingerprint is that of the files is returned, any other is brought up to date.
\* `init` and --refresh build anew in any case.
Load(p, refresh) ==
    /\ At(p, "idle")
    /\ \/ /\ json = {} \/ refresh
          /\ work' = [work EXCEPT ![p] = [Idle EXCEPT !.pc = "stat"]]
       \/ /\ ~refresh
          /\ \E index \in json :
                IF index.map = stamp
                THEN work' = [work EXCEPT ![p] =
                         [Idle EXCEPT !.pc = "loaded", !.new = index]]
                ELSE work' = [work EXCEPT ![p] =
                         [Idle EXCEPT !.pc = "stat", !.old = index]]
    /\ UNCHANGED <<workspace, json, mirror>>

ReadTexts(p) == Changed(work[p].old.map, work[p].new.map)

\* A source file that has gone since it was seen is an OSError, which ends the load.
Vanished(p) == \E f \in ReadTexts(p) \ {Config} : stamp[f] = 0

\* build_repo_map: the sizes and mtimes are taken before any text is read.
Stat(p) ==
    /\ At(p, "stat")
    /\ Move(p, [Nothing EXCEPT !.map = stamp], "symbols")
    /\ UNCHANGED <<workspace, json, mirror>>

GatherSymbols(p) ==
    LET me == work[p]
    IN /\ At(p, "symbols") /\ ~Vanished(p)
       /\ Move(p, [me.new EXCEPT !.symbols =
                      KeptFrom(me.old.symbols, Unchanged(me.old.map, me.new.map))
                          \cup SymbolsIn(ReadTexts(p))],
               "imports")
       /\ UNCHANGED <<workspace, json, mirror>>

\* What an unchanged file imports is kept, although tsconfig.json may have changed.
GatherImports(p) ==
    LET me == work[p]
        known == Known(me.new.map)
    IN /\ At(p, "imports") /\ ~Vanished(p)
       /\ Move(p, [me.new EXCEPT !.imports =
                      {e \in KeptFrom(me.old.imports, Unchanged(me.old.map, me.new.map)) :
                          e[2] \in known}
                          \cup ImportsIn(ReadTexts(p), known)],
               "calls")
       /\ UNCHANGED <<workspace, json, mirror>>

\* The call graph and the references, of the symbols just gathered.  Bounds on
\* their number are not reached here.
GatherCalls(p) ==
    LET me == work[p]
        paths == Unchanged(me.old.map, me.new.map)
    IN /\ At(p, "calls") /\ ~Vanished(p)
       /\ Move(p, [me.new EXCEPT
                      !.calls = {e \in KeptFrom(me.old.calls, paths) :
                                    e[3] \in Known(me.new.map) \cup {"none"}}
                                    \cup CallsIn(ReadTexts(p), me.new.symbols),
                      !.references = KeptFrom(me.old.references, paths)
                                    \cup ReferencesIn(ReadTexts(p), me.new.symbols)],
               "write")
       /\ UNCHANGED <<workspace, json, mirror>>

\* write_repo_intel_index: the JSON file is emptied and filled; then the mirror
\* is replaced in one transaction, and a failure of that is only logged.
WrittenWithStampsNow(p) == [work[p].new EXCEPT !.map = stamp]
Written(p) == work[p].new

Write(p) ==
    /\ At(p, "write") \/ At(p, "fill")
    /\ json' = IF At(p, "write") THEN Torn ELSE {Written(p)}
    /\ Move(p, work[p].new, IF At(p, "write") THEN "fill" ELSE "mirror")
    /\ UNCHANGED <<workspace, mirror>>

Mirror(p, succeeds) ==
    /\ At(p, "mirror")
    /\ mirror' = IF succeeds THEN {work[p].new.symbols} ELSE mirror
    /\ Move(p, work[p].new, "loaded")
    /\ UNCHANGED <<workspace, json>>

\* The load failed on a vanished file, the caller is done, or the process died.
Leave(p) ==
    /\ ~At(p, "idle")
    /\ work' = [work EXCEPT ![p] = Idle]
    /\ UNCHANGED <<workspace, json, mirror>>

\* A file is written or deleted; size and mtime tell it from what it was.
Edit(f, new) ==
    /\ edits < MaxEdits
    /\ new # text[f] /\ (new = NoText \/ (f = Config <=> new.paths # NoText.paths))
    /\ edits' = edits + 1
    /\ text' = [text EXCEPT ![f] = new]
    /\ ways' = ways \cup {text'[Config].paths}
    /\ stamp' = [stamp EXCEPT ![f] = IF new = NoText THEN 0 ELSE edits + 1]
    /\ UNCHANGED <<json, mirror, work>>

-----------------------------------------------------------------------------
(* search_symbols.                                                         *)

\* The mirror is asked when it is there, else the index in memory.
SearchSymbols(p) == IF mirror = NoFile THEN work[p].new.symbols
                    ELSE CHOOSE symbols \in mirror : TRUE

IndexNext ==
    \/ \E f \in Path, new \in Text \cup {NoText} : Edit(f, new)
    \/ \E p \in Process :
          \/ \E refresh \in BOOLEAN : Load(p, refresh)
          \/ Stat(p) \/ GatherSymbols(p) \/ GatherImports(p) \/ GatherCalls(p)
          \/ Write(p)
          \/ \E succeeds \in BOOLEAN : Mirror(p, succeeds)
          \/ Leave(p)

IndexSpec == IndexInit /\ [][IndexNext]_indexVars

-----------------------------------------------------------------------------
(* Properties.                                                             *)

Current(index) == index.map = stamp

\* Edge e leads where an import of its file does in one of the ways `told`.
MayImport(e, told) ==
    \E m \in text[e[1]].imports, way \in told :
        \E i \in DOMAIN Candidates[way][m] : Candidates[way][m][i] = e[2]

\* An index whose fingerprint is that of the files is returned as it is, so
\* what it says of a file must be what the file says now, whoever edited it
\* while the index was built and however many updates it went through: its
\* symbols are those of the files, its edges start from names that are there
\* and lead to files that are; the edges of imports as some tsconfig.json that
\* the project has had resolves them, not always the present one.
FreshWhenCurrent ==
    \A index \in json : Current(index) =>
        /\ index.symbols = SymbolsIn(Path)
        /\ \A e \in index.imports : stamp[e[2]] # 0 /\ MayImport(e, ways)
        /\ \A e \in index.calls : e[2] \in text[e[1]].defs \cup text[e[1]].uses
        /\ \A r \in index.references : r[2] \in text[r[1]].uses

\* The reverse: an index that passes for current holds every edge and every
\* reference that an index built from nothing would hold.  (What an unchanged
\* file says depends on other files: a module that was added, a name that is
\* now defined twice.)
CompleteWhenCurrent ==
    \A index \in json : Current(index) =>
        /\ index.imports = ImportsIn(Path, Known(stamp))
        /\ index.calls = CallsIn(Path, index.symbols)
        /\ index.references = ReferencesIn(Path, index.symbols)

\* The edges of imports are those that the present tsconfig.json gives.
FollowsConfigWhenCurrent ==
    \A index \in json : Current(index) =>
        \A e \in index.imports : MayImport(e, {text[Config].paths})

\* "Queries go through the index in memory, the mirror is only written": a
\* search on a loaded index finds what that index holds.
QueriesFollowIndex ==
    \A p \in Process : At(p, "loaded") => SearchSymbols(p) = work[p].new.symbols

=============================================================================

----------------------------- MODULE Verification -----------------------------
(***************************************************************************)
(* The verification gate of a chat: before an answer ends a run, the tests *)
(* that repository intelligence finds for the changed files are run, and a *)
(* failure goes back to the model, a bounded number of times.  Where no    *)
(* command is found the answer stands.                                     *)
(***************************************************************************)
EXTENDS Integers, FiniteSets

CONSTANTS
    Source,            \* source files
    Test,              \* test files
    Python,            \* those of Python; the others are of JavaScript or TypeScript
    Scripts,           \* what package.json may hold: sets of scripts, {} without one
    TakesTargets,      \* the test script runs the tests it is given, not always all
    DirectTest,        \* [Source -> SUBSET Test]: the test that has the name of a file
    Imports,           \* pairs: a file and a file it imports
    Covers,            \* [Test -> SUBSET Source]: what a test would find broken
    Ways,              \* how files are changed: "path", "patch", "shell"
    MaxImpactDepth,    \* DEFAULT_IMPACT_DEPTH
    MaxRepairAttempts, \* MAX_REPAIR_ATTEMPTS
    MaxPrompts,        \* bound: prompts
    MaxChanges         \* bound: changes

ASSUME VerificationAssumption ==
    /\ MaxImpactDepth \in Nat /\ MaxRepairAttempts \in Nat
    /\ MaxPrompts \in Nat /\ MaxChanges \in Nat
    /\ Scripts \subseteq SUBSET {"test", "typecheck", "build"} /\ TakesTargets \in BOOLEAN
    \* A test that has the name of a file is of its language.
    /\ \A f \in Source : \A t \in DirectTest[f] : t \in Test /\ (t \in Python <=> f \in Python)

VARIABLES
    pc,                \* "working", "gate" or "answered"
    broken,            \* the source files that fail a test which covers them
    scripts,           \* the scripts of package.json
    changedFiles,      \* _changed_files
    passed,            \* _verification_passed
    attempts,          \* _repair_attempts
    prompts, changes

verificationVars == <<pc, broken, scripts, changedFiles, passed, attempts, prompts, changes>>

VerificationInit ==
    /\ pc = "working" /\ broken = {} /\ scripts \in Scripts /\ changedFiles = {}
    /\ passed = FALSE /\ attempts = 0
    /\ prompts = 1 /\ changes = 0

-----------------------------------------------------------------------------
(* infer_verification: the commands, each as the set of tests it runs.      *)

\* The files that import one of `some`, MaxImpactDepth steps back.
Importers(some) ==
    LET reached[n \in 0..MaxImpactDepth] ==
            IF n = 0 THEN some
            ELSE reached[n - 1] \cup {e[1] : e \in {x \in Imports : x[2] \in reached[n - 1]}}
    IN reached[MaxImpactDepth] \ some

DirectTests(some) == (some \cap Test) \cup UNION {DirectTest[f] : f \in some \cap Source}

TargetsByImport(some) == Importers(some) \cap Test

\* Only where no test has the name of a changed file the import graph is asked.
ImpactedTests(some) ==
    IF DirectTests(some) # {} THEN DirectTests(some) ELSE Importers(some) \cap Test

\* For Python tests that were changed themselves; else the impacted ones; else all.
Targets(some) ==
    LET tests == some \cap Test \cap Python
        impacted == ImpactedTests(some) \cap Python
    IN CASE tests # {} -> tests
         [] tests = {} /\ impacted # {} -> impacted
         [] OTHER -> Test \cap Python

ScriptTargets(some) ==
    LET impacted == ImpactedTests(some) \ Python
    IN IF TakesTargets /\ impacted # {} THEN impacted ELSE Test \ Python

\* Python is looked for among the changed files.  A type check or a build, where
\* there is no test script, runs no test.
Commands(some) ==
    {Targets(some) : f \in some \cap Python}
    \cup IF "test" \in scripts THEN {ScriptTargets(some)} ELSE {{} : x \in scripts}

Fails(some) ==
    \E tests \in Commands(some) : \E test \in tests : Covers[test] \cap broken # {}

-----------------------------------------------------------------------------

\* Only WriteFile and EditFile are recorded: a patch names its files within its
\* text, and a shell command names none.
Recorded(how, f) == IF how = "path" THEN {f} ELSE {}

Change(how, f) ==
    /\ pc = "working" /\ changes < MaxChanges
    /\ changes' = changes + 1
    /\ broken' \in IF f \in Source THEN {broken \cup {f}, broken \ {f}} ELSE {broken}
    /\ scripts' \in IF f = "package.json" THEN Scripts ELSE {scripts}
    /\ changedFiles' = changedFiles \cup Recorded(how, f)
    /\ UNCHANGED <<pc, passed, attempts, prompts>>

\* A response without tool calls.
FinalAnswer ==
    /\ pc = "working"
    /\ pc' = IF changedFiles # {} /\ ~passed THEN "gate" ELSE "answered"
    /\ UNCHANGED <<broken, scripts, changedFiles, passed, attempts, prompts, changes>>

\* _run_verification_gate; decide_repair.  Nothing to run is a pass; a command that
\* does not start or does not end in time has failed.
Gate ==
    /\ pc = "gate"
    /\ \/ /\ Commands(changedFiles) = {}
          /\ passed' = TRUE /\ UNCHANGED attempts
       \/ /\ Commands(changedFiles) # {}
          /\ \E failed \in {Fails(changedFiles), TRUE} :
                /\ passed' = (~failed \/ attempts >= MaxRepairAttempts)
                /\ attempts' = attempts + IF failed THEN 1 ELSE 0
    /\ pc' = IF passed' THEN "answered" ELSE "working"
    /\ UNCHANGED <<broken, scripts, changedFiles, prompts, changes>>

\* The next prompt, of the same chat.
Prompt ==
    /\ pc = "answered" /\ prompts < MaxPrompts
    /\ prompts' = prompts + 1
    /\ pc' = "working"
    /\ UNCHANGED <<broken, scripts, changedFiles, passed, attempts, changes>>

VerificationNext ==
    \/ \E how \in Ways, f \in Source \cup Test \cup {"package.json"} : Change(how, f)
    \/ FinalAnswer \/ Gate \/ Prompt

VerificationSpec == VerificationInit /\ [][VerificationNext]_verificationVars

-----------------------------------------------------------------------------
(* Properties.                                                             *)

GaveUp == attempts > MaxRepairAttempts

\* The gate finds a command that runs tests of the language of f.
HasTestCommand(f) == f \in Python \/ "test" \in scripts

NamedTestPasses(f) == \A t \in DirectTest[f] : f \notin Covers[t]

\* The first answer of a chat does not stand while a recorded file fails the test
\* that has its name, unless the repairs are used up, whatever was changed between
\* the failures.  Left out are files for whose language no test command is found,
\* which nothing verifies, and Python files when a Python test was changed, which is
\* run instead of the others.
FirstAnswerIsVerified ==
    pc = "answered" /\ prompts = 1 /\ ~GaveUp =>
        \A f \in changedFiles \cap broken :
            HasTestCommand(f) /\ (f \in Python => changedFiles \cap Test \cap Python = {})
                => NamedTestPasses(f)

\* No answer stands while a file the tools changed fails its test, unless the
\* repairs are used up (violated, see the README).
AnswersAreVerified == pc = "answered" /\ ~GaveUp => \A f \in broken : NamedTestPasses(f)

=============================================================================

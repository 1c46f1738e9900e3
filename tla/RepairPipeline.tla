--------------------------- MODULE RepairPipeline ---------------------------
(***************************************************************************)
(* The autonomous repair of confirmed bugs: the end of _handle_anomaly and *)
(* _execute_repair_pipeline of controller.py, with the gate, the policy    *)
(* guard, the verifier and the reproducer of mesa_qa/repair they call.     *)
(*                                                                         *)
(* Bugs are handled one at a time but share a git worktree, the candidate. *)
(* It is abstracted to the set of its uncommitted changes, each named by   *)
(* what it is and whose repair made it; a change counts as one file.  What *)
(* pytest, git, the repairer and the tester answer is nondeterministic.    *)
(***************************************************************************)
EXTENDS Naturals, Sequences, FiniteSets

CONSTANTS
  MaxBugs,      \* how many anomalies are confirmed
  MaxRepairs,   \* repair.max_repairs_per_run
  MaxFiles,     \* safety.max_auto_changed_files
  FullSuite,    \* verification.run_full_suite
  TestsWrite,   \* whether a pytest run may leave files git does not ignore
  MaxFaults     \* how many unexpected exceptions there are

ASSUME RepairAssumption ==
  /\ MaxBugs \in Nat /\ MaxRepairs \in Nat /\ MaxFiles \in Nat /\ MaxFaults \in Nat
  /\ FullSuite \in BOOLEAN /\ TestsWrite \in BOOLEAN

Bugs == 1..MaxBugs

\* "spec" and "test" are what the reproducer writes, "fix" a change of the
\* repairer the policy has nothing against, "unsafe" one it has: a forbidden
\* path or too many lines; "left" is what a test run left behind.
Kinds   == {"spec", "test", "fix", "unsafe", "left"}
Changes == Kinds \X Bugs

\* The verdicts _repairs and the bug table know.
Verdicts == {"NEEDS_REVIEW", "REPAIR_GATE_REJECTED", "REPAIR_FAILED",
             "POLICY_VIOLATION", "TARGETED_TESTS_FAILED", "FULL_SUITE_FAILED",
             "LIVE_REPRO_FAILED", "VERIFIED"}
Recorded == Verdicts \cup {"UNRECORDED", "CONFIRMED"}

VARIABLES
  pc,         \* where the pipeline stands
  bug,        \* the bug in hand, which is also len(_bugs)
  hasTest,    \* a regression test was recorded for it
  verdict,    \* what it is being recorded as
  ledger,     \* _repairs
  table,      \* the status of each bug in the bugs table
  tree,       \* the uncommitted changes of the candidate
  approved,   \* approved_paths
  commits,    \* the repair commits, with what was established for them
  serving,    \* what the candidate services run: how many commits, what besides
  passedOn,   \* per bug, what they ran when its live recheck passed
  failedFirst,  \* the test in hand failed before the repair
  validated,  \* the changes validate_diff last accepted
  tested,     \* the changes the regression test passed on
  attempts,   \* repairs begun
  faults

established == <<failedFirst, validated, tested>>
vars == <<pc, bug, hasTest, verdict, ledger, table, tree, approved, commits,
          serving, passedOn, failedFirst, validated, tested, attempts, faults>>

NotServed == [head |-> 0, besides |-> {<<"left", 0>>}]   \* no live pass yet

InTry == {"prefix", "gate", "fix", "policy", "postfix", "paths", "targeted", "full",
          "commit", "restart", "live", "record", "recordLive", "settle"}
AtAwait == {"idle", "confirmed", "prefix", "fix", "restart", "live", "record", "recordLive", "settle",
            "handlerRecord", "handlerSettle"}
Positions == InTry \cup AtAwait \cup {"stopped", "failed"}

TypeOK ==
  /\ pc \in Positions
  /\ bug \in 0..MaxBugs
  /\ hasTest \in BOOLEAN
  /\ verdict \in Recorded
  /\ ledger \in Seq([bug : Bugs, status : Verdicts])
  /\ table \in [1..bug -> Recorded]
  /\ tree \subseteq Changes /\ approved \subseteq Changes
  /\ commits \in Seq([bug : Bugs, files : SUBSET Changes, failedFirst : BOOLEAN,
                      validated : SUBSET Changes, tested : SUBSET Changes])
  /\ serving \in [head : Nat, besides : SUBSET Changes]
  /\ passedOn \in [1..bug -> [head : Nat, besides : SUBSET Changes] \cup {NotServed}]
  /\ failedFirst \in BOOLEAN
  /\ validated \subseteq Changes /\ tested \subseteq Changes
  /\ attempts \in 0..MaxBugs
  /\ faults \in 0..MaxFaults

Init ==
  /\ pc = "idle" /\ bug = 0 /\ hasTest = FALSE /\ verdict = "CONFIRMED"
  /\ ledger = <<>> /\ table = <<>>
  /\ tree = {} /\ approved = {} /\ commits = <<>>
  /\ serving = [head |-> 0, besides |-> {}] /\ passedOn = <<>>
  /\ failedFirst = FALSE /\ validated = {} /\ tested = {}
  /\ attempts = 0 /\ faults = 0

-----------------------------------------------------------------------------
(* The policy guard and the test runs.                                     *)

Unsafe == {"unsafe"} \X Bugs

\* validate_diff: bounded files, no forbidden path, bounded lines.
Complies(changes) == Cardinality(changes) <= MaxFiles /\ changes \cap Unsafe = {}

\* What the tree may be after a pytest run on it.
AfterTests == {tree} \cup IF TestsWrite THEN {tree \cup {<<"left", bug>>}} ELSE {}

Entry(status) == [bug |-> bug, status |-> status]

AppendedUnlessReview(status) ==      \* variant: NEEDS_REVIEW is no entry of _repairs
  IF status = "NEEDS_REVIEW" THEN ledger ELSE Append(ledger, Entry(status))

\* _repairs with one entry more.
Appended(status) == Append(ledger, Entry(status))

\* A conclusion: an entry in _repairs, then record_bug and RUNNING.
Conclude(status) ==
  /\ ledger' = Appended(status)
  /\ verdict' = status
  /\ pc' = "record"

GoOn(next) == pc' = next /\ UNCHANGED <<verdict, ledger>>

Frame == UNCHANGED <<bug, hasTest, table, passedOn, attempts, faults>>

-----------------------------------------------------------------------------
(* _handle_anomaly, once the anomaly has reproduced.                       *)

NextByRepairs == Len(ledger) + 1      \* variant: numbered by the repairs so far

\* The number in the next BUG id: len(_bugs) + 1.
NextId == bug + 1

\* What materialize adds to the tree: the spec, then the test.  It may fail before,
\* between or after, and then no test is recorded.
Materialized(b, recorded) ==
  IF recorded THEN {{<<"spec", b>>, <<"test", b>>}}
  ELSE {{}, {<<"spec", b>>}, {<<"spec", b>>, <<"test", b>>}}

Confirm ==
  /\ pc = "idle" /\ bug < MaxBugs
  /\ bug' = NextId
  /\ hasTest' \in BOOLEAN
  /\ \E files \in Materialized(bug', hasTest') : tree' = tree \cup files
  /\ table' = Append(table, "UNRECORDED")
  /\ passedOn' = Append(passedOn, NotServed)
  /\ pc' = "confirmed"
  /\ failedFirst' = FALSE /\ validated' = {} /\ tested' = {} /\ approved' = {}
  /\ UNCHANGED <<verdict, ledger, commits, serving, attempts, faults>>

\* The bug is recorded; past the budget no repair begins.
Begin ==
  /\ pc = "confirmed"
  /\ verdict' = "CONFIRMED"
  /\ table' = [table EXCEPT ![bug] = "CONFIRMED"]
  /\ IF Len(ledger) < MaxRepairs
     THEN pc' = "prefix" /\ attempts' = attempts + 1
     ELSE pc' = "idle" /\ UNCHANGED attempts
  /\ UNCHANGED <<bug, hasTest, ledger, tree, approved, commits, serving, passedOn,
                 established, faults>>

-----------------------------------------------------------------------------
(* _execute_repair_pipeline.                                               *)

NoRegression ==
  /\ pc = "prefix" /\ ~hasTest
  /\ Conclude("NEEDS_REVIEW")
  /\ UNCHANGED <<tree, approved, commits, serving, established>>
  /\ Frame

AcceptsAny(failed) == TRUE      \* variant: a test that passes before the repair will do

\* verify_pre_fix_failure: only a failing assertion of a collected test counts.
Accepts(failed) == failed

PreFix ==
  /\ pc = "prefix" /\ hasTest
  /\ tree' \in AfterTests
  /\ failedFirst' \in BOOLEAN
  /\ IF Accepts(failedFirst') THEN GoOn("gate") ELSE Conclude("NEEDS_REVIEW")
  /\ UNCHANGED <<approved, commits, serving, validated, tested>>
  /\ Frame

PassesAlways(changes) == TRUE      \* variant: the gate leaves the scope to later checks

\* evaluate_gates: of its gates only the scope of what is in the tree already
\* can fail here.  A rejected tree is left as it is.
Passes(changes) == Complies(changes)

Gate ==
  /\ pc = "gate"
  /\ IF Passes(tree) THEN GoOn("fix") ELSE Conclude("REPAIR_GATE_REJECTED")
  /\ UNCHANGED <<tree, approved, commits, serving, established>>
  /\ Frame

\* The repairer edits the candidate, or not, and may undo what it finds there,
\* whatever it says of its success.  A failed one leaves its edits behind.
Repair ==
  /\ pc = "fix"
  /\ \E edits \in SUBSET {<<"fix", bug>>, <<"unsafe", bug>>}, undone \in SUBSET tree :
       tree' = (tree \ undone) \cup edits
  /\ GoOn("policy") \/ Conclude("REPAIR_FAILED")
  /\ UNCHANGED <<approved, commits, serving, established>>
  /\ Frame

\* validate_diff over everything in the tree; a violation discards all of it.
\* git may fail to, which is only logged.
Policy ==
  /\ pc = "policy"
  /\ IF Complies(tree)
     THEN GoOn("postfix") /\ validated' = tree /\ UNCHANGED tree
     ELSE Conclude("POLICY_VIOLATION") /\ tree' \in {{}, tree} /\ UNCHANGED validated
  /\ UNCHANGED <<approved, commits, serving, failedFirst, tested>>
  /\ Frame

PostFix ==
  /\ pc = "postfix"
  /\ tree' \in AfterTests
  /\ \/ GoOn("paths") /\ tested' = tree
     \/ Conclude("NEEDS_REVIEW") /\ UNCHANGED tested
  /\ UNCHANGED <<approved, commits, serving, failedFirst, validated>>
  /\ Frame

\* approved_paths is what has changed by now.
Paths ==
  /\ pc = "paths"
  /\ approved' = tree
  /\ GoOn("targeted")
  /\ UNCHANGED <<tree, commits, serving, established>>
  /\ Frame

\* The tests of the approved paths, if there are any, and the full suite.
Targeted ==
  /\ pc = "targeted"
  /\ \/ GoOn(IF FullSuite THEN "full" ELSE "commit") /\ tree' \in AfterTests
     \/ approved # {} /\ Conclude("TARGETED_TESTS_FAILED") /\ tree' \in AfterTests
  /\ UNCHANGED <<approved, commits, serving, established>>
  /\ Frame

FullTests ==
  /\ pc = "full"
  /\ GoOn("commit") \/ Conclude("FULL_SUITE_FAILED")
  /\ tree' \in AfterTests
  /\ UNCHANGED <<approved, commits, serving, established>>
  /\ Frame

\* commit_repair stages and commits the approved paths, all of them.
Commit ==
  /\ pc = "commit" /\ approved # {}
  /\ commits' = Append(commits, [bug |-> bug, files |-> approved,
                                 failedFirst |-> failedFirst,
                                 validated |-> validated, tested |-> tested])
  /\ tree' = tree \ approved
  /\ GoOn("restart")
  /\ UNCHANGED <<approved, serving, established>>
  /\ Frame

ServedBefore == serving      \* variant: the services are not restarted

\* RESTARTING and restart_all: the services run the worktree, committed or not.
Served == [head |-> Len(commits), besides |-> tree]

Restart ==
  /\ pc = "restart"
  /\ serving' = Served
  /\ GoOn("live")
  /\ UNCHANGED <<tree, approved, commits, established>>
  /\ Frame

\* The event is executed and judged once more on the restarted services.
LiveRecheck ==
  /\ pc = "live"
  /\ \/ verdict' = "VERIFIED" /\ passedOn' = [passedOn EXCEPT ![bug] = serving]
     \/ verdict' = "LIVE_REPRO_FAILED" /\ UNCHANGED passedOn
  /\ pc' = "recordLive"
  /\ UNCHANGED <<bug, hasTest, ledger, table, tree, approved, commits, serving,
                 established, attempts, faults>>

-----------------------------------------------------------------------------
(* Recording the verdict.                                                  *)

RecordFrame == UNCHANGED <<bug, hasTest, verdict, tree, approved, commits, serving,
                           passedOn, established, attempts, faults>>

RecordedByConclusions ==      \* variant: the handler records no verdict
  IF pc = "handlerRecord" THEN table ELSE [table EXCEPT ![bug] = verdict]

\* record_bug.  The verdict of the live recheck enters _repairs after it only.
RecordedNow == [table EXCEPT ![bug] = verdict]

Record ==
  /\ \/ pc = "record" /\ pc' = "settle" /\ UNCHANGED ledger
     \/ pc = "recordLive" /\ pc' = "settle" /\ ledger' = Append(ledger, Entry(verdict))
     \/ pc = "handlerRecord" /\ pc' = "handlerSettle" /\ UNCHANGED ledger
  /\ table' = RecordedNow
  /\ RecordFrame

\* RUNNING again: the next event may be an anomaly.
Settle ==
  /\ pc \in {"settle", "handlerSettle"}
  /\ pc' = "idle"
  /\ UNCHANGED <<ledger, table>>
  /\ RecordFrame

\* Anything in the try raises: git, the worktree's identity, a service that does
\* not come up, controller.db; an empty approved_paths does so every time.
Raises ==
  /\ pc \in InTry
  /\ \/ faults < MaxFaults /\ faults' = faults + 1
     \/ pc = "commit" /\ approved = {} /\ UNCHANGED faults
  /\ ledger' = Append(ledger, Entry("REPAIR_FAILED"))
  /\ verdict' = "REPAIR_FAILED"
  /\ pc' = "handlerRecord"
  /\ UNCHANGED <<bug, hasTest, table, tree, approved, commits, serving, passedOn,
                 established, attempts>>

\* The handler itself raises, or what precedes the try (the record of the bug,
\* the write of REPAIRING): the exception leaves the action and ends the run.
RunFails ==
  /\ pc \in {"idle", "confirmed", "prefix", "handlerRecord", "handlerSettle"}
  /\ faults < MaxFaults /\ faults' = faults + 1
  /\ pc' = "failed"
  /\ UNCHANGED <<bug, hasTest, verdict, ledger, table, tree, approved, commits,
                 serving, passedOn, established, attempts>>

\* A stop cancels the action at an await; no handler catches that.
Stop ==
  /\ pc \in AtAwait
  /\ pc' = "stopped"
  /\ UNCHANGED <<bug, hasTest, verdict, ledger, table, tree, approved, commits,
                 serving, passedOn, established, attempts, faults>>

Over == pc \in {"stopped", "failed"} /\ UNCHANGED vars

Next ==
  \/ Confirm \/ Begin \/ NoRegression \/ PreFix \/ Gate \/ Repair \/ Policy \/ PostFix
  \/ Paths \/ Targeted \/ FullTests \/ Commit \/ Restart \/ LiveRecheck
  \/ Record \/ Settle \/ Raises \/ RunFails \/ Stop \/ Over

Spec == Init /\ [][Next]_vars

-----------------------------------------------------------------------------
(* What must hold.                                                         *)

\* What is committed is, to the file, what the policy accepted and what the
\* regression test passed on, and that test had failed before the repair: the
\* tree does not move between validate_diff, pytest, changed_paths and git add.
\* It holds only as long as a test run leaves no files.
CommitIsWhatWasChecked ==
  \A i \in 1..Len(commits) :
    LET c == commits[i] IN
      /\ c.files = c.validated /\ c.files = c.tested
      /\ c.failedFirst /\ Complies(c.files)

\* A bug is VERIFIED only if its event passed on services that ran its own
\* commit, the latest one, and nothing besides.
VerifiedOnItsCommit ==
  \A b \in 1..bug : table[b] = "VERIFIED" =>
    LET s == passedOn[b] IN
      s.head \in 1..Len(commits) /\ commits[s.head].bug = b /\ s.besides = {}

\* max_repairs_per_run bounds the repairs that are begun, although the code
\* counts the entries that ended ones left in _repairs.
BudgetRespected == attempts <= MaxRepairs

\* Between actions the bugs table and _repairs tell the same last verdict of
\* every bug, though they are written at different moments.
LastVerdict(b) ==
  LET of == {i \in 1..Len(ledger) : ledger[i].bug = b}
  IN IF of = {} THEN "CONFIRMED"
     ELSE ledger[CHOOSE i \in of : \A j \in of : j <= i].status

LedgerMatchesTable == pc = "idle" => \A b \in 1..bug : table[b] = LastVerdict(b)

\* A tree the policy objects to between two actions locks the candidate: no
\* repair is committed any more, since the gate rejects it and cleans nothing.
LockedForGood ==
  \A n \in 0..MaxBugs :
    [](pc = "idle" /\ ~Complies(tree) /\ Len(commits) = n => [](Len(commits) = n))

=============================================================================

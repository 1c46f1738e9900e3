# A TLA+ model of MESA_QA

MESA_QA runs a scenario of memory operations against MESA, through an LLM tester,
judges every answer, and repairs confirmed bugs of MESA in a candidate worktree.
This directory holds TLA+ modules of its controller, the TLC configurations that
check them on small instances, and proofs for TLAPS. The modules are translated
from the Python under `src/src/mesa_qa` (paths below are relative to it);
`PROJECT.json` maps every definition to its lines, lists the runs with one mutant
per property, the findings, and the hazards with the properties that cover them.

## 1. Inventory

| Component | State it keeps | Operations | Talks to |
|---|---|---|---|
| Run loop and tasks (`controller.py`, `state_machine.py`) | status, stop and pause flags, the action task, count, cursor, epoch | `initialize`, `run_loop`, control watcher, resource monitor, `cancel_active_action`, `_set_state` | all the others; `run_state` and `control_requests` in controller.db |
| Anomaly handling and repair (`controller.py`, `repair/`) | `_bugs`, `_repairs`, the candidate worktree | confirm, materialize a test, gate, repair, validate, test, commit, restart, live recheck | git, pytest, repairer, services, tester |
| Write finality (`controller.py`, `mesa/approval.py`) | the operation in hand | inspect ownership, read the status, approve, poll, conclude | tester, MESA's ledger, operator CLI, oracle |
| Oracle (`oracle/`) | facts, history, applied events | `apply_event`, current fact, forgotten, history | run loop, judge |
| Scenario engine (`scenario/`) | cursor, epoch, seeded world | `load_suite`, `next_event` | run loop |
| Controller storage (`storage/`) | runs, state, control slot, rows of actions, bugs, incidents, rotations | plain SQL | run loop, CLI, reports |
| Judge and classifier (`judge/`, `oracle/evaluator.py`) | none | verdict on an observation | oracle |
| Codex (`codex/`) | the tester's thread | one turn of the tester or the repairer | MCP gateway, worktree |
| Thread rotation gate (`controller.py`) | the pending rotation | rotate, check the first action after it | tester, storage |
| Crash resume (`controller.py`, `runtime/worktree.py`) | the saved row | compare HEAD and worktree, restore count, cursor, state | storage, git, services |
| Worktree and candidate environment (`runtime/`) | a git worktree and a venv | create, verify, remove | git, uv |
| Services (`runtime/process_manager.py`, `mesa_runtime.py`, `mcp_gateway.py`, `health.py`) | two child processes | start, stop, restart, await readiness | run loop, monitor, repair |
| Bootstrap and binding (`mesa/`) | none | compare Codex's MCP settings | Codex |
| Evidence, telemetry, reports | files, samples | write | repair, monitor, CLI |
| CLI (`cli.py`) | none | run, pause, resume, stop, status, report, teardown | storage, processes |

What is hard here, and where it bites:

* **Interleaving.** One event loop, four tasks (loop, action, watcher, monitor).
  Each `_set_state` changes the status at once and then awaits a write of what it
  saw; the control slot is read in one await and cleared in another, by two tasks.
  Services are started and stopped by three tasks, any of which may be cancelled.
* **Another process's state.** MESA's operations move on while the controller reads,
  approves, polls, gives up or is dead.
* **Crash and resume.** Count and cursor are saved only with a state change, so
  that actions are played again with ids and keys that exist.
* **Calls that hang.** git, uv and pytest are run synchronously and without a timeout; one
  that does not return holds all four tasks. The operator CLI is awaited without one.
* **Partial failure.** Every call in the repair pipeline may raise, inside one
  catch-all whose handler writes as well; a CLI may act and then fail.
* **Shared, unclean data.** All repairs of a run share one worktree, which failed
  ones leave dirty; all epochs share one oracle.

What makes each part correct: the run ends, clean, when told to and its row does not
claim otherwise (run loop); what is committed is what was checked, a verdict rests
on that commit, repairs are bounded (repair); the oracle advances only on durable
commits, once each, and no row contradicts MESA (finality); the tables mean what the
judge takes them to mean (oracle); actions are judged by the thread the gate expects
(rotation); a resumed run is the run that crashed (resume); a teardown kills the
run's processes and no other (CLI).

## 2. Plan

In order of importance; all are done.

1. `StateMachine`, `RunLoop`, abstract `RunLifecycle`: the tasks and the row. Refinement.
2. `RepairPipeline`: bugs, worktree, verdicts.
3. `WriteFinality`: approval, ledger, rows, replay.
4. `GroundTruth` (abstract) and `OracleFacts`: the oracle under the scenario engine, with
   MESA's order of commits beside the order in which the oracle applies them. Refinement.
5. `RotationGate`: pending rotations, the first action after one, the rows of both.
6. `CrashResume`: the saved row beside the worktree's HEAD, the repair's commit and the
   bugs table.
7. `CandidateServices`: processes, ports and the pids of the row, over several controllers,
   with the teardown.
8. Proofs: one `…Proofs` module beside each of the seven, with `NumberLemmas` shared by two.

The interruption of the whole process (Ctrl-C, a kill) is the `Crash` of every module that
has something to keep: `WriteFinality`, `RotationGate`, `CandidateServices`, `CrashResume`,
and `Rewind` of `OracleFacts`.

Theorems: every invariant, every action property and both refinements that a run checks,
for every value of the constants (section 5). What is left to TLC is liveness.

## 3. The modules and the code

### StateMachine

`state_machine.py`: the states and the transition table. `CanMove(s, t)` is
`can_transition_to`; `Closing` and `Final` name the sets the callers test for.

### RunLoop and RunLifecycle

A step is what a task does between two awaits. The variables `loop`, `action`,
`watcher` and `monitor` say where each task is; `status` is the state machine's,
`stored` the one in the row. `SetState(t, s)` moves the status and leaves
`write[t] = s`: the task is blocked until `Saved(t)` puts it in the row, whatever was
written there meanwhile. Snapshots carry the status *of the moment they were taken*,
as `_persist_state` builds its row before the `await`.

An action is a path through the states it enters (`StageNext`), with the four awaits
of `restart_all`; what it judges or repairs is left to the other modules.
`Cancelled` is `CancelledError` at its await, which passes every handler because they
catch `Exception`. `Refused` is `transition_to` raising because another task moved
the status. `ActionFault`, `LoopFault`, `WatcherFault` and `MonitorFault` are errors
of controller.db, each handled where the code handles it. The operator
(`Command`), the clock (`Expire`) and the limit (`Breach`) are environment.

Calls without a timeout are of two kinds. git, uv, pytest and `mesa doctor` are run by
`subprocess.run` inside coroutines: pytest in the repair (`repair/verification.py:23`, `:59`,
`:89`, `:102`), uv and its checks before a service starts
(`runtime/candidate_environment.py:205`, `:41`, `:84`, `:164`), git in every `_set_state` and
around a repair (`runtime/worktree.py:292`), the binding at start-up
(`mesa/mcp_binding.py:175`). `CallsOut` says where the model has one under way; `Block` is that
it hangs, and with `blocked` no task takes a step any more, the watcher and the monitor
included. The operator CLI (`mesa/approval.py:97`) is awaited: one that hangs (`CliHangs`)
leaves the action at `cli`, where the other tasks go on and only a cancellation reaches it.

`RunLifecycle` is what a run promises: it works, begins to close when no action is in
flight, from then on only takes services down, and is closed only with none running.

### RepairPipeline

One `pc` through `_handle_anomaly` and `_execute_repair_pipeline`, one action per
stage; the calls of pytest and git are blocking, so that nothing runs in between. The
worktree is its set of uncommitted changes, each of a kind (the reproducer's spec and
test, an acceptable or an unsafe edit, a file a test run left) and of the bug whose
repair made it. `Raises` is any exception inside the try, `RunFails` one in its
handler or before it, `Stop` a cancellation at an await. `commits` keeps, beside what
was committed, what had been validated and tested by then; `passedOn` keeps what the
services ran when the live recheck passed.

### WriteFinality

One `pc` through `_process_event`, `_finalize_write` and the recheck, with MESA's
ledger `ops` beside it, which moves at any moment (`Mesa`). The tester may report any
operation, its own, an earlier one, another client's, or none. `saved` is the count in
the row: it is written by state changes only (`Recorded` into WAITING_FOR_CODEX,
`Anomaly`, `Pause`, `Stop`, `RunFails`), never by an action that simply ends.

Abstractions. `APPROVED` stands for APPROVED, DISPATCHING, SUBMITTED and PROCESSING,
which the code treats alike, and `REJECTED` for DENIED as well. Operations of a
FAILED status are told apart by whose error they carry, as the evaluator does. A
failing call is an error of the transport, the CLI or the tester. On a recheck the
tester reports what it was told, the status of the operation it submitted. Events
that set `idempotency_key` themselves are left out (see section 6).

### OracleFacts and GroundTruth

A suite is a sequence of writes over fields and values; `facts`, `history` and
`events` are the three tables. A field of the model is an entity with one of its
fields. A write commits in time and is applied (`Play`), or is given up (`GiveUp`), or is
given up and commits all the same (`CommitLate`); `mesa` is the order in which MESA
committed. A resume plays again from an epoch and cursor saved earlier (`Rewind`). These are the row's
(`controller.py:356`, `:410`), and the run loop begins an epoch without saving (`:662-667`), so
that a crash in the second epoch may resume anywhere in the first.
`apply_event` is one SQLite transaction and therefore one step. `duplicate`,
`semantic_duplicate` and `idempotency` are applied like `remember`, `conflict` like
`correct`. The order of facts stands for the order of `valid_from`, that is, the clock does
not step back. A late commit is placed before the next write's; one still later would
only bring MESA's order nearer to the oracle's.

`GroundTruth` is what the judge relies on: per field what is true now (a value,
unknown, forgotten) and every value ever told.

### RotationGate

One `pc` through `_process_event` for the three kinds of event the gate tells apart, and
through the recheck, the pause, the end and `shutdown()`. `pendingOld` and `pendingId` are
the two attributes of the controller, which no crash survives; `rows` and `saved` are the
database, which does. An update or insert that is awaited when the action is cancelled or
the process dies may have reached the row or not (`Cancel`, `Crash`). `made`, `after` and
`overtaken` record what the properties compare the rows with: which thread a rotation
dropped, and which answer came first after it. The tester's thread is any that Codex has
made, a new one or none (`Reports`).

### CandidateServices

One controller after another, each with the calls of `start_all`, `restart_all` and
`stop_all` broken up at their awaits, and the processes beside it. A process comes up by
itself (`Bind`): it takes its fixed port or finds it taken and exits. `handle` is the
`_process` of the two runtime objects, `row` the pids in `run_state`, written by every state
change and by nothing else, so that a `restart_runtime` event, which changes no state,
leaves it behind (`unsaved`). `Ready` asks what the code asks: whether the child has *not
been seen to exit* and whether *something* answers at the port. `Crash` leaves the children
alive, as a killed controller does; `Dies` is what Ctrl-C does to them as well, which share
its terminal. Pids are not reused.

### CrashResume

The three places a repair writes to, `commits` in git, `row` and `table`, each in a step of
its own, and `mem`, which a crash loses. `Resume` and `Refused` are `resume_from_crash`:
`Acceptable` has its comparisons, `Restored` what it puts back. `_persist_state` reads the HEAD
of the worktree the controller *knows* (`HeadNow`), so that a refused resume, which knows
none, blanks both. Beside the controller, somebody may work in the original checkout
(`MainMoves`) and a teardown may remove the worktree.

## 4. Runs

| Run | Bounds | What it shows | States |
|---|---|---|---|
| `run_loop` | 2 commands, 1 fault | a run that ends, whole or by an error in its own handler, leaves no task, and no service unless that handler failed; COMPLETED only after the services are down; the loop is never refused a state of its own; at most one action after a stop; it implements `RunLifecycle`; a stop, the end of the duration and a pause take effect, but for what a call that hangs keeps them from | 570,361 |
| `stop_dropped` | 2 commands | *violated:* `clear_control` deletes whatever is in the slot, and a stop written after the read is lost | |
| `action_refused` | 1 command | *violated:* a stop between two states of an action makes the action fail on a refused transition | |
| `repair` | 3 bugs, 2 repairs, 4 files, 1 exception | a commit is what was validated and tested; VERIFIED rests on a pass of exactly that commit; budget; `_repairs` and the bugs table agree; a worktree beyond the policy locks repairs for good | 234,313 |
| `finality` | 2 writes, 2 status reads, 1 failing call, 1 resume, one write rechecked under its own key | the oracle takes in only what MESA committed, once; rows, oracle and ledger do not contradict each other; MESA commits a write once; only the write in hand is approved; every action ends | 245,589 |
| `confirmed_twice` | 2 writes | *violated:* a recheck that is merely pending confirms a bug | |
| `oracle` | every suite of 3 writes (no forget first, `multi_fact` to both fields), 2 fields, 2 values, 2 epochs, 1 resume into either epoch, 1 late commit | one row of history per write committed in time and field, in MESA's order but for the late one; a forgotten recall forbids every value ever held; the tables implement `GroundTruth` | 4,539,456 |
| `rotation` | every suite of 3 events, 4 actions, 3 threads, 1 resume | a rotation passes only on the first answer after it, if that came from another thread and passed; verdicts are not taken back; a completed run leaves PENDING only what had no thread to drop or was overtaken; rotation and judging action agree; what is pending is settled | 927,538 |
| `services` | 7 processes, 3 controllers, 2 repairs | what answers at a port is the run's own child on the committed code, or a dead controller's; the row names every child but those started since it was written; an ended run has no child of its own left | 630,124 |
| `stale_code` | the same | *violated:* after a resume the live recheck of a repair is answered by the service a dead controller left, on the code before the repair | |
| `resume` | 2 anomalies, 4 controllers, 2 bugs each, 4 commits | a run serves only commits its row has come to; the row counts no verified repair the table has not; only a resume refused for cause makes the row forget its worktree | 345,571 |
| `bug_rows` | the same | *violated:* after a resume a new bug takes an old one's id, and the old row reads VERIFIED by a repair of something else | |

Why the bounds are enough. *Run loop:* the slot holds one command, so that a race is
between one command and the one that overwrites it; one fault puts an error into each
await in turn, and the handlers of an error have no further error path but ending the
task; a call that hangs may be any, and needs no bound. *Repair:* with two repairs allowed and three bugs, one repair finds the leavings
of another and one bug finds the budget spent; four files hold one bug's test and edits
and not those of two. *Finality:* the second write meets the operation of the first and
of another client; two reads give a poll that continues and one that gives up. *Oracle:*
three writes and a second epoch give remember after forget, correct after remember, a
second current fact, and each of them replayed; one write that commits late is overtaken by
the next, and put back behind it by the resume, in its own epoch or out of the next. A forget of what
was never known, which no suite begins with, is the second write behind a first one given up.
Values are interchangeable and declared
symmetric; fields are not, since an event lists them in an order, but which of the two the
first write is to makes no difference, and a write to both gives both the same value.
*Rotation:* four actions over a queue of three put a rotation first, last, twice in a row
and around a restart, and reach the next epoch. *Services:* a third controller meets
leavings of two others; seven processes let one controller start both services three times.
*Resume:* four controllers give resumes after a resume that was itself refused or killed;
two bugs each make numbers both repeat and go on.

`TestsWrite = FALSE` in `repair` is a condition, not a convenience: with tests that leave
unignored files, what is committed is no longer what was validated (section 6). `SameKey` covers both settings of `reuse_same_key` in one run.

**Fairness.** `RunLoop`: until a call blocks the event loop, every task that can run does
(`asyncio` schedules fairly) and every SQLite write returns (`Saved`). What an action awaits
has a timeout in the code: the tester and the repairer (`codex/runner.py:102`), the status
polls (`mesa/approval.py:122`, `:200`), readiness and end of a service
(`runtime/process_manager.py:113`, `:128`, `runtime/mesa_runtime.py:183`). What has none is not
assumed to return: `Block` and `CliHangs` may happen wherever such a call is under way, and
nothing is fair about what comes after. So the three properties name what they except.
`StopEnds`, `ExpiryEnds` and `PauseReached` except a blocked event loop, where nothing takes
effect. `ExpiryEnds` and `PauseReached` except an operator CLI that hangs as well, because the
loop awaits the action and looks at neither; `StopEnds` does not, as a stop cancels the action
at the CLI. It fails to in two cases only, which the property names: the watcher or the monitor
dies of a fault between the flag and the cancellation, or the CLI hangs in the one action
dispatched after the stop was flagged, which nobody cancels. `ExpiryEnds` excepts a paused run
too, whose loop does not look at the clock. Clock, breaches, faults and commands owe nothing.

`WriteFinality`: the controller goes on, every call returning; MESA owes nothing, since
`ActionSettles` is about what it leaves undone. The operator CLI (`mesa/approval.py:97`) and
git at a state change are assumed to return, though the code gives them no timeout.
`RotationGate`: an action in hand and a shutdown go on (`WF` of `Action` or `Closing`), and a run
whose actions are used up ends (`WF` of `End` at `MaxActions`, which stands for the end of the
duration); nobody need pause, continue, stop, fail or resume, and `PendingSettles` excepts runs
that rest or died. Codex, the status polls and the service stops have timeouts; that the
operator CLI of a judged write, uv before a restarted service and git at a state change return
is assumed here too. What a run does when they do not is `RunLoop`'s.

The other modules state no liveness.

Deadlock is checked wherever a run has a terminal state, which then stutters by an action of
its own (`Terminated`, `Over`, `Done`). `CandidateServices` and `CrashResume` have none but the
end of their bounds, a run all of whose controllers are used up; their configurations say
`CHECK_DEADLOCK FALSE`.

## 5. What is proved

Each component has a module of proofs beside it. In all of them one `IInv` is shown to hold
initially and to be kept by every step, `TypeOK` and the safety invariants follow from it, and
the action properties and refinements follow from it and the step. The theorems are about
`Spec`, and so hold of `FairSpec` as well. Every `IInv` was first checked by TLC on the
instance of its component's run.

What is assumed of the constants is what the modules' `ASSUME`s say, which every run evaluates:
bounds are naturals, null values are no values, and there is at least one controller
(`RotationGate`, `CandidateServices`, `CrashResume`), one event in the suite (`RotationGate`), one
write (`WriteFinality`) and one epoch (`OracleFacts`). `SameKey` names writes of the run. The
events of the suites of `OracleFacts` have the shape the engine loads: a finite set of fields,
more than one only in a `multi_fact`, a value in all but a `forget`. Two theorems about
`RepairPipeline` assume `~TestsWrite` (below).

| Module | Theorem | States | What it says |
|---|---|---|---|
| all | `TypeCorrect` | `TypeOK` | the types of all variables |
| `RunLoopProofs` | `EndsClean` | `EndedRunIsClean` | an ended loop leaves no task, and no service unless its own handler failed |
| | `CompletedStopped` | `CompletedMeansStopped` | COMPLETED in the row only with the services stopped |
| | `LoopIsAccepted` | `LoopNeverRefused` | `transition_to` refuses the loop no state of its own |
| | `OneLateAction` | `AtMostOneLateAction` | at most one action after a stop was flagged |
| | `Refinement` | `ImplementsLifecycle` | the four tasks implement `RunLifecycle` |
| `RepairPipelineProofs` | `BudgetIsRespected` | `BudgetRespected` | no more repairs than `max_repairs` |
| | `RecordsAgree` | `LedgerMatchesTable` | `_repairs` and the bugs table tell the same last verdict |
| | `CommitsWereChecked` | `CommitIsWhatWasChecked` | a commit is what was validated and tested (`~TestsWrite`) |
| | `VerifiedRanItsCommit` | `VerifiedOnItsCommit` | VERIFIED rests on a pass of that commit (`~TestsWrite`) |
| | `LockIsForGood` | `LockedForGood` | a tree beyond the policy locks repairs for good |
| `WriteFinalityProofs` | `OracleIsDurable` | `OracleOnlyCommitted` | the oracle holds only what MESA committed |
| | `NoSecondEffect` | `AppliedOnce` | and each write once |
| | `RowsAreRight` | `RowsAgree` | rows do not contradict the oracle and the ledger |
| | `CommitsOnce` | `CommittedOnce` | MESA commits a write once, rechecks included |
| | `ApprovalIsBound` | `ApprovesItsOwn` | only the operation of the write in hand is approved |
| `OracleFactsProofs` | `TakenOnce` | `OncePerCommit` | one row per committed write and field, in MESA's order but for late ones |
| | `ForgettingIsSound` | `ForgottenIsForbidden` | a forgotten recall forbids every value ever held |
| | `OracleImplementsTruth` | `ImplementsTruth` | the tables implement `GroundTruth` |
| `RotationGateProofs` | `PassMeansANewThread` | `PassIsEarned` | a rotation passes only on the first answer, from another thread |
| | `CompletionJudges` | `CompletedMeansJudged` | a completed run leaves PENDING only what cannot be judged |
| | `RowsAgreeOnTheGate` | `JudgeAgrees` | the rows of rotation and judge agree |
| | `VerdictsStay` | `VerdictSettles` | verdicts are not taken back, but for one stop |
| `CandidateServicesProofs` | `ServesItsOwn` | `OwnOrOrphan` | what answers is an own child on the committed code, or a dead controller's |
| | `RowNamesTheRest` | `SavedOrSince` | the row names every child but the newest |
| | `EndsWithoutChildren` | `EndLeavesOrphansOnly` | an ended run has no own child |
| `CrashResumeProofs` | `ServesWhatWasSaved` | `ServedIsSaved` | a run serves only commits its row has come to |
| | `CrashLeavesAgreement` | `StoresAgree` | the row counts no verified repair the table has not |
| | `ForgetsForCause` | `ForgetsOnlyWhenRefused` | only a resume refused for cause forgets the worktree |

Why none of these is inductive as it stands, and what is added:

* **RunLoop.** That nothing runs at the end needs that nothing can start a service any more: an
  action lives only while the loop awaits it (`BusyWhileAwaited`), the loop does not end before
  the monitor (`MonitorDone`), what it has taken down stays down (`TakenDown`). COMPLETED needs
  who can write it: the loop alone, with everything down (`CompletedAtEnd`), and every row and
  pending write carries a status the run has had (`RowBehind`). The refinement follows from
  `PhaseMoves`, what a step may do to the phase. The two invariants about the loop's own states
  rest on a second strengthening, `Tracks`: until a stop is flagged the place of each task tells
  the status (`StatusTracks`), since both emergency paths flag the stop *before* they move the
  status or cancel anything; afterwards the loop has left every place from which it could be
  refused or dispatch twice (`ClosesInOrder`, `LateOnce`). A hung call moves no task but the action, from
  `exec` to `cli`, which both strengthenings allow. Checked on the run's 570,361 states.
* **RepairPipeline.** `Established` says what each stage has made sure of the tree (it was
  validated, is what was tested, is what was approved), `OnItsCommit` what the services run,
  `InStep` how far `_repairs` and the table may be apart within a repair, and `Budgeted` that
  only the repair under way has no entry yet, because the code counts entries. The chain from
  validation to commit breaks if a test run leaves files: hence `~TestsWrite`, which the run
  sets too. Budget, records and `LockIsForGood` do not need it.
* **WriteFinality.** The ledger moves at any time, so what the controller concludes must be about
  what MESA never undoes: an operation once final stays so, and there is one of ours under each
  key (`OnePerKey`), the second key only after the first has failed (`SecondAfterFailure`).
  `AtHand` says what the position in an action knows of its operation, `Verdicts` that a verdict
  on its way is already irrevocable. `LedgerKinds` reduces all actions to three: MESA's ledger
  does not change, takes in a submission, or one operation moves on.
* **OracleFacts.** `RowsOfEvents` says that the rows of history are exactly those of the applied
  events, `AppliedIsCommitted` that an event missing from the oracle was late, `FactsWereTold`
  that every fact has a row with its value. Every step is `Quiet`, takes an event in (`Takes`)
  or falls behind (`Lags`). `HistoryGrows` and `FactsGrow` say once what `apply_event` appends
  to either table, whatever the kind of the event; the refinement reads them field by field
  (`OthersStay`, `NamedChange`, `NamedForgotten`) and maps each kind to its step of
  `GroundTruth`. That the latest current fact exists is `LargestNumber` of `NumberLemmas`, which
  the last verdict of `RepairPipeline` needs as well.
* **RotationGate.** `Tables` relates count, saved count and rows (no gap above the saved count;
  a process that made a rotation is past the rows it may run into), `Gate` what is pending to its
  row (`PendingMade`, `Unjudged`, `RulingEarned`), `Judges` the judging action to the rotation
  and to the order in which their two rows are written.
* **CandidateServices.** A port has one live holder (`PortsHeld`), the runtime object's handle is
  the only own child of its service (`OwnAreHandled`), `stop_all` has no exception
  (`StopsDone`), and own children run the committed code wherever something is served
  (`OwnAreCurrent`).
* **CrashResume.** `SavedUpToHead` orders branch, row and services: commits beyond the row exist
  only between the commit and the next write. `Counts` has the chain row, memory, table.
  `KnowsTree` and `HeadUnlessGone` say when a write can blank the HEAD.

Only model-checked: liveness, which the provers cannot do under fairness (`StopEnds`,
`ExpiryEnds`, `PauseReached`, `ActionSettles`, `PendingSettles`), and the five runs that expect a
violation, each of them a counterexample.

## 6. Not modelled, and why

* The text algorithms of the judge, the policy's path patterns, the tester's prompts and
  JSON: sequential functions on strings. Their results are nondeterministic choices.
* Subprocesses, ports, health polls, git and uv commands: I/O. That a call fails before or
  after its effect is modelled where something depends on it, that one hangs in `RunLoop` only.
* Bootstrap, binding, evidence, reports, doctor and status: nothing else depends on their
  state.
* `stop()` of the controller: only a test calls it.
* A crash with uncommitted changes in the worktree: `RepairPipeline` has the changes and no
  crash, `CrashResume` the crash and only commits. A resume compares the HEAD alone, and serves
  what it finds.
* A teardown of several runs, or of all of them when no run id is given: a loop over what is
  modelled for one. If the row of one cannot be read, the loop goes on with the `status_data` of
  the run before it (`cli.py:489`).
* Pids that are reused: `mesa-qa teardown` of a run long over signals whatever has them then.

Seen while modelling and not the subject of a run:

* pytest, uv and git have no timeout and run on the event loop: while one hangs `mesa-qa stop`,
  a limit exceeded and the end of the duration do nothing (`blocked` in the liveness properties
  of `RunLoop`). An operator CLI that hangs keeps the run from its clock and from a pause; a stop
  frees it.
* A stop the monitor flags while the loop writes RUNNING after a pause cancels nothing, since no
  action is in flight yet; if the CLI of the action dispatched then hangs, that stop does not end
  the run, and a stop of the operator is needed.
* An event with its own `idempotency_key` never has the prefix `qa:<run_id>:` that
  `mesa/approval.py:500` requires, and ends NEEDS_REVIEW whenever it is played. One look at
  the guard shows it.
* Two tasks' snapshots may reach the row in either order, so that it may hold an older
  status for a while; the next state change mends it. What is relied on, COMPLETED, is not
  affected (`CompletedMeansStopped`).
* The handler of a failed run awaits the write of FAILED before it stops the services
  (`controller.py:707`). If controller.db is what failed, that raises too and the services run
  on: the `aborted` of `RunLoop`, which `EndedRunIsClean` excepts for services only.
* `approved_paths` is read after the post-fix pytest run and not validated again
  (`controller.py:1548`): what that run leaves unignored is committed, past the limit on
  changed files. `TestsWrite = TRUE` in `RepairPipeline` shows it.
* The `try` of `_execute_repair_pipeline` ends behind its last state change: if that write
  fails, REPAIR_FAILED goes over VERIFIED in the bugs table while `_repairs` holds both.
  `LedgerMatchesTable` compares the table with the last entry, which is why it holds.
* A run changes no state between healthy actions, so that a resume starts from an older count
  and plays actions whose rows exist; `record_action` is a plain INSERT and the resumed run
  ends FAILED at the first (`Recorded` of `WriteFinality`, `Conflict` of
  `RotationGate`).
* From the second epoch on, the remember of `conflict_and_resolution.yaml` finds a current
  fact and changes nothing (`oracle/db.py:56`): the oracle holds the value of the conflict
  while the recall that follows still expects the one of the remember.
* A stop that cancels the action between the update of a rotation's row and the reset of what
  is pending lets `shutdown()` write FAIL over a PASS. `VerdictSettles` names this as its one
  exception. A resumed controller that plays a rotation again and is stopped before it finds
  the row there does the same.
* A rotation before the tester has a thread, or one overtaken by another, stays PENDING for
  good, also in a COMPLETED run (`CompletedMeansJudged`).
* A refused resume writes FAILED with the row of a controller that knows no worktree: when the
  original checkout is put back as it was, the run still cannot be resumed. A crash between a
  repair's commit and the next state change has the same end. `ForgetsOnlyWhenRefused` says
  that nothing else has.

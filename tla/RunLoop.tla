------------------------------ MODULE RunLoop ------------------------------
(***************************************************************************)
(* The asyncio tasks of one QAController and the database row they share:  *)
(*                                                                         *)
(*   loop     initialize() and then run_loop(): reads the control slot,    *)
(*            pauses, dispatches actions, closes the run;                  *)
(*   action   _process_event() for one scenario event, with               *)
(*            _handle_anomaly() and the repair pipeline behind it;         *)
(*   watcher  _watch_control_during_action(), alive while an action is;    *)
(*   monitor  _resource_monitor_loop().                                    *)
(*                                                                         *)
(* One step is what a task does between two awaits.  _set_state changes    *)
(* the status at once and then awaits the write of what it saw then, so a  *)
(* task with a write under way (write[t]) is blocked on it, and the other  *)
(* tasks run meanwhile.  The operator's CLI and the clock are environment. *)
(* What an action judges, approves or repairs is left to other modules:    *)
(* here it is a path through the states of the state machine.              *)
(*                                                                         *)
(* Two kinds of call may never return.  git, uv, pytest and the mesa tools *)
(* are run synchronously and without a timeout: one that hangs holds the   *)
(* whole event loop.  The operator CLI is awaited without a timeout: one   *)
(* that hangs holds the task that awaits it.                               *)
(***************************************************************************)
EXTENDS Naturals, StateMachine

CONSTANTS
  MaxCommands,   \* how many commands the operator writes
  MaxFaults      \* how many accesses to controller.db fail

ASSUME BoundsAssumption == MaxCommands \in Nat /\ MaxFaults \in Nat

Tasks    == {"loop", "action", "watcher", "monitor"}
Services == {"mesa", "gateway"}
Commands == {"pause", "resume", "stop"}
NoWrite  == "no write"
NoCmd    == "none"

VARIABLES
  status,      \* StateMachine._current_state
  stored,      \* run_state.status in controller.db; INIT before the first write
  write,       \* per task, the status its unfinished save_run_state carries
  slot,        \* the control_requests row of the run
  seen,        \* run_loop's local `control`
  stopReq,     \* _stop_requested
  pauseReq,    \* _pause_requested
  running,     \* the candidate services that run
  loop,        \* where each task stands
  action,
  watcher,
  monitor,
  stage,       \* the state the action last set itself
  cancel,      \* CancelledError waits for the action at its await
  expired,     \* the run's duration is over
  commands,    \* commands written so far
  faults,      \* failed accesses so far
  late,        \* actions dispatched with _stop_requested set; 2 means several
  blocked      \* a synchronous call does not return: no task runs any more

flags   == <<stopReq, pauseReq>>
pcs     == <<loop, action, watcher, monitor>>
db      == <<stored, write>>
counts  == <<commands, faults, late>>
vars    == <<status, stored, write, slot, seen, stopReq, pauseReq, running,
             loop, action, watcher, monitor, stage, cancel, expired,
             commands, faults, late, blocked>>

\* Where an action that still runs can be: at the tester, the judge, git or
\* pytest ("exec"), at an operator CLI that does not return ("cli"), or in one of
\* the four awaits of restart_all.
Restarting  == {"gwDown", "mesaDown", "mesaUp", "gwUp"}
ActionLive  == {"exec", "cli"} \cup Restarting
ActionEnded == {"returned", "raised", "cancelled"}

BootAt   == {"boot", "bootMesa", "bootGw"}
WorkAt   == {"top", "clear", "decide", "check", "paused", "pausedClear",
             "unpause", "dispatch", "await"}
CloseAt  == {"exit", "downGw", "downMesa", "complete"}
FailAt   == {"fail", "failGw", "failMesa"}
LastAt   == {"finally", "abortFinally", "ended", "aborted"}

LoopAt    == BootAt \cup WorkAt \cup CloseAt \cup FailAt \cup LastAt
ActionAt  == {"idle"} \cup ActionLive \cup ActionEnded
WatcherAt == {"off", "poll", "clearStop", "clearPause", "cancel"}
MonitorAt == {"off", "sample", "cancel", "join", "downGw", "downMesa", "ended"}

\* The stages of an action are the states it enters.  It begins in START, which
\* is RUNNING as the loop left it; RUNNING is where the anomaly handler goes
\* back to, and REPAIRED the RUNNING entered inside the repair pipeline's try.
Stages == {"START", "ANOMALY", "RECHECKING", "REPRODUCING", "CONFIRMED_BUG",
           "REPAIRING", "VERIFYING", "RESTARTING", "LIVE_RECHECK", "REPAIRED",
           "RUNNING", "WAITING_FOR_CODEX"}

StateOf(s) == IF s \in {"START", "REPAIRED"} THEN "RUNNING" ELSE s

StageNext ==
  [START             |-> {"ANOMALY", "WAITING_FOR_CODEX"},
   ANOMALY           |-> {"RECHECKING"},
   RECHECKING        |-> {"REPRODUCING"},
   REPRODUCING       |-> {"CONFIRMED_BUG", "RUNNING"},
   CONFIRMED_BUG     |-> {"REPAIRING", "RUNNING"},
   REPAIRING         |-> {"VERIFYING", "REPAIRED"},
   VERIFYING         |-> {"RESTARTING", "REPAIRED"},
   RESTARTING        |-> {"LIVE_RECHECK"},
   LIVE_RECHECK      |-> {"REPAIRED"},
   REPAIRED          |-> {},
   RUNNING           |-> {},
   WAITING_FOR_CODEX |-> {}]

\* Where something an action calls can raise, and where the handler of
\* _execute_repair_pipeline takes it: from within the pipeline, or from the
\* write of a state entered within it.
MayRaise  == {"START", "REPRODUCING", "CONFIRMED_BUG", "REPAIRING",
              "VERIFYING", "LIVE_RECHECK"}
InRepair  == {"REPAIRING", "VERIFYING", "RESTARTING", "LIVE_RECHECK"}
SetInside == {"VERIFYING", "RESTARTING", "LIVE_RECHECK", "REPAIRED"}

TypeOK ==
  /\ status \in States
  /\ stored \in States
  /\ write \in [Tasks -> States \cup {NoWrite}]
  /\ slot \in Commands \cup {NoCmd}
  /\ seen \in Commands \cup {NoCmd}
  /\ stopReq \in BOOLEAN
  /\ pauseReq \in BOOLEAN
  /\ running \subseteq Services
  /\ loop \in LoopAt
  /\ action \in ActionAt
  /\ watcher \in WatcherAt
  /\ monitor \in MonitorAt
  /\ stage \in Stages
  /\ cancel \in BOOLEAN
  /\ expired \in BOOLEAN
  /\ commands \in 0..MaxCommands
  /\ faults \in 0..MaxFaults
  /\ late \in 0..2
  /\ blocked \in BOOLEAN

Init ==
  /\ status = "INIT"
  /\ stored = "INIT"
  /\ write = [t \in Tasks |-> NoWrite]
  /\ slot = NoCmd
  /\ seen = NoCmd
  /\ stopReq = FALSE
  /\ pauseReq = FALSE
  /\ running = {}
  /\ loop = "boot"
  /\ action = "idle"
  /\ watcher = "off"
  /\ monitor = "off"
  /\ stage = "START"
  /\ cancel = FALSE
  /\ expired = FALSE
  /\ commands = 0
  /\ faults = 0
  /\ late = 0
  /\ blocked = FALSE

-----------------------------------------------------------------------------
(* _set_state and the write it awaits.                                     *)

Ready(t) == write[t] = NoWrite

\* Task t moves the status to s; the caller gives the state t goes on from.
SetState(t, s) ==
  /\ CanMove(status, s)
  /\ status' = s
  /\ write' = [write EXCEPT ![t] = s]
  /\ UNCHANGED stored

\* The write task t awaits reaches the row, whatever was written before it.
Saved(t) ==
  /\ ~Ready(t) /\ ~blocked
  /\ stored' = write[t]
  /\ write' = [write EXCEPT ![t] = NoWrite]
  /\ UNCHANGED <<status, slot, seen, flags, running, pcs, stage, cancel,
                 expired, blocked, counts>>

\* A cancelled task awaits its write no more; the row may have it already.
DropWrite(t) ==
  /\ write' = [write EXCEPT ![t] = NoWrite]
  /\ stored' \in IF Ready(t) THEN {stored} ELSE {stored, write[t]}

\* A failure of controller.db in the task whose write (or read) it was.
Fault ==
  /\ faults < MaxFaults /\ ~blocked
  /\ faults' = faults + 1

-----------------------------------------------------------------------------
(* The action: _process_event.                                             *)

ActionTurn == action \in ActionLive /\ Ready("action") /\ ~cancel /\ ~blocked

ActionFrame == UNCHANGED <<slot, seen, flags, loop, watcher, monitor, cancel,
                           expired, blocked, commands, late>>

\* The action enters the next state on its path.  In RESTARTING the services
\* are restarted before it goes on.
Advance ==
  /\ ActionTurn
  /\ action = "exec"
  /\ \E s \in StageNext[stage] :
       /\ SetState("action", StateOf(s))
       /\ stage' = s
       /\ action' = IF s = "RESTARTING" THEN "gwDown" ELSE "exec"
  /\ UNCHANGED <<running, faults>>
  /\ ActionFrame

\* The status was moved under the action and transition_to refuses: it raises,
\* in the repair pipeline once more from the handler's own _set_state(RUNNING).
Refused ==
  /\ ActionTurn
  /\ action = "exec"
  /\ \E s \in StageNext[stage] : ~CanMove(status, StateOf(s))
  /\ action' = "raised"
  /\ UNCHANGED <<status, db, stage, running, faults>>
  /\ ActionFrame

RaiseToFailed ==      \* variant: the handler's state is not one it leaves again
  SetState("action", "FAILED") /\ stage' = "FAILED" /\ action' = "exec"

\* Where an exception other than cancellation leaves the action.
Raise ==
  IF stage \in InRepair /\ CanMove(status, "RUNNING")
  THEN SetState("action", "RUNNING") /\ stage' = "RUNNING" /\ action' = "exec"
  ELSE action' = "raised" /\ UNCHANGED <<status, db, stage>>

\* The tester, git, a record, an assertion on the main repository... raises.
ActionRaises ==
  /\ ActionTurn
  /\ action = "exec"
  /\ stage \in MayRaise
  /\ Raise
  /\ UNCHANGED <<running, faults>>
  /\ ActionFrame

\* The event is a restart_runtime: restart_all.
RestartRuntime ==
  /\ ActionTurn
  /\ action = "exec" /\ stage = "START"
  /\ action' = "gwDown"
  /\ UNCHANGED <<status, db, stage, running, faults>>
  /\ ActionFrame

RestartDown ==
  /\ ActionTurn
  /\ \/ action = "gwDown" /\ action' = "mesaDown" /\ running' = running \ {"gateway"}
     \/ action = "mesaDown" /\ action' = "mesaUp" /\ running' = running \ {"mesa"}
  /\ UNCHANGED <<status, db, stage, faults>>
  /\ ActionFrame

\* start_all: each service is started and waited for.  The repair pipeline goes
\* on to its live recheck; a restart_runtime is recorded and checked, and over.
RestartUp ==
  /\ ActionTurn
  /\ \/ action = "mesaUp" /\ action' = "gwUp" /\ running' = running \cup {"mesa"}
     \/ /\ action = "gwUp"
        /\ running' = running \cup {"gateway"}
        /\ IF stage = "RESTARTING" THEN action' = "exec"
                                   ELSE action' \in {"returned", "raised"}
  /\ UNCHANGED <<status, db, stage, faults>>
  /\ ActionFrame

\* A service does not start, or starts and is not ready in time.
RestartFails ==
  /\ ActionTurn
  /\ \/ action = "mesaUp" /\ running' \in {running, running \cup {"mesa"}}
     \/ action = "gwUp" /\ running' \in {running, running \cup {"gateway"}}
  /\ Raise
  /\ UNCHANGED faults
  /\ ActionFrame

Return ==
  /\ ActionTurn
  /\ action = "exec"
  /\ stage \in {"START", "RUNNING", "REPAIRED", "WAITING_FOR_CODEX"}
  /\ action' = "returned"
  /\ UNCHANGED <<status, db, stage, running, faults>>
  /\ ActionFrame

\* controller.db fails the action: the write of a _set_state, inside the
\* pipeline's try or outside of it, or the handler's own record_bug.
ActionFault ==
  /\ action \in ActionLive /\ ~cancel
  /\ Fault
  /\ \/ ~Ready("action") /\ stage \in SetInside /\ CanMove(status, "RUNNING")
        /\ SetState("action", "RUNNING") /\ stage' = "RUNNING" /\ action' = "exec"
     \/ ~Ready("action") /\ ~(stage \in SetInside /\ CanMove(status, "RUNNING"))
        /\ action' = "raised" /\ write' = [write EXCEPT !["action"] = NoWrite]
        /\ UNCHANGED <<status, stored, stage>>
     \/ Ready("action") /\ action = "exec" /\ stage \in InRepair
        /\ action' = "raised" /\ UNCHANGED <<status, db, stage>>
  /\ UNCHANGED running
  /\ ActionFrame

\* CancelledError at the action's await.  No handler on the way stops it: they
\* catch Exception, and the Codex runner kills its process group and re-raises.
Cancelled ==
  /\ action \in ActionLive /\ cancel /\ ~blocked
  /\ action' = "cancelled"
  /\ cancel' = FALSE
  /\ DropWrite("action")
  /\ UNCHANGED <<status, slot, seen, flags, running, loop, watcher, monitor,
                 stage, expired, blocked, counts>>

\* The operator CLI a write's approval waits for, without a timeout, never returns.
CliHangs ==
  /\ ActionTurn
  /\ action = "exec" /\ stage = "START"
  /\ action' = "cli"
  /\ UNCHANGED <<status, db, stage, running, faults>>
  /\ ActionFrame

ActionStep ==
  \/ Advance \/ Refused \/ ActionRaises \/ RestartRuntime \/ RestartDown
  \/ RestartUp \/ RestartFails \/ Return \/ Cancelled

-----------------------------------------------------------------------------
(* initialize().                                                           *)

LoopFrame == UNCHANGED <<slot, action, watcher, monitor, stage, cancel,
                         expired, blocked, commands>>

LoopTurn(at) == loop = at /\ Ready("loop") /\ ~blocked

\* Preflight, the worktree, the services, the binding; RUNNING is the last.
BootNext == [INIT             |-> "PREFLIGHT",
             PREFLIGHT        |-> "CREATE_CANDIDATE",
             CREATE_CANDIDATE |-> "START_MESA",
             START_MESA       |-> "START_MCP",
             START_MCP        |-> "RUNNING"]

Boot ==
  /\ LoopTurn("boot")
  /\ SetState("loop", BootNext[status])
  /\ loop' = CASE BootNext[status] = "START_MESA" -> "bootMesa"
               [] BootNext[status] = "RUNNING"    -> "top"
               [] OTHER                           -> "boot"
  /\ UNCHANGED <<seen, flags, running, faults, late>>
  /\ LoopFrame

BootService ==
  /\ \/ LoopTurn("bootMesa") /\ loop' = "bootGw" /\ running' = running \cup {"mesa"}
     \/ LoopTurn("bootGw") /\ loop' = "boot" /\ running' = running \cup {"gateway"}
  /\ UNCHANGED <<status, db, seen, flags, faults, late>>
  /\ LoopFrame

\* Any step of initialize raises; a service that fails may yet run.
BootFails ==
  /\ \/ LoopTurn("boot") /\ status # "INIT" /\ UNCHANGED running
     \/ LoopTurn("bootMesa") /\ running' \in {running, running \cup {"mesa"}}
     \/ LoopTurn("bootGw") /\ running' \in {running, running \cup {"gateway"}}
  /\ loop' = "fail"
  /\ UNCHANGED <<status, db, seen, flags, faults, late>>
  /\ LoopFrame

-----------------------------------------------------------------------------
(* run_loop().                                                             *)

\* A _set_state of the loop: on to `next`, or to the handler if it is refused.
LoopSet(s, next) ==
  IF CanMove(status, s)
  THEN SetState("loop", s) /\ loop' = next
  ELSE loop' = "fail" /\ UNCHANGED <<status, db>>

ExpiredUnlessWaiting ==      \* variant: waiting for Codex does not watch the clock
  /\ LoopTurn("top") /\ expired /\ status # "WAITING_FOR_CODEX"
  /\ loop' = "exit"
  /\ UNCHANGED <<status, db, seen, flags, running, faults, late>>
  /\ LoopFrame

\* The duration is over: no further iteration.
Expired ==
  /\ LoopTurn("top") /\ expired
  /\ loop' = "exit"
  /\ UNCHANGED <<status, db, seen, flags, running, faults, late>>
  /\ LoopFrame

\* get_control at the top of an iteration.  The monitor task is created before
\* the first one.
ReadControl ==
  /\ LoopTurn("top") /\ ~expired
  /\ seen' = slot
  /\ stopReq' = (stopReq \/ slot = "stop")
  /\ pauseReq' = (slot = "pause" \/ (pauseReq /\ slot # "resume"))
  /\ loop' = IF slot = NoCmd THEN "decide" ELSE "clear"
  /\ monitor' = IF monitor = "off" THEN "sample" ELSE monitor
  /\ UNCHANGED <<status, db, slot, running, action, watcher, stage, cancel,
                 expired, blocked, counts>>

\* clear_control deletes the row, whatever it holds by now.
ClearControl ==
  /\ \/ LoopTurn("clear") /\ loop' = "decide"
     \/ LoopTurn("pausedClear") /\ loop' = "unpause"
  /\ slot' = NoCmd
  /\ UNCHANGED <<status, db, seen, flags, running, action, watcher, monitor,
                 stage, cancel, expired, blocked, counts>>

\* WAITING_FOR_CODEX waits for a resume and ends on a stop.
WaitForCodex ==
  /\ LoopTurn("decide") /\ status = "WAITING_FOR_CODEX"
  /\ \/ seen = "resume" /\ LoopSet("RUNNING", "check")
     \/ /\ seen # "resume"
        /\ loop' = IF seen = "stop" \/ stopReq THEN "exit" ELSE "top"
        /\ UNCHANGED <<status, db>>
  /\ seen' = NoCmd
  /\ UNCHANGED <<flags, running, faults, late>>
  /\ LoopFrame

\* The next scenario event becomes an action, with a watcher beside it.
Dispatch ==
  /\ loop' = "await"
  /\ action' = "exec"
  /\ stage' = "START"
  /\ watcher' = "poll"
  /\ late' = IF stopReq /\ late < 2 THEN late + 1 ELSE late
  /\ UNCHANGED <<status, db>>

\* The stop test, the pause test and the next event, with no await between them.
Checking == LoopTurn("check") \/ (LoopTurn("decide") /\ status # "WAITING_FOR_CODEX")

CheckFrame == UNCHANGED <<slot, flags, running, monitor, cancel, expired, blocked,
                          commands, faults>>

CheckStop ==
  /\ Checking /\ stopReq
  /\ loop' = "exit"
  /\ seen' = NoCmd
  /\ UNCHANGED <<status, db, action, watcher, stage, late>>
  /\ CheckFrame

CheckPause ==
  /\ Checking /\ ~stopReq /\ pauseReq
  /\ LoopSet("PAUSED", "paused")
  /\ seen' = NoCmd
  /\ UNCHANGED <<action, watcher, stage, late>>
  /\ CheckFrame

CheckDispatchBlind ==      \* variant: neither flag is tested
  Checking /\ Dispatch /\ seen' = NoCmd /\ CheckFrame

CheckDispatch ==
  /\ Checking /\ ~stopReq /\ ~pauseReq
  /\ Dispatch
  /\ seen' = NoCmd
  /\ CheckFrame

\* While paused the slot is polled; a pause in it is left there.
PausedPoll ==
  /\ LoopTurn("paused")
  /\ \/ /\ pauseReq /\ ~stopReq /\ slot \in {"resume", "stop"}
        /\ pauseReq' = (slot = "stop")
        /\ stopReq' = (slot = "stop")
        /\ loop' = "pausedClear"
     \/ /\ ~pauseReq \/ stopReq
        /\ loop' = "unpause"
        /\ UNCHANGED flags
  /\ UNCHANGED <<status, db, seen, running, faults, late>>
  /\ LoopFrame

\* Back to RUNNING, unless a stop came in.  The stop flag is not read again
\* after the write this _set_state awaits.
Unpause ==
  /\ LoopTurn("unpause")
  /\ \/ stopReq /\ loop' = "exit" /\ UNCHANGED <<status, db>>
     \/ ~stopReq /\ LoopSet("RUNNING", "dispatch")
  /\ UNCHANGED <<seen, flags, running, faults, late>>
  /\ LoopFrame

DispatchUnpaused ==
  /\ LoopTurn("dispatch")
  /\ Dispatch
  /\ UNCHANGED <<slot, seen, flags, running, monitor, cancel, expired, blocked,
                 commands, faults>>

\* The awaited action is over; a monitor that awaits it too is handed the same
\* exception (MonitorJoin).  Its watcher is cancelled wherever it stands: a
\* write or a delete it awaits may or may not have been carried out.
Join ==
  /\ LoopTurn("await") /\ action \in ActionEnded
  /\ loop' = CASE action = "returned"  -> "top"
               [] action = "cancelled" -> "exit"
               [] OTHER                -> "fail"
  /\ action' = "idle"
  /\ watcher' = "off"
  /\ DropWrite("watcher")
  /\ slot' \in IF watcher \in {"clearStop", "clearPause"} THEN {slot, NoCmd} ELSE {slot}
  /\ monitor' = IF monitor = "join" /\ action = "raised" THEN "ended" ELSE monitor
  /\ UNCHANGED <<status, seen, flags, running, stage, cancel, expired, blocked,
                 counts>>

ExitWithoutShutdown ==      \* variant: COMPLETED is set without shutdown()
  /\ LoopTurn("exit")
  /\ LoopSet("STOPPING", "complete")
  /\ UNCHANGED <<seen, flags, running, faults, late>>
  /\ LoopFrame

\* After the loop: STOPPING, shutdown() with stop_all() in it, COMPLETED.
Exit ==
  /\ LoopTurn("exit")
  /\ LoopSet("STOPPING", "downGw")
  /\ UNCHANGED <<seen, flags, running, faults, late>>
  /\ LoopFrame

\* stop_all(), from shutdown() and from the exception handler.
LoopStopAll ==
  /\ \/ LoopTurn("downGw") /\ loop' = "downMesa" /\ running' = running \ {"gateway"}
     \/ LoopTurn("downMesa") /\ loop' = "complete" /\ running' = running \ {"mesa"}
     \/ LoopTurn("failGw") /\ loop' = "failMesa" /\ running' = running \ {"gateway"}
     \/ LoopTurn("failMesa") /\ loop' = "finally" /\ running' = running \ {"mesa"}
  /\ UNCHANGED <<status, db, seen, flags, faults, late>>
  /\ LoopFrame

\* The rest of shutdown() may still raise: the main repository has changed.
Complete ==
  /\ LoopTurn("complete")
  /\ \/ LoopSet("COMPLETED", "finally")
     \/ loop' = "fail" /\ UNCHANGED <<status, db>>
  /\ UNCHANGED <<seen, flags, running, faults, late>>
  /\ LoopFrame

FailWithoutStopAll ==      \* variant: the handler records FAILED and stops nothing
  /\ LoopTurn("fail")
  /\ LoopSet("FAILED", "finally")
  /\ UNCHANGED <<seen, flags, running, faults, late>>
  /\ LoopFrame

\* The handler of initialize() and run_loop().  Where FAILED is refused, the
\* handler itself raises and stops nothing.
Fail ==
  /\ LoopTurn("fail")
  /\ \/ status = "FAILED" /\ loop' = "failGw" /\ UNCHANGED <<status, db>>
     \/ status # "FAILED" /\ SetState("loop", "FAILED") /\ loop' = "failGw"
     \/ /\ ~CanMove(status, "FAILED")
        /\ loop' = "abortFinally"
        /\ UNCHANGED <<status, db>>
  /\ UNCHANGED <<seen, flags, running, faults, late>>
  /\ LoopFrame

\* The finally block: the monitor is cancelled and waited for.
Finally ==
  /\ loop \in {"finally", "abortFinally"} /\ Ready("loop") /\ ~blocked
  /\ loop' = IF loop = "finally" THEN "ended" ELSE "aborted"
  /\ monitor' = IF monitor = "off" THEN "off" ELSE "ended"
  /\ DropWrite("monitor")
  /\ UNCHANGED <<status, slot, seen, flags, running, action, watcher, stage,
                 cancel, expired, blocked, counts>>

\* controller.db fails the loop: a read, a delete or the write of a _set_state.
\* The handler's own write failing leaves the handler, before its stop_all.
LoopFault ==
  /\ Fault
  /\ \/ loop \in {"clear", "paused", "pausedClear"} /\ Ready("loop") /\ loop' = "fail"
     \/ loop = "top" /\ Ready("loop") /\ ~expired /\ loop' = "fail"
     \/ loop \in {"boot", "bootMesa", "top", "check", "paused", "dispatch",
                  "downGw", "finally"} /\ ~Ready("loop") /\ loop' = "fail"
     \/ loop = "failGw" /\ ~Ready("loop") /\ loop' = "abortFinally"
  /\ write' = [write EXCEPT !["loop"] = NoWrite]
  /\ UNCHANGED <<status, stored, seen, flags, running, late>>
  /\ LoopFrame

LoopStep ==
  \/ Boot \/ BootService \/ BootFails \/ Expired \/ ReadControl
  \/ ClearControl \/ WaitForCodex \/ CheckStop \/ CheckPause
  \/ CheckDispatch \/ PausedPoll \/ Unpause
  \/ DispatchUnpaused \/ Join \/ Exit \/ LoopStopAll \/ Complete \/ Fail
  \/ Finally

-----------------------------------------------------------------------------
(* _watch_control_during_action().                                         *)

WatcherTurn(at) ==
  watcher = at /\ Ready("watcher") /\ action \notin ActionEnded /\ ~blocked

WatcherFrame == UNCHANGED <<seen, running, loop, action, monitor, stage,
                            expired, blocked, counts>>

WatchPoll ==
  /\ WatcherTurn("poll")
  /\ \/ slot = "stop" /\ stopReq' = TRUE /\ watcher' = "clearStop" /\ UNCHANGED pauseReq
     \/ slot = "pause" /\ pauseReq' = TRUE /\ watcher' = "clearPause" /\ UNCHANGED stopReq
  /\ UNCHANGED <<status, db, slot, cancel>>
  /\ WatcherFrame

WatchClearPause ==
  /\ WatcherTurn("clearPause")
  /\ slot' = NoCmd
  /\ watcher' = "poll"
  /\ UNCHANGED <<status, db, flags, cancel>>
  /\ WatcherFrame

\* The stop is cleared, then the status moved, and the write awaited.
WatchClearStop ==
  /\ WatcherTurn("clearStop")
  /\ slot' = NoCmd
  /\ watcher' = "cancel"
  /\ IF status \in Closing THEN UNCHANGED <<status, db>> ELSE SetState("watcher", "STOPPING")
  /\ UNCHANGED <<flags, cancel>>
  /\ WatcherFrame

WatchCancelPrompt ==      \* variant: only an action that answers is cancelled
  /\ WatcherTurn("cancel")
  /\ cancel' = (cancel \/ action \in ActionLive \ {"cli"})
  /\ watcher' = "off"
  /\ UNCHANGED <<status, db, slot, flags>>
  /\ WatcherFrame

WatchCancel ==
  /\ WatcherTurn("cancel")
  /\ cancel' = (cancel \/ action \in ActionLive)
  /\ watcher' = "off"
  /\ UNCHANGED <<status, db, slot, flags>>
  /\ WatcherFrame

\* An exception ends the watcher task unseen; the action is not cancelled.  A
\* failing get_control is polled again and changes nothing.
WatcherFault ==
  /\ Fault
  /\ \/ watcher \in {"clearStop", "clearPause"}
     \/ watcher = "cancel" /\ ~Ready("watcher")
  /\ action \notin ActionEnded
  /\ watcher' = "off"
  /\ write' = [write EXCEPT !["watcher"] = NoWrite]
  /\ UNCHANGED <<status, stored, slot, seen, flags, running, loop, action,
                 monitor, stage, cancel, expired, blocked, commands, late>>

WatcherStep == WatchPoll \/ WatchClearPause \/ WatchClearStop \/ WatchCancel

-----------------------------------------------------------------------------
(* _resource_monitor_loop().                                               *)

MonitorFrame == UNCHANGED <<slot, seen, pauseReq, loop, action, watcher, stage,
                            expired, blocked, commands, late>>

MonitorTurn(at) == monitor = at /\ Ready("monitor") /\ ~blocked

\* The processes of the run are over the hard limit.
Breach ==
  /\ MonitorTurn("sample") /\ ~stopReq
  /\ stopReq' = TRUE
  /\ monitor' = "cancel"
  /\ IF status \in Closing THEN UNCHANGED <<status, db>> ELSE SetState("monitor", "STOPPING")
  /\ UNCHANGED <<running, cancel, faults>>
  /\ MonitorFrame

\* The loop's stop flag is seen at the next sample.
MonitorQuits ==
  /\ MonitorTurn("sample") /\ stopReq
  /\ monitor' = "ended"
  /\ UNCHANGED <<status, db, stopReq, running, cancel, faults>>
  /\ MonitorFrame

\* cancel_active_action(): cancel what is in flight and wait for its end.
MonitorCancel ==
  /\ MonitorTurn("cancel")
  /\ cancel' = (cancel \/ action \in ActionLive)
  /\ monitor' = IF action \in ActionLive THEN "join" ELSE "downGw"
  /\ UNCHANGED <<status, db, stopReq, running, faults>>
  /\ MonitorFrame

\* An action that raised passes its exception on to the monitor, whose handler
\* logs it: stop_all is skipped.
MonitorJoin ==
  /\ MonitorTurn("join") /\ action \notin ActionLive
  /\ monitor' = IF action = "raised" THEN "ended" ELSE "downGw"
  /\ UNCHANGED <<status, db, stopReq, running, cancel, faults>>
  /\ MonitorFrame

MonitorStopAll ==
  /\ \/ MonitorTurn("downGw") /\ monitor' = "downMesa" /\ running' = running \ {"gateway"}
     \/ MonitorTurn("downMesa") /\ monitor' = "ended" /\ running' = running \ {"mesa"}
  /\ UNCHANGED <<status, db, stopReq, cancel, faults>>
  /\ MonitorFrame

\* The write of STOPPING fails: logged, and the next test of the flag ends the
\* monitor with nothing cancelled and nothing stopped.
MonitorFault ==
  /\ Fault
  /\ monitor = "cancel" /\ ~Ready("monitor")
  /\ monitor' = "ended"
  /\ write' = [write EXCEPT !["monitor"] = NoWrite]
  /\ UNCHANGED <<status, stored, stopReq, running, cancel>>
  /\ MonitorFrame

MonitorStep == MonitorQuits \/ MonitorCancel \/ MonitorJoin \/ MonitorStopAll

-----------------------------------------------------------------------------
(* The environment: the operator's pause, resume and stop, the clock, and  *)
(* the programs the controller runs synchronously.                         *)

\* request_control overwrites whatever the slot holds.
Command ==
  /\ commands < MaxCommands
  /\ commands' = commands + 1
  /\ slot' \in Commands
  /\ UNCHANGED <<status, db, seen, flags, running, pcs, stage, cancel, expired, blocked,
                 faults, late>>

Expire ==
  /\ ~expired
  /\ expired' = TRUE
  /\ UNCHANGED <<status, db, slot, seen, flags, running, pcs, stage, cancel,
                 counts, blocked>>

\* Where a call without a timeout holds the event loop: git in every _set_state, behind
\* the move and before the write; whatever initialize() runs or awaits, as the loop is
\* alone then; uv before a service is restarted, and git after a restart_runtime; git and
\* pytest in the repair; git at the end of shutdown() and of the handler.
CallsOut ==
  \/ \E t \in Tasks : ~Ready(t)
  \/ loop \in BootAt /\ status # "INIT"
  \/ action = "mesaUp" \/ (action = "gwUp" /\ stage = "START")
  \/ action = "exec" /\ stage \in {"CONFIRMED_BUG", "REPAIRING", "VERIFYING"}
  \/ loop \in {"complete", "failMesa"}

\* One of them hangs.
Block ==
  /\ CallsOut /\ ~blocked
  /\ blocked' = TRUE
  /\ UNCHANGED <<status, db, slot, seen, flags, running, pcs, stage, cancel,
                 expired, counts>>

-----------------------------------------------------------------------------
\* The run is over, or waits for a call that does not return.
Terminated == (loop \in {"ended", "aborted"} \/ blocked \/ action = "cli") /\ UNCHANGED vars

AnyFault == ActionFault \/ LoopFault \/ WatcherFault \/ MonitorFault

Next ==
  \/ LoopStep \/ ActionStep \/ WatcherStep \/ MonitorStep
  \/ Breach \/ AnyFault \/ Command \/ Expire \/ CliHangs \/ Block
  \/ \E t \in Tasks : Saved(t)
  \/ Terminated

\* Until a call blocks it the event loop runs every task that can run, and SQLite
\* answers.  What an action awaits has a timeout (tester, repairer, approval polls,
\* readiness and end of a service) except the operator CLI: an action that hangs there
\* is at "cli", where it takes no step but to be cancelled.  The end of the duration,
\* breaches, faults, commands and hanging calls need never happen.
Fairness ==
  /\ WF_vars(LoopStep)
  /\ WF_vars(ActionStep)
  /\ WF_vars(WatcherStep)
  /\ WF_vars(MonitorStep)
  /\ \A t \in Tasks : WF_vars(Saved(t))

Spec == Init /\ [][Next]_vars

FairSpec == Spec /\ Fairness

-----------------------------------------------------------------------------
(* What must hold.                                                         *)

\* A run that is over leaves nothing behind: no service runs, no action or
\* watcher is in flight, the monitor is done.  Three tasks start and stop
\* services, and each of them may be cancelled in the middle of it.  Where the
\* handler of a failed run fails as well, at its write of FAILED, before its
\* stop_all, services are all that is left.
EndedRunIsClean ==
  loop \in {"ended", "aborted"} =>
    /\ loop = "ended" => running = {}
    /\ action = "idle" /\ watcher = "off" /\ monitor \in {"off", "ended"}

\* COMPLETED in the database means that the services were stopped before: the
\* status command and the teardown read it there.
CompletedMeansStopped == stored = "COMPLETED" => running = {} /\ action = "idle"

\* transition_to never refuses the loop a state of its own, whatever the action,
\* the watcher and the monitor made of the status between its awaits.
LoopNeverRefused ==
  Ready("loop") =>
    /\ loop = "unpause" /\ ~stopReq => CanMove(status, "RUNNING")
    /\ loop \in {"decide", "check"} /\ status # "WAITING_FOR_CODEX" /\ ~stopReq
         => CanMove(status, "PAUSED")
    /\ loop = "exit" => CanMove(status, "STOPPING")
    /\ loop = "complete" => CanMove(status, "COMPLETED")

\* After a stop was flagged at most one more action is dispatched: the one a
\* monitor's stop meets while the loop writes RUNNING after a pause.
AtMostOneLateAction == late <= 1

Over == loop \in {"ended", "aborted"}

\* The operator CLI hangs in an action that nobody is about to cancel.
Stranded == action = "cli" /\ ~cancel /\ watcher \in {"off", "poll"} /\ monitor # "cancel"

\* A flagged stop ends the run, out of a hanging operator CLI too, and even if the
\* watcher or the monitor that flagged it died before it cancelled the action.  What can
\* keep it from that is a synchronous call that hangs, or an operator CLI that hangs
\* where such a task died, or in the one action dispatched late.
StopEnds ==
  stopReq ~> (Over \/ blocked \/ (Stranded /\ (faults > 0 \/ late > 0)))

\* When its duration is over a run ends, unless it is paused or a call hangs: the clock
\* is looked at between actions only.
ExpiryEnds == expired ~> (Over \/ status = "PAUSED" \/ blocked \/ action = "cli")

\* A requested pause is reached, taken back, or overtaken by the run's end, by waiting
\* for Codex, or by a call that hangs.
PauseReached ==
  pauseReq ~> (~pauseReq \/ status \in {"PAUSED", "WAITING_FOR_CODEX"}
                          \/ Over \/ blocked \/ action = "cli")

-----------------------------------------------------------------------------
(* What the documentation says of it and the code does not do.             *)

\* A stop leaves the control slot only for the stop flag, or for a command the
\* operator writes over it: it is not deleted unread.
StopNeverDropped ==
  [][slot = "stop" /\ slot' = NoCmd => stopReq']_vars

\* A stop cancels the action in flight; it does not make the action fail on a
\* state of its own that the stop has put out of reach.
NoActionRefused == [][~Refused]_vars

-----------------------------------------------------------------------------
(* The run lifecycle this implements.                                      *)

Phase == IF loop \in BootAt \cup WorkAt THEN "live"
         ELSE IF loop = "ended" THEN "closed" ELSE "closing"

Lifecycle == INSTANCE RunLifecycle
               WITH phase <- Phase, busy <- action \in ActionLive

ImplementsLifecycle == Lifecycle!LCSpec
=============================================================================

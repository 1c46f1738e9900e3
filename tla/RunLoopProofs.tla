--------------------------- MODULE RunLoopProofs ---------------------------
(***************************************************************************)
(* Theorems about RunLoop for every number of commands and of faults: its  *)
(* type invariant, the safety invariants about the services, the states    *)
(* the loop sets and the actions it dispatches, and that it implements     *)
(* RunLifecycle.                                                           *)
(***************************************************************************)
EXTENDS RunLoop, TLAPS

(***************************************************************************)
(* The inductive invariant: what the tasks know of each other.             *)
(***************************************************************************)

\* Only the loop starts actions and watchers, and it waits for both.
BusyWhileAwaited == action # "idle" \/ watcher # "off" => loop = "await"

\* Until initialize() is over nothing runs beside it and it alone moves the
\* status.
BootsAlone == loop \in BootAt => monitor = "off" /\ status \in DOMAIN BootNext

\* The loop ends after the monitor.
MonitorDone == loop \in {"ended", "aborted"} => monitor \in {"off", "ended"}

\* What the loop has taken down stays down: no action is there to restart it.
TakenDown ==
  /\ loop \in {"downMesa", "failMesa"} => "gateway" \notin running
  /\ loop \in {"complete", "finally", "ended"} => running = {}

\* The loop alone completes the run, at its end.
CompletedAtEnd ==
  status = "COMPLETED" =>
    /\ running = {}
    /\ loop \in {"fail", "finally", "abortFinally", "ended", "aborted"}

\* The row says COMPLETED, or is about to, only when the run is: there is no
\* way out of it.
RowBehind ==
  stored = "COMPLETED" \/ (\E t \in Tasks : write[t] = "COMPLETED")
    => status = "COMPLETED"

Safe == BusyWhileAwaited /\ BootsAlone /\ MonitorDone /\ TakenDown
          /\ CompletedAtEnd /\ RowBehind

IInv == TypeOK /\ Safe

-----------------------------------------------------------------------------
(***************************************************************************)
(* The tables of the state machine and of the action's path.               *)
(***************************************************************************)

\* Nothing leads out of COMPLETED.
LEMMA CompletedIsFinal ==
  ASSUME NEW s, CanMove("COMPLETED", s)
  PROVE  s = "COMPLETED"
  BY DEF CanMove, ValidTransitions, Exits, Final

\* An action enters its own stages only.
LEMMA StageNextType ==
  ASSUME NEW g \in Stages, NEW s \in StageNext[g]
  PROVE  s \in Stages
  BY DEF Stages, StageNext

\* A stage is a state of the state machine, and none of them completes a run.
LEMMA StateOfType ==
  ASSUME NEW s \in Stages
  PROVE  StateOf(s) \in States \ {"COMPLETED"}
  BY DEF Stages, StateOf, States

\* initialize() moves through states of its own up to RUNNING.
LEMMA BootNextType ==
  ASSUME NEW s \in DOMAIN BootNext
  PROVE  /\ BootNext[s] \in States \ {"COMPLETED"}
         /\ BootNext[s] # "RUNNING" => BootNext[s] \in DOMAIN BootNext
  BY DEF BootNext, States

-----------------------------------------------------------------------------
(***************************************************************************)
(* The status, the row and the writes between them.                        *)
(***************************************************************************)

Record == <<status, stored, write>>

RecordOK ==
  /\ status \in States
  /\ stored \in States
  /\ write \in [Tasks -> States \cup {NoWrite}]
  /\ RowBehind

\* _set_state leaves the record well-formed when it does not complete the run.
LEMMA SetStateRecord ==
  ASSUME RecordOK, NEW t \in Tasks, NEW s \in States, SetState(t, s)
  PROVE  RecordOK' /\ status' = s /\ (status = "COMPLETED" => s = "COMPLETED")
  <1>1. status = "COMPLETED" => s = "COMPLETED"
    BY CompletedIsFinal DEF SetState
  <1>2. RecordOK'
    BY <1>1 DEF RecordOK, RowBehind, SetState
  <1> QED
    BY <1>1, <1>2 DEF SetState

\* So does dropping a write, and so does carrying it out.
LEMMA DropWriteRecord ==
  ASSUME RecordOK, NEW t \in Tasks, DropWrite(t), status' = status
  PROVE  RecordOK'
  BY DEF RecordOK, RowBehind, DropWrite, Ready, NoWrite

LEMMA SavedRecord ==
  ASSUME RecordOK, NEW t \in Tasks, Saved(t)
  PROVE  RecordOK'
  BY DEF RecordOK, RowBehind, Saved, Ready, NoWrite

LEMMA ForgetRecord ==
  ASSUME RecordOK, NEW t \in Tasks, write' = [write EXCEPT ![t] = NoWrite],
         status' = status, stored' = stored
  PROVE  RecordOK'
  BY DEF RecordOK, RowBehind, NoWrite

LEMMA LoopSetRecord ==
  ASSUME RecordOK, NEW s \in States, NEW next, LoopSet(s, next)
  PROVE  /\ RecordOK'
         /\ \/ loop' = next /\ status' = s
            \/ loop' = "fail" /\ status' = status
         /\ status = "COMPLETED" => status' = "COMPLETED"
  <1>1. CASE CanMove(status, s)
    BY <1>1, SetStateRecord DEF LoopSet, Tasks
  <1>2. CASE ~CanMove(status, s)
    BY <1>2 DEF LoopSet, RecordOK, RowBehind, db
  <1> QED
    BY <1>1, <1>2

LEMMA IInvRecord == IInv => RecordOK
  BY DEF IInv, Safe, TypeOK, RecordOK


-----------------------------------------------------------------------------
(***************************************************************************)
(* One lemma per task: its steps keep the invariant.                       *)
(***************************************************************************)

\* The steps of initialize().
LEMMA BootInv ==
  ASSUME IInv, Boot \/ BootService \/ BootFails
  PROVE  IInv'
  <1> USE DEF IInv, TypeOK, Safe, BusyWhileAwaited, BootsAlone, MonitorDone,
              TakenDown, CompletedAtEnd, LoopTurn, LoopFrame, BootAt, LoopAt,
              flags, counts, db
  <1>0. RecordOK
    BY IInvRecord
  <1>1. ASSUME Boot PROVE IInv'
    <2>1. /\ BootNext[status] \in States \ {"COMPLETED"}
          /\ BootNext[status] # "RUNNING" => BootNext[status] \in DOMAIN BootNext
      BY <1>1, BootNextType DEF Boot
    <2>2. RecordOK' /\ status' = BootNext[status] /\ status # "COMPLETED"
      BY <1>0, <1>1, <2>1, SetStateRecord DEF Boot, Tasks
    <2> QED
      BY <1>1, <2>1, <2>2 DEF Boot, RecordOK, WorkAt
  <1>2. ASSUME BootService PROVE IInv'
    BY <1>2, <1>0 DEF BootService, RecordOK, RowBehind, Services
  <1>3. ASSUME BootFails PROVE IInv'
    BY <1>3, <1>0 DEF BootFails, RecordOK, RowBehind, Services, FailAt
  <1> QED
    BY <1>1, <1>2, <1>3

\* The steps of an iteration, up to the dispatch of an action and its end.
LEMMA WorkInv ==
  ASSUME IInv,
         \/ Expired \/ ReadControl \/ ClearControl \/ WaitForCodex
         \/ CheckStop \/ CheckPause \/ CheckDispatch \/ PausedPoll \/ Unpause
         \/ DispatchUnpaused \/ Join
  PROVE  IInv'
  <1> USE DEF IInv, TypeOK, Safe, BusyWhileAwaited, BootsAlone, MonitorDone,
              TakenDown, CompletedAtEnd, LoopTurn, LoopFrame, BootAt, LoopAt,
              WorkAt, CloseAt, FailAt, flags, counts, db, Commands
  <1>0. RecordOK
    BY IInvRecord
  <1>1. ASSUME Expired PROVE IInv'
    BY <1>1, <1>0 DEF Expired, RecordOK, RowBehind
  <1>2. ASSUME ReadControl PROVE IInv'
    BY <1>2, <1>0 DEF ReadControl, RecordOK, RowBehind, MonitorAt
  <1>3. ASSUME ClearControl PROVE IInv'
    BY <1>3, <1>0 DEF ClearControl, RecordOK, RowBehind
  <1>4. ASSUME WaitForCodex PROVE IInv'
    <2>1. CASE LoopSet("RUNNING", "check")
      BY <1>4, <1>0, <2>1, LoopSetRecord DEF WaitForCodex, RecordOK, States
    <2>2. CASE ~LoopSet("RUNNING", "check")
      BY <1>4, <1>0, <2>2 DEF WaitForCodex, RecordOK, RowBehind
    <2> QED
      BY <2>1, <2>2
  <1>5. ASSUME CheckStop PROVE IInv'
    BY <1>5, <1>0 DEF CheckStop, Checking, CheckFrame, RecordOK, RowBehind
  <1>6. ASSUME CheckPause PROVE IInv'
    BY <1>6, <1>0, LoopSetRecord
      DEF CheckPause, Checking, CheckFrame, RecordOK, States
  <1>7. ASSUME CheckDispatch PROVE IInv'
    BY <1>7, <1>0
      DEF CheckDispatch, Checking, CheckFrame, Dispatch, RecordOK, RowBehind,
          ActionAt, ActionLive, WatcherAt, Stages
  <1>8. ASSUME PausedPoll PROVE IInv'
    BY <1>8, <1>0 DEF PausedPoll, RecordOK, RowBehind
  <1>9. ASSUME Unpause PROVE IInv'
    <2>1. CASE LoopSet("RUNNING", "dispatch")
      BY <1>9, <1>0, <2>1, LoopSetRecord DEF Unpause, RecordOK, States
    <2>2. CASE ~LoopSet("RUNNING", "dispatch")
      BY <1>9, <1>0, <2>2 DEF Unpause, RecordOK, RowBehind
    <2> QED
      BY <2>1, <2>2
  <1>10. ASSUME DispatchUnpaused PROVE IInv'
    BY <1>10, <1>0
      DEF DispatchUnpaused, Dispatch, RecordOK, RowBehind, ActionAt,
          ActionLive, WatcherAt, Stages
  <1>11. ASSUME Join PROVE IInv'
    <2>1. RecordOK'
      BY <1>11, <1>0, DropWriteRecord DEF Join, Tasks
    <2> QED
      BY <1>11, <2>1
        DEF Join, RecordOK, ActionAt, ActionEnded, WatcherAt, MonitorAt
  <1> QED
    BY <1>1, <1>2, <1>3, <1>4, <1>5, <1>6, <1>7, <1>8, <1>9, <1>10, <1>11

\* The steps that close the run, or give it up.
LEMMA CloseInv ==
  ASSUME IInv, Exit \/ LoopStopAll \/ Complete \/ Fail \/ Finally
  PROVE  IInv'
  <1> USE DEF IInv, TypeOK, Safe, BusyWhileAwaited, BootsAlone, MonitorDone,
              TakenDown, CompletedAtEnd, LoopTurn, LoopFrame, BootAt, LoopAt,
              CloseAt, FailAt, LastAt, flags, counts, db
  <1>0. RecordOK
    BY IInvRecord
  <1>1. ASSUME Exit PROVE IInv'
    BY <1>1, <1>0, LoopSetRecord DEF Exit, RecordOK, States
  <1>2. ASSUME LoopStopAll PROVE IInv'
    BY <1>2, <1>0 DEF LoopStopAll, RecordOK, RowBehind, Services
  <1>3. ASSUME Complete PROVE IInv'
    <2>1. CASE LoopSet("COMPLETED", "finally")
      BY <1>3, <1>0, <2>1, LoopSetRecord DEF Complete, RecordOK, States
    <2>2. CASE ~LoopSet("COMPLETED", "finally")
      BY <1>3, <1>0, <2>2 DEF Complete, RecordOK, RowBehind
    <2> QED
      BY <2>1, <2>2
  <1>4. ASSUME Fail PROVE IInv'
    <2>1. CASE SetState("loop", "FAILED")
      BY <1>4, <1>0, <2>1, SetStateRecord DEF Fail, RecordOK, States, Tasks
    <2>2. CASE ~SetState("loop", "FAILED")
      BY <1>4, <1>0, <2>2 DEF Fail, RecordOK, RowBehind
    <2> QED
      BY <2>1, <2>2
  <1>5. ASSUME Finally PROVE IInv'
    <2>1. RecordOK'
      BY <1>5, <1>0, DropWriteRecord DEF Finally, Tasks
    <2> QED
      BY <1>5, <2>1 DEF Finally, RecordOK, MonitorAt
  <1> QED
    BY <1>1, <1>2, <1>3, <1>4, <1>5

\* The steps of the action.
LEMMA ActionInv ==
  ASSUME IInv, ActionStep \/ CliHangs
  PROVE  IInv'
  <1> USE DEF IInv, TypeOK, Safe, BusyWhileAwaited, BootsAlone, MonitorDone,
              TakenDown, CompletedAtEnd, ActionTurn, ActionFrame, ActionAt,
              ActionLive, ActionEnded, Restarting, BootAt, flags, counts, db
  <1>0. RecordOK
    BY IInvRecord
  <1>a. ASSUME Raise, loop = "await"
        PROVE  /\ RecordOK'
               /\ stage' \in Stages
               /\ action' \in {"exec", "raised"}
               /\ status' # "COMPLETED"
    <2>1. CASE SetState("action", "RUNNING")
      BY <1>a, <1>0, <2>1, SetStateRecord DEF Raise, RecordOK, States, Tasks, Stages
    <2>2. CASE ~SetState("action", "RUNNING")
      BY <1>a, <1>0, <2>2 DEF Raise, RecordOK, RowBehind
    <2> QED
      BY <2>1, <2>2
  <1>1. ASSUME Advance PROVE IInv'
    <2>1. PICK s \in StageNext[stage] :
            /\ SetState("action", StateOf(s))
            /\ stage' = s
            /\ action' = IF s = "RESTARTING" THEN "gwDown" ELSE "exec"
      BY <1>1 DEF Advance
    <2>2. s \in Stages /\ StateOf(s) \in States \ {"COMPLETED"}
      BY StageNextType, StateOfType
    <2>3. RecordOK' /\ status' = StateOf(s)
      BY <1>0, <2>1, <2>2, SetStateRecord DEF Tasks
    <2> QED
      BY <1>1, <2>1, <2>2, <2>3 DEF Advance, RecordOK
  <1>2. ASSUME Refused PROVE IInv'
    BY <1>2, <1>0 DEF Refused, RecordOK, RowBehind
  <1>3. ASSUME ActionRaises PROVE IInv'
    BY <1>3, <1>a DEF ActionRaises, RecordOK
  <1>4. ASSUME RestartRuntime PROVE IInv'
    BY <1>4, <1>0 DEF RestartRuntime, RecordOK, RowBehind
  <1>5. ASSUME RestartDown PROVE IInv'
    BY <1>5, <1>0 DEF RestartDown, RecordOK, RowBehind, Services
  <1>6. ASSUME RestartUp PROVE IInv'
    BY <1>6, <1>0 DEF RestartUp, RecordOK, RowBehind, Services
  <1>7. ASSUME RestartFails PROVE IInv'
    BY <1>7, <1>a DEF RestartFails, RecordOK, Services
  <1>8. ASSUME Return PROVE IInv'
    BY <1>8, <1>0 DEF Return, RecordOK, RowBehind
  <1>9. ASSUME Cancelled PROVE IInv'
    <2>1. RecordOK'
      BY <1>9, <1>0, DropWriteRecord DEF Cancelled, Tasks
    <2> QED
      BY <1>9, <2>1 DEF Cancelled, RecordOK
  <1>10. ASSUME CliHangs PROVE IInv'
    BY <1>10, <1>0 DEF CliHangs, RecordOK, RowBehind
  <1> QED
    BY <1>1, <1>2, <1>3, <1>4, <1>5, <1>6, <1>7, <1>8, <1>9, <1>10 DEF ActionStep

\* The steps of the watcher.
LEMMA WatcherInv ==
  ASSUME IInv, WatcherStep
  PROVE  IInv'
  <1> USE DEF IInv, TypeOK, Safe, BusyWhileAwaited, BootsAlone, MonitorDone,
              TakenDown, CompletedAtEnd, WatcherTurn, WatcherFrame, WatcherAt,
              BootAt, flags, counts, db, Commands
  <1>0. RecordOK
    BY IInvRecord
  <1>1. ASSUME WatchPoll PROVE IInv'
    BY <1>1, <1>0 DEF WatchPoll, RecordOK, RowBehind
  <1>2. ASSUME WatchClearPause PROVE IInv'
    BY <1>2, <1>0 DEF WatchClearPause, RecordOK, RowBehind
  <1>3. ASSUME WatchClearStop PROVE IInv'
    <2>1. CASE status \in Closing
      BY <1>3, <1>0, <2>1 DEF WatchClearStop, RecordOK, RowBehind
    <2>2. CASE status \notin Closing
      BY <1>3, <1>0, <2>2, SetStateRecord DEF WatchClearStop, RecordOK, States, Tasks
    <2> QED
      BY <2>1, <2>2
  <1>4. ASSUME WatchCancel PROVE IInv'
    BY <1>4, <1>0 DEF WatchCancel, RecordOK, RowBehind
  <1> QED
    BY <1>1, <1>2, <1>3, <1>4 DEF WatcherStep

\* The steps of the monitor.
LEMMA MonitorInv ==
  ASSUME IInv, Breach \/ MonitorStep
  PROVE  IInv'
  <1> USE DEF IInv, TypeOK, Safe, BusyWhileAwaited, BootsAlone, MonitorDone,
              TakenDown, CompletedAtEnd, MonitorTurn, MonitorFrame, MonitorAt,
              BootAt, flags, counts, db
  <1>0. RecordOK
    BY IInvRecord
  <1>1. ASSUME Breach PROVE IInv'
    <2>1. CASE status \in Closing
      BY <1>1, <1>0, <2>1 DEF Breach, RecordOK, RowBehind
    <2>2. CASE status \notin Closing
      BY <1>1, <1>0, <2>2, SetStateRecord
        DEF Breach, RecordOK, States, Tasks, Closing, Final
    <2> QED
      BY <2>1, <2>2
  <1>2. ASSUME MonitorQuits PROVE IInv'
    BY <1>2, <1>0 DEF MonitorQuits, RecordOK, RowBehind
  <1>3. ASSUME MonitorCancel PROVE IInv'
    BY <1>3, <1>0 DEF MonitorCancel, RecordOK, RowBehind
  <1>4. ASSUME MonitorJoin PROVE IInv'
    BY <1>4, <1>0 DEF MonitorJoin, RecordOK, RowBehind
  <1>5. ASSUME MonitorStopAll PROVE IInv'
    <2>1. running' \subseteq running /\ monitor' \in {"downMesa", "ended"}
      BY <1>5 DEF MonitorStopAll
    <2>2. monitor \in {"downGw", "downMesa"} /\ loop' = loop
      BY <1>5 DEF MonitorStopAll
    <2>3. TypeOK'
      BY <1>5, <2>1 DEF MonitorStopAll, Services
    <2>4. Safe'
      BY <1>5, <2>1, <2>2 DEF MonitorStopAll, RowBehind
    <2> QED
      BY <2>3, <2>4
  <1> QED
    BY <1>1, <1>2, <1>3, <1>4, <1>5 DEF MonitorStep

\* A fault of controller.db, in any task.
LEMMA FaultInv ==
  ASSUME IInv, AnyFault
  PROVE  IInv'
  <1> USE DEF IInv, TypeOK, Safe, BusyWhileAwaited, BootsAlone, MonitorDone,
              TakenDown, CompletedAtEnd, BootAt, flags, counts, db
  <1>0. RecordOK
    BY IInvRecord
  <1>b. Fault => faults' \in 0..MaxFaults
    BY BoundsAssumption DEF Fault
  <1>1. ASSUME ActionFault PROVE IInv'
    <2>1. /\ RecordOK'
          /\ stage' \in Stages
          /\ action' \in {"exec", "raised"}
          /\ status' \in {status, "RUNNING"}
      <3>1. CASE SetState("action", "RUNNING") /\ stage' = "RUNNING" /\ action' = "exec"
        BY <1>0, <3>1, SetStateRecord DEF States, Tasks, Stages
      <3>2. CASE /\ action' = "raised"
                 /\ write' = [write EXCEPT !["action"] = NoWrite]
                 /\ UNCHANGED <<status, stage, stored>>
        <4>1. RecordOK'
          BY <1>0, <3>2, ForgetRecord DEF Tasks
        <4> QED
          BY <3>2, <4>1
      <3>3. CASE action' = "raised" /\ UNCHANGED <<status, db, stage>>
        BY <1>0, <3>3 DEF RecordOK, RowBehind
      <3> QED
        BY <1>1, <3>1, <3>2, <3>3 DEF ActionFault
    <2>2. loop = "await" /\ faults' \in 0..MaxFaults
      BY <1>1, <1>b DEF ActionFault, ActionLive, Restarting
    <2>3. UNCHANGED <<slot, seen, flags, loop, watcher, monitor, cancel,
                      expired, blocked, commands, late, running>>
      BY <1>1 DEF ActionFault, ActionFrame
    <2>4. TypeOK'
      BY <2>1, <2>2, <2>3 DEF RecordOK, ActionAt, ActionLive, ActionEnded
    <2>5. Safe'
      BY <2>1, <2>2, <2>3 DEF RecordOK, BootAt
    <2> QED
      BY <2>4, <2>5
  <1>2. ASSUME LoopFault PROVE IInv'
    <2>1. RecordOK'
      BY <1>2, <1>0, ForgetRecord DEF LoopFault, Tasks
    <2> QED
      BY <1>2, <1>b, <2>1 DEF LoopFault, LoopFrame, LoopAt, FailAt, LastAt, RecordOK
  <1>3. ASSUME WatcherFault PROVE IInv'
    <2>1. RecordOK'
      BY <1>3, <1>0, ForgetRecord DEF WatcherFault, Tasks
    <2> QED
      BY <1>3, <1>b, <2>1 DEF WatcherFault, WatcherAt, RecordOK
  <1>4. ASSUME MonitorFault PROVE IInv'
    <2>1. RecordOK'
      BY <1>4, <1>0, ForgetRecord DEF MonitorFault, Tasks
    <2> QED
      BY <1>4, <1>b, <2>1 DEF MonitorFault, MonitorFrame, MonitorAt, RecordOK
  <1> QED
    BY <1>1, <1>2, <1>3, <1>4 DEF AnyFault

\* The environment, and the writes that reach the row.
LEMMA EnvironmentInv ==
  ASSUME IInv,
         Command \/ Expire \/ Block \/ (\E t \in Tasks : Saved(t)) \/ UNCHANGED vars
  PROVE  IInv'
  <1> USE BoundsAssumption
      DEF IInv, TypeOK, Safe, BusyWhileAwaited, BootsAlone, MonitorDone,
          TakenDown, CompletedAtEnd, flags, counts, pcs, db
  <1>0. RecordOK
    BY IInvRecord
  <1>1. ASSUME Command PROVE IInv'
    BY <1>1, <1>0 DEF Command, RecordOK, RowBehind
  <1>2. ASSUME Expire PROVE IInv'
    BY <1>2, <1>0 DEF Expire, RecordOK, RowBehind
  <1>3. ASSUME NEW t \in Tasks, Saved(t) PROVE IInv'
    <2>1. RecordOK'
      BY <1>3, <1>0, SavedRecord
    <2> QED
      BY <1>3, <2>1 DEF Saved, RecordOK
  <1>4. ASSUME Block PROVE IInv'
    BY <1>4, <1>0 DEF Block, RecordOK, RowBehind
  <1>5. ASSUME UNCHANGED vars PROVE IInv'
    BY <1>5, <1>0 DEF vars, RecordOK, RowBehind
  <1> QED
    BY <1>1, <1>2, <1>3, <1>4, <1>5

-----------------------------------------------------------------------------
(***************************************************************************)
(* The theorems.                                                           *)
(***************************************************************************)

LEMMA InitInv == Init => IInv
  <1> SUFFICES ASSUME Init PROVE IInv
    OBVIOUS
  <1>1. 0 \in 0..MaxCommands /\ 0 \in 0..MaxFaults
    BY BoundsAssumption
  <1>2. TypeOK
    <2>1. write \in [Tasks -> States \cup {NoWrite}]
      BY DEF Init
    <2>2. status \in States /\ stored \in States
      BY DEF Init, States
    <2>3. loop \in LoopAt /\ action \in ActionAt /\ watcher \in WatcherAt
            /\ monitor \in MonitorAt /\ stage \in Stages
      BY DEF Init, LoopAt, BootAt, ActionAt, WatcherAt, MonitorAt, Stages
    <2>4. slot \in Commands \cup {NoCmd} /\ seen \in Commands \cup {NoCmd}
            /\ running \subseteq Services
      BY DEF Init
    <2>5. stopReq \in BOOLEAN /\ pauseReq \in BOOLEAN /\ cancel \in BOOLEAN
            /\ expired \in BOOLEAN /\ blocked \in BOOLEAN
      BY DEF Init
    <2>6. commands \in 0..MaxCommands /\ faults \in 0..MaxFaults /\ late \in 0..2
      BY <1>1 DEF Init
    <2> QED
      BY <2>1, <2>2, <2>3, <2>4, <2>5, <2>6 DEF TypeOK
  <1>3. Safe
    BY DEF Init, Safe, BusyWhileAwaited, BootsAlone, MonitorDone, TakenDown,
           CompletedAtEnd, RowBehind, Tasks, NoWrite, BootAt, BootNext
  <1> QED
    BY <1>2, <1>3 DEF IInv

LEMMA NextInv == IInv /\ [Next]_vars => IInv'
  BY BootInv, WorkInv, CloseInv, ActionInv, WatcherInv, MonitorInv, FaultInv,
     EnvironmentInv
    DEF Next, LoopStep, Terminated

\* The invariant holds in every state of every run.
THEOREM Invariance == Spec => []IInv
  BY InitInv, NextInv, PTL DEF Spec

\* Type correctness of the four tasks and of the row they share.
THEOREM TypeCorrect == Spec => []TypeOK
  BY Invariance, PTL DEF IInv

\* A run whose loop ended leaves no service running and no task in flight,
\* whatever order the four tasks took in starting, stopping and cancelling; one
\* whose handler failed leaves no task.
THEOREM EndsClean == Spec => []EndedRunIsClean
  <1>1. IInv => EndedRunIsClean
    BY DEF IInv, Safe, BusyWhileAwaited, MonitorDone, TakenDown, EndedRunIsClean
  <1> QED
    BY <1>1, Invariance, PTL

\* A row that says COMPLETED is one whose services are stopped.
THEOREM CompletedStopped == Spec => []CompletedMeansStopped
  <1>1. IInv => CompletedMeansStopped
    BY DEF IInv, Safe, BusyWhileAwaited, CompletedAtEnd, RowBehind, CompletedMeansStopped
  <1> QED
    BY <1>1, Invariance, PTL

-----------------------------------------------------------------------------
(***************************************************************************)
(* RunLoop implements RunLifecycle.                                        *)
(***************************************************************************)

Live == BootAt \cup WorkAt

\* What a step does to the phase: it leaves a live one only when no action is
\* in flight, and then it only takes services down.
PhaseMoves ==
  /\ loop \in Live /\ loop' \notin Live =>
       action \notin ActionLive /\ action' \notin ActionLive /\ loop' # "ended"
  /\ loop \notin Live =>
       loop' \notin Live /\ running' \subseteq running /\ action' = action
  /\ loop \notin Live /\ loop' = "ended" /\ loop # "ended" => running = {}
  /\ loop = "ended" => loop' = "ended"

\* The loop's own steps.
LEMMA LoopMoves ==
  ASSUME IInv, LoopStep
  PROVE  PhaseMoves
  <1> USE DEF PhaseMoves, Live, BootAt, WorkAt, ActionLive, Restarting,
              LoopTurn, LoopFrame, LoopSet
  <1>0. /\ loop # "await" => action = "idle"
        /\ loop = "finally" => running = {}
    BY DEF IInv, Safe, BusyWhileAwaited, TakenDown
  <1>1. ASSUME Boot \/ BootService \/ BootFails PROVE PhaseMoves
    BY <1>0, <1>1 DEF Boot, BootService, BootFails
  <1>2. ASSUME Expired \/ ReadControl \/ ClearControl \/ WaitForCodex PROVE PhaseMoves
    BY <1>0, <1>2 DEF Expired, ReadControl, ClearControl, WaitForCodex
  <1>3. ASSUME CheckStop \/ CheckPause \/ CheckDispatch PROVE PhaseMoves
    BY <1>0, <1>3
      DEF CheckStop, CheckPause, CheckDispatch, Checking, CheckFrame, Dispatch
  <1>4. ASSUME PausedPoll \/ Unpause \/ DispatchUnpaused PROVE PhaseMoves
    BY <1>0, <1>4 DEF PausedPoll, Unpause, DispatchUnpaused, Dispatch
  <1>5. ASSUME Join PROVE PhaseMoves
    BY <1>0, <1>5 DEF Join, ActionEnded
  <1>6. ASSUME Exit \/ LoopStopAll \/ Complete PROVE PhaseMoves
    BY <1>0, <1>6 DEF Exit, LoopStopAll, Complete
  <1>7. ASSUME Fail \/ Finally PROVE PhaseMoves
    BY <1>0, <1>7 DEF Fail, Finally
  <1> QED
    BY <1>1, <1>2, <1>3, <1>4, <1>5, <1>6, <1>7 DEF LoopStep

\* Every step: the other tasks never move the loop, and the action and the
\* watcher are there only while it awaits them.
LEMMA EveryMove ==
  ASSUME IInv, [Next]_vars
  PROVE  PhaseMoves
  <1> USE DEF PhaseMoves, Live, BootAt, WorkAt, ActionLive, Restarting
  <1>0. /\ action # "idle" \/ watcher # "off" => loop = "await"
        /\ loop = "ended" => monitor \in {"off", "ended"}
        /\ watcher \in WatcherAt
    BY DEF IInv, TypeOK, Safe, BusyWhileAwaited, MonitorDone
  <1>1. ASSUME LoopStep PROVE PhaseMoves
    BY <1>1, LoopMoves
  <1>2. ASSUME ActionStep \/ CliHangs PROVE PhaseMoves
    <2>1. action \in ActionLive /\ loop' = loop
      BY <1>2
        DEF ActionStep, ActionTurn, ActionFrame, Advance, Refused, ActionRaises,
            RestartRuntime, RestartDown, RestartUp, RestartFails, Return, Cancelled,
            CliHangs
    <2> QED
      BY <1>0, <2>1
  <1>3. ASSUME WatcherStep PROVE PhaseMoves
    BY <1>0, <1>3
      DEF WatcherStep, WatchPoll, WatchClearPause, WatchClearStop, WatchCancel,
          WatcherTurn, WatcherFrame
  <1>4. ASSUME Breach \/ MonitorStep PROVE PhaseMoves
    BY <1>0, <1>4
      DEF Breach, MonitorStep, MonitorQuits, MonitorCancel, MonitorJoin,
          MonitorStopAll, MonitorTurn, MonitorFrame
  <1>5. ASSUME AnyFault PROVE PhaseMoves
    <2>1. ASSUME LoopFault PROVE PhaseMoves
      BY <1>0, <2>1 DEF LoopFault, LoopFrame
    <2>2. ASSUME ActionFault PROVE PhaseMoves
      BY <1>0, <2>2 DEF ActionFault, ActionFrame
    <2>3. ASSUME WatcherFault \/ MonitorFault PROVE PhaseMoves
      BY <1>0, <2>3 DEF WatcherFault, MonitorFault, MonitorFrame
    <2> QED
      BY <1>5, <2>1, <2>2, <2>3 DEF AnyFault
  <1>6. ASSUME Command \/ Expire \/ Block \/ UNCHANGED vars PROVE PhaseMoves
    BY <1>6 DEF Command, Expire, Block, vars, pcs
  <1>7. ASSUME NEW t \in Tasks, Saved(t) PROVE PhaseMoves
    BY <1>7 DEF Saved, pcs
  <1> QED
    BY <1>1, <1>2, <1>3, <1>4, <1>5, <1>6, <1>7 DEF Next, Terminated

\* The first state of a run is the abstract one's.
LEMMA LifecycleInit == Init => Lifecycle!LCInit
  BY DEF Init, Lifecycle!LCInit, Phase, BootAt, ActionLive, Restarting

\* Every step of the tasks is one of the lifecycle or changes nothing of it.
LEMMA LifecycleStep ==
  ASSUME IInv, IInv', [Next]_vars
  PROVE  [Lifecycle!LCNext]_(Lifecycle!lcVars)
  <1>1. PhaseMoves
    BY EveryMove
  <1>2. running' \subseteq Services
    BY DEF IInv, TypeOK
  <1>3. loop # "await" => action \notin ActionLive
    BY DEF IInv, Safe, BusyWhileAwaited, ActionLive, Restarting
  <1>4. loop = "ended" => running = {}
    BY DEF IInv, Safe, TakenDown
  <1>5. CASE loop \in Live /\ loop' \in Live
    BY <1>2, <1>5 DEF Live, Phase, Lifecycle!LCNext, Lifecycle!Work
  <1>6. CASE loop \in Live /\ loop' \notin Live
    BY <1>1, <1>2, <1>6
      DEF PhaseMoves, Live, Phase, Lifecycle!LCNext, Lifecycle!BeginClosing
  <1>7. CASE loop \notin Live /\ loop' # "ended"
    BY <1>1, <1>7 DEF PhaseMoves, Live, Phase, Lifecycle!LCNext, Lifecycle!TakeDown
  <1>8. CASE loop \notin Live /\ loop' = "ended" /\ loop # "ended"
    BY <1>1, <1>8
      DEF PhaseMoves, Live, BootAt, WorkAt, Phase, Lifecycle!LCNext, Lifecycle!Close
  <1>9. CASE loop = "ended"
    BY <1>1, <1>4, <1>9
      DEF PhaseMoves, Live, BootAt, WorkAt, Phase, Lifecycle!LCNext, Lifecycle!lcVars
  <1> QED
    BY <1>5, <1>6, <1>7, <1>8, <1>9 DEF Live, BootAt, WorkAt

\* Seen from outside, the four tasks are one run that works, closes with no
\* action in flight, and is closed with nothing running.
THEOREM Refinement == Spec => ImplementsLifecycle
  BY Invariance, LifecycleInit, LifecycleStep, PTL
    DEF Spec, ImplementsLifecycle, Lifecycle!LCSpec

-----------------------------------------------------------------------------
(***************************************************************************)
(* Where the status is, seen from where the tasks are.                     *)
(***************************************************************************)

\* Where an action that returns has left the status, if no stop moved it.
BackAt == {"START", "RUNNING", "REPAIRED", "WAITING_FOR_CODEX"}

\* Until a stop is flagged the status is where the loop and the action put it: every
\* emergency path flags the stop before it moves the status or cancels anything.
StatusTracks ==
  stopReq \/
    /\ loop \in {"top", "clear", "decide"} => status \in {"RUNNING", "WAITING_FOR_CODEX"}
    /\ loop \in {"check", "dispatch"} => status = "RUNNING"
    /\ loop \in {"paused", "pausedClear", "unpause"} => status = "PAUSED"
    /\ action \in ActionLive \cup {"returned"} => status = StateOf(stage)
    /\ ~cancel /\ action # "cancelled"
    /\ watcher \notin {"clearStop", "cancel"} /\ monitor \notin {"cancel", "join"}

\* A restart is the action's first or the repair's, and only some stages return.
ActionPlaced ==
  /\ action \in Restarting => stage \in {"START", "RESTARTING"}
  /\ action = "returned" => stage \in BackAt

\* Only the handler of a failed run sets FAILED, and STOPPING stays while the loop
\* takes the services down.
ClosesInOrder ==
  /\ status = "FAILED" => loop \in FailAt \cup LastAt
  /\ loop \in {"downGw", "downMesa", "complete"} => status = "STOPPING"

\* Once an action was dispatched after a stop the loop does not come back to where
\* that happened.
LateOnce == late = 0 \/ (late = 1 /\ stopReq /\ loop # "dispatch")

Tracks == StatusTracks /\ ActionPlaced /\ ClosesInOrder /\ LateOnce
IInvTracks == IInv /\ Tracks

\* The state a _set_state goes to, and where the loop's own leads.
LEMMA SetStateTo ==
  ASSUME NEW t, NEW s, SetState(t, s)
  PROVE  status' = s
  BY DEF SetState

LEMMA LoopSetTo ==
  ASSUME NEW s, NEW next, LoopSet(s, next)
  PROVE  \/ loop' = next /\ status' = s
         \/ loop' = "fail" /\ status' = status
  BY DEF LoopSet, SetState, db

\* The steps of initialize().
LEMMA BootTracks ==
  ASSUME IInvTracks, Boot \/ BootService \/ BootFails
  PROVE  Tracks'
  <1> USE DEF IInvTracks, Tracks, StatusTracks, ActionPlaced, ClosesInOrder, LateOnce,
              LoopTurn, LoopFrame, FailAt, LastAt, flags, db
  <1>0. loop \in BootAt => status \in DOMAIN BootNext
    BY DEF IInv, Safe, BootsAlone
  <1>1. ASSUME Boot PROVE Tracks'
    <2>1. status' = BootNext[status] /\ status \in DOMAIN BootNext
      BY <1>0, <1>1, SetStateTo DEF Boot, BootAt
    <2>2. status' # "FAILED" /\ status \notin {"FAILED"}
      BY <2>1 DEF BootNext
    <2>3. loop' \in {"boot", "bootMesa", "top"} /\ (loop' = "top" => status' = "RUNNING")
      BY <1>1, <2>1 DEF Boot
    <2>4. action = "idle"
      BY <1>1 DEF Boot, IInv, Safe, BusyWhileAwaited
    <2> QED
      BY <1>1, <2>2, <2>3, <2>4 DEF Boot, ActionLive, Restarting
  <1>2. ASSUME BootService PROVE Tracks'
    BY <1>2 DEF BootService
  <1>3. ASSUME BootFails PROVE Tracks'
    BY <1>3 DEF BootFails
  <1> QED
    BY <1>1, <1>2, <1>3

\* The steps of an iteration.
LEMMA WorkTracks ==
  ASSUME IInvTracks,
         \/ Expired \/ ReadControl \/ ClearControl \/ WaitForCodex
         \/ CheckStop \/ CheckPause \/ CheckDispatch \/ PausedPoll \/ Unpause
         \/ DispatchUnpaused \/ Join
  PROVE  Tracks'
  <1> USE DEF IInvTracks, Tracks, StatusTracks, ActionPlaced, ClosesInOrder, LateOnce,
              LoopTurn, LoopFrame, FailAt, LastAt, flags, db, counts
  <1>0. /\ loop # "await" => action = "idle" /\ watcher = "off"
        /\ stopReq \in BOOLEAN /\ late \in 0..2
    BY DEF IInv, Safe, BusyWhileAwaited, TypeOK
  <1>1. ASSUME Expired \/ ReadControl \/ ClearControl PROVE Tracks'
    BY <1>0, <1>1 DEF Expired, ReadControl, ClearControl
  <1>2. ASSUME WaitForCodex PROVE Tracks'
    <2>1. CASE LoopSet("RUNNING", "check")
      <3>1. (loop' = "check" /\ status' = "RUNNING") \/ (loop' = "fail" /\ status' = status)
        BY <2>1, LoopSetTo
      <3> QED
        BY <1>0, <1>2, <3>1 DEF WaitForCodex, ActionLive, Restarting
    <2>2. CASE ~LoopSet("RUNNING", "check")
      BY <1>0, <1>2, <2>2 DEF WaitForCodex
    <2> QED
      BY <2>1, <2>2
  <1>3. ASSUME CheckStop PROVE Tracks'
    BY <1>0, <1>3 DEF CheckStop, Checking, CheckFrame
  <1>4. ASSUME CheckPause PROVE Tracks'
    <2>1. (loop' = "paused" /\ status' = "PAUSED") \/ (loop' = "fail" /\ status' = status)
      BY <1>4, LoopSetTo DEF CheckPause
    <2> QED
      BY <1>0, <1>4, <2>1 DEF CheckPause, Checking, CheckFrame, ActionLive, Restarting
  <1>5. ASSUME CheckDispatch PROVE Tracks'
    <2>1. ~stopReq /\ late = 0 /\ status = "RUNNING"
      BY <1>0, <1>5 DEF CheckDispatch, Checking
    <2>2. late' = 0 /\ status' = "RUNNING" /\ StateOf(stage') = "RUNNING"
      BY <1>5, <2>1 DEF CheckDispatch, Dispatch, StateOf
    <2> QED
      BY <1>0, <1>5, <2>1, <2>2 DEF CheckDispatch, CheckFrame, Dispatch, Restarting
  <1>6. ASSUME PausedPoll PROVE Tracks'
    BY <1>0, <1>6 DEF PausedPoll
  <1>7. ASSUME Unpause PROVE Tracks'
    <2>1. CASE stopReq
      BY <1>0, <1>7, <2>1 DEF Unpause
    <2>2. CASE ~stopReq
      <3>1. (loop' = "dispatch" /\ status' = "RUNNING") \/ (loop' = "fail" /\ status' = status)
        BY <1>7, <2>2, LoopSetTo DEF Unpause
      <3> QED
        BY <1>0, <1>7, <2>2, <3>1 DEF Unpause, ActionLive, Restarting
    <2> QED
      BY <2>1, <2>2
  <1>8. ASSUME DispatchUnpaused PROVE Tracks'
    <2>1. late = 0
      BY <1>8 DEF DispatchUnpaused
    <2>2. /\ StateOf(stage') = "RUNNING" /\ status' = status
          /\ late' = 0 \/ (late' = 1 /\ stopReq)
      BY <1>8, <2>1 DEF DispatchUnpaused, Dispatch, StateOf
    <2> QED
      BY <1>0, <1>8, <2>2 DEF DispatchUnpaused, Dispatch, Restarting
  <1>9. ASSUME Join PROVE Tracks'
    <2>1. action = "returned" => StateOf(stage) \in {"RUNNING", "WAITING_FOR_CODEX"}
      BY DEF BackAt, StateOf
    <2>2. \/ loop' = "top" /\ action = "returned"
          \/ loop' = "exit" /\ action = "cancelled"
          \/ loop' = "fail"
      BY <1>9 DEF Join, ActionEnded
    <2>3. action' = "idle" /\ watcher' = "off" /\ monitor' \in {monitor, "ended"}
          /\ UNCHANGED <<status, stopReq, stage, cancel, late>>
          /\ loop = "await"
      BY <1>9 DEF Join
    <2> QED
      BY <2>1, <2>2, <2>3 DEF ActionLive, Restarting
  <1> QED
    BY <1>1, <1>2, <1>3, <1>4, <1>5, <1>6, <1>7, <1>8, <1>9

\* The steps that close the run.
LEMMA CloseTracks ==
  ASSUME IInvTracks, Exit \/ LoopStopAll \/ Complete \/ Fail \/ Finally
  PROVE  Tracks'
  <1> USE DEF IInvTracks, Tracks, StatusTracks, ActionPlaced, ClosesInOrder, LateOnce,
              LoopTurn, LoopFrame, FailAt, LastAt, flags, db, counts
  <1>0. loop # "await" => action = "idle" /\ watcher = "off"
    BY DEF IInv, Safe, BusyWhileAwaited
  <1>1. ASSUME Exit PROVE Tracks'
    <2>1. (loop' = "downGw" /\ status' = "STOPPING") \/ (loop' = "fail" /\ status' = status)
      BY <1>1, LoopSetTo DEF Exit
    <2> QED
      BY <1>0, <1>1, <2>1 DEF Exit, ActionLive, Restarting
  <1>2. ASSUME LoopStopAll PROVE Tracks'
    BY <1>0, <1>2 DEF LoopStopAll
  <1>3. ASSUME Complete PROVE Tracks'
    <2>1. (loop' = "finally" /\ status' = "COMPLETED") \/ (loop' = "fail" /\ status' = status)
      BY <1>3, LoopSetTo DEF Complete
    <2> QED
      BY <1>0, <1>3, <2>1 DEF Complete, ActionLive, Restarting
  <1>4. ASSUME Fail PROVE Tracks'
    <2>1. (loop' = "failGw" /\ status' = "FAILED") \/ (loop' = "abortFinally" /\ status' = status)
      BY <1>4, SetStateTo DEF Fail
    <2> QED
      BY <1>0, <1>4, <2>1 DEF Fail, ActionLive, Restarting
  <1>5. ASSUME Finally PROVE Tracks'
    BY <1>0, <1>5 DEF Finally
  <1> QED
    BY <1>1, <1>2, <1>3, <1>4, <1>5

\* An action's own states are none of those that close a run.
LEMMA StageStates ==
  ASSUME NEW s \in Stages
  PROVE  StateOf(s) \notin {"FAILED", "STOPPING"}
  BY DEF Stages, StateOf

\* The steps of the action.
LEMMA ActionTracks ==
  ASSUME IInvTracks, ActionStep \/ CliHangs \/ ActionFault
  PROVE  Tracks'
  <1> USE DEF IInvTracks, Tracks, ActionTurn, ActionFrame, flags, db, counts
  <1>0. loop = "await" /\ action \in ActionLive
    BY DEF IInv, Safe, BusyWhileAwaited, ActionStep, ActionFault, ActionLive, Restarting,
           Advance, Refused, ActionRaises, RestartRuntime, RestartDown, RestartUp,
           RestartFails, Return, Cancelled, CliHangs
  <1>1. /\ UNCHANGED <<loop, watcher, monitor, stopReq, late>>
        /\ cancel' = cancel \/ (cancel' = FALSE /\ cancel)
    BY DEF ActionStep, ActionFault, Advance, Refused, ActionRaises, RestartRuntime,
           RestartDown, RestartUp, RestartFails, Return, Cancelled, CliHangs
  <1> DEFINE Effect ==
        /\ action' \in ActionLive \cup {"returned", "raised", "cancelled"}
        /\ action' \in ActionLive \cup {"returned"} => \/ status' = status /\ stage' = stage
                                                       \/ status' = StateOf(stage')
        /\ action' = "cancelled" => cancel
        /\ action' \in Restarting => stage' \in {"START", "RESTARTING"}
        /\ action' = "returned" => stage' \in BackAt
        /\ status' = status \/ status' # "FAILED"
  <1>2. Effect
    <2> USE <1>0 DEF ActionPlaced, ActionLive, Restarting, BackAt
    <2>a. ASSUME SetState("action", "RUNNING"), stage' = "RUNNING", action' = "exec"
          PROVE  Effect
      BY <2>a, SetStateTo DEF StateOf
    <2>1. ASSUME Advance PROVE Effect
      <3>1. PICK s \in StageNext[stage] :
              /\ SetState("action", StateOf(s)) /\ stage' = s
              /\ action' = IF s = "RESTARTING" THEN "gwDown" ELSE "exec"
        BY <2>1 DEF Advance
      <3>2. s \in Stages
        BY StageNextType DEF IInv, TypeOK
      <3>3. status' = StateOf(s) /\ status' # "FAILED"
        BY <3>1, <3>2, SetStateTo, StageStates
      <3> QED
        BY <3>1, <3>3
    <2>2. ASSUME Refused PROVE Effect
      BY <2>2 DEF Refused
    <2>3. ASSUME ActionRaises PROVE Effect
      BY <2>a, <2>3 DEF ActionRaises, Raise
    <2>4. ASSUME RestartRuntime PROVE Effect
      BY <2>4 DEF RestartRuntime
    <2>5. ASSUME RestartDown PROVE Effect
      BY <2>5 DEF RestartDown
    <2>6. ASSUME RestartUp PROVE Effect
      BY <2>6 DEF RestartUp
    <2>7. ASSUME RestartFails PROVE Effect
      BY <2>a, <2>7 DEF RestartFails, Raise
    <2>8. ASSUME Return PROVE Effect
      BY <2>8 DEF Return
    <2>9. ASSUME Cancelled PROVE Effect
      BY <2>9 DEF Cancelled
    <2>10. ASSUME ActionFault PROVE Effect
      BY <2>a, <2>10 DEF ActionFault
    <2>11. ASSUME CliHangs PROVE Effect
      BY <2>11 DEF CliHangs
    <2> HIDE DEF Effect
    <2> QED
      BY <2>1, <2>2, <2>3, <2>4, <2>5, <2>6, <2>7, <2>8, <2>9, <2>10, <2>11 DEF ActionStep
  <1>3. StatusTracks'
    BY <1>0, <1>1, <1>2 DEF StatusTracks
  <1>4. ActionPlaced'
    BY <1>2 DEF ActionPlaced
  <1>5. ClosesInOrder'
    BY <1>0, <1>1, <1>2 DEF ClosesInOrder
  <1>6. LateOnce'
    BY <1>1 DEF LateOnce
  <1> QED
    BY <1>3, <1>4, <1>5, <1>6

\* The steps of the watcher and of the monitor: the flag first.
LEMMA EmergencyTracks ==
  ASSUME IInvTracks, WatcherStep \/ Breach \/ MonitorStep \/ WatcherFault \/ MonitorFault
  PROVE  Tracks'
  <1> USE DEF IInvTracks, Tracks, StatusTracks, ActionPlaced, ClosesInOrder, LateOnce,
              WatcherTurn, WatcherFrame, MonitorTurn, MonitorFrame, flags, db, counts
  <1>0. /\ watcher # "off" => loop = "await"
        /\ cancel \in BOOLEAN /\ stopReq \in BOOLEAN
    BY DEF IInv, Safe, BusyWhileAwaited, TypeOK
  <1>1. ASSUME WatchPoll \/ WatchClearPause PROVE Tracks'
    BY <1>0, <1>1 DEF WatchPoll, WatchClearPause
  <1>2. ASSUME WatchClearStop PROVE Tracks'
    <2>1. stopReq /\ (status' = status \/ status' = "STOPPING")
      BY <1>2, SetStateTo DEF WatchClearStop
    <2> QED
      BY <1>0, <1>2, <2>1 DEF WatchClearStop
  <1>3. ASSUME WatchCancel \/ WatcherFault PROVE Tracks'
    BY <1>0, <1>3 DEF WatchCancel, WatcherFault
  <1>4. ASSUME Breach PROVE Tracks'
    <2>1. stopReq' /\ (status' = status \/ status' = "STOPPING")
      BY <1>4, SetStateTo DEF Breach
    <2>2. ~stopReq => late = 0
      OBVIOUS
    <2> QED
      BY <1>0, <1>4, <2>1, <2>2 DEF Breach
  <1>5. ASSUME MonitorQuits \/ MonitorCancel \/ MonitorJoin \/ MonitorStopAll \/ MonitorFault
        PROVE  Tracks'
    BY <1>0, <1>5 DEF MonitorQuits, MonitorCancel, MonitorJoin, MonitorStopAll, MonitorFault
  <1> QED
    BY <1>1, <1>2, <1>3, <1>4, <1>5 DEF WatcherStep, MonitorStep

\* What is left: the loop's faults, the environment and the writes.
LEMMA OtherTracks ==
  ASSUME IInvTracks,
         \/ LoopFault \/ Command \/ Expire \/ Block
         \/ (\E t \in Tasks : Saved(t)) \/ UNCHANGED vars
  PROVE  Tracks'
  <1> USE DEF IInvTracks, Tracks, StatusTracks, ActionPlaced, ClosesInOrder, LateOnce,
              LoopFrame, FailAt, LastAt, flags, db, counts, pcs
  <1>1. ASSUME LoopFault PROVE Tracks'
    BY <1>1 DEF LoopFault
  <1>2. ASSUME Command \/ Expire \/ Block PROVE Tracks'
    BY <1>2 DEF Command, Expire, Block
  <1>3. ASSUME NEW t \in Tasks, Saved(t) PROVE Tracks'
    BY <1>3 DEF Saved
  <1>4. ASSUME UNCHANGED vars PROVE Tracks'
    BY <1>4 DEF vars
  <1> QED
    BY <1>1, <1>2, <1>3, <1>4

LEMMA TracksInit == Init => Tracks
  BY DEF Init, Tracks, StatusTracks, ActionPlaced, ClosesInOrder, LateOnce, ActionLive, Restarting

LEMMA TracksNext == IInvTracks /\ [Next]_vars => Tracks'
  BY BootTracks, WorkTracks, CloseTracks, ActionTracks, EmergencyTracks, OtherTracks
    DEF Next, LoopStep, AnyFault, Terminated

\* The status is where the tasks expect it in every state of every run.
THEOREM TracksInvariance == Spec => []IInvTracks
  <1>1. Init => IInvTracks
    BY InitInv, TracksInit DEF IInvTracks
  <1>2. IInvTracks /\ [Next]_vars => IInvTracks'
    BY NextInv, TracksNext DEF IInvTracks
  <1> QED
    BY <1>1, <1>2, PTL DEF Spec

\* transition_to accepts every state the loop itself goes to, whatever the other tasks
\* did to the status between its awaits.
THEOREM LoopIsAccepted == Spec => []LoopNeverRefused
  <1>1. IInvTracks => LoopNeverRefused
    <2> SUFFICES ASSUME IInvTracks PROVE LoopNeverRefused
      OBVIOUS
    <2> USE DEF IInvTracks, Tracks
    <2>1. loop = "unpause" /\ ~stopReq => CanMove(status, "RUNNING")
      <3>1. loop = "unpause" /\ ~stopReq => status = "PAUSED"
        BY DEF StatusTracks
      <3> QED
        BY <3>1 DEF CanMove, ValidTransitions, Exits
    <2>2. loop \in {"decide", "check"} /\ status # "WAITING_FOR_CODEX" /\ ~stopReq
            => CanMove(status, "PAUSED")
      <3>1. loop \in {"decide", "check"} /\ status # "WAITING_FOR_CODEX" /\ ~stopReq
              => status = "RUNNING"
        BY DEF StatusTracks
      <3> QED
        BY <3>1 DEF CanMove, ValidTransitions, Exits
    <2>3. loop = "exit" => CanMove(status, "STOPPING")
      <3>1. loop = "exit" => status \in States \ Final
        BY DEF IInv, TypeOK, Safe, CompletedAtEnd, ClosesInOrder, FailAt, LastAt, Final
      <3> QED
        BY <3>1 DEF CanMove, ValidTransitions, Exits, States, Final
    <2>4. loop = "complete" => CanMove(status, "COMPLETED")
      BY DEF ClosesInOrder, CanMove, ValidTransitions, Final
    <2> QED
      BY <2>1, <2>2, <2>3, <2>4 DEF LoopNeverRefused
  <1> QED
    BY <1>1, TracksInvariance, PTL

\* However a stop meets the loop, it dispatches at most one more action.
THEOREM OneLateAction == Spec => []AtMostOneLateAction
  <1>1. IInvTracks => AtMostOneLateAction
    BY DEF IInvTracks, Tracks, LateOnce, AtMostOneLateAction
  <1> QED
    BY <1>1, TracksInvariance, PTL
=============================================================================

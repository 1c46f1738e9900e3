---------------------------- MODULE RotationGate ----------------------------
(***************************************************************************)
(* The thread rotation gate of controller.py.  A rotate_session drops the  *)
(* tester's Codex thread and records itself PENDING; the first action      *)
(* after it judges it, by the thread it ran on and by its own verdict;     *)
(* shutdown() fails what is left over.  What is pending is kept in memory, *)
(* while the rows of action_log and the saved row outlive the process.     *)
(*                                                                         *)
(* One step is what happens between two awaits, at each of which a stop    *)
(* may cancel the action and the process may die.  A tester that did not   *)
(* use the event's MCP tool gives an infra_error, whatever it answered, so *)
(* that the gate's own test of the tool never decides.                     *)
(***************************************************************************)
EXTENDS Naturals, Sequences

CONSTANTS
  SuiteLength,   \* events in the scenario queue
  MaxActions,    \* how many actions a run counts before its duration is over
  MaxThreads,    \* how many threads Codex makes
  MaxLives       \* processes that work on the run: the first and its resumes

ASSUME RotationAssumption ==
  /\ SuiteLength \in Nat \ {0} /\ MaxActions \in Nat
  /\ MaxThreads \in Nat /\ MaxLives \in Nat \ {0}

Kinds    == {"action", "rotate_session", "restart_runtime"}
Ids      == 1..MaxActions      \* act_<run>_000001, ...: the action count names the row
NoThread == 0
Threads  == 0..MaxThreads
NoId     == 0
NoRow    == "no row"
Outcomes == {"infra_error", "pass", "anomaly", "no anomaly"}   \* the last: a FAIL of policy or infrastructure
Nothing  == [thread |-> NoThread, outcome |-> "infra_error", by |-> NoId]

VARIABLES
  pc,           \* where the process stands
  suite,        \* the events of the queue
  cursor,
  count,        \* _action_count
  thread,       \* tester.thread_id
  known,        \* how many threads Codex has made
  pendingOld,   \* _rotation_pending_old_thread
  pendingId,    \* _rotation_pending_action_id
  outcome,      \* the verdict on the action in hand
  ruling,       \* the gate's verdict, on its way to the row
  rows,         \* action_log: the verdict of each action
  saved,        \* the row of run_state
  life,         \* which process works on the run
  made,         \* per rotation whose row is written: the thread it dropped and
                \* the life that made it
  after,        \* and the first action Codex answered since
  overtaken     \* the rotations another rotation came upon while they were pending

pending == <<pendingOld, pendingId>>
history == <<made, after, overtaken>>
vars == <<pc, suite, cursor, count, thread, known, pending, outcome, ruling, rows,
          saved, life, history>>

AtAwait == {"rotated", "restarted", "asking", "updating", "recording", "recheck"}
Resting == {"paused", "waiting"}
Dead    == {"completed", "failed", "crashed"}
Places  == AtAwait \cup Resting \cup Dead \cup {"ready", "closing", "closingUpdate"}

NotMade == [old |-> NoThread, life |-> 0]

TypeOK ==
  /\ pc \in Places
  /\ suite \in [1..SuiteLength -> Kinds]
  /\ cursor \in 0..SuiteLength
  /\ count \in 0..MaxActions
  /\ thread \in Threads /\ known \in Threads
  /\ pendingOld \in Threads /\ pendingId \in Ids \cup {NoId}
  /\ outcome \in Outcomes
  /\ ruling \in {"PASS", "FAIL"}
  /\ rows \in [Ids -> {NoRow, "PENDING", "PASS", "FAIL"}]
  /\ saved \in [thread : Threads, count : 0..MaxActions, cursor : 0..SuiteLength]
  /\ life \in 1..MaxLives
  /\ made \in [Ids -> [old : Threads, life : 0..MaxLives]]
  /\ after \in [Ids -> [thread : Threads, outcome : Outcomes, by : Ids \cup {NoId}]]
  /\ overtaken \subseteq Ids

Init ==
  /\ pc = "ready"
  /\ suite \in [1..SuiteLength -> Kinds]
  /\ cursor = 0 /\ count = 0
  /\ thread = NoThread /\ known = 0
  /\ pendingOld = NoThread /\ pendingId = NoId
  /\ outcome = "pass" /\ ruling = "PASS"
  /\ rows = [i \in Ids |-> NoRow]
  /\ saved = [thread |-> NoThread, count |-> 0, cursor |-> 0]
  /\ life = 1
  /\ made = [i \in Ids |-> NotMade]
  /\ after = [i \in Ids |-> Nothing]
  /\ overtaken = {}

-----------------------------------------------------------------------------
(* The saved row and the rows of actions.                                  *)

\* _persist_state: every state change saves thread, count and cursor as they are.
Snapshot == [thread |-> thread, count |-> count, cursor |-> cursor]

Saves == saved' = Snapshot

InsertFails == rows[count] # NoRow      \* action_id is the key of action_log

LogsOutcome(verdict) == rows' = [rows EXCEPT ![count] = outcome]   \* variant: not PASS or FAIL

\* record_action.
Inserted(verdict) == rows' = [rows EXCEPT ![count] = verdict]

\* update_action_verdict on the row of the pending rotation.
Updated(verdict) ==
  rows' = IF pendingId # NoId /\ rows[pendingId] # NoRow
          THEN [rows EXCEPT ![pendingId] = verdict] ELSE rows

Rotations == {i \in Ids : made[i].life # 0}

KeptPending == UNCHANGED pending      \* variant: a ruling leaves the rotation pending

ClearPending == pendingOld' = NoThread /\ pendingId' = NoId

-----------------------------------------------------------------------------
(* _process_event.                                                         *)

\* The next event, from the start of the queue in a new epoch.
Upcoming == IF cursor = SuiteLength THEN 1 ELSE cursor + 1

NextEvent(kind) ==
  /\ pc = "ready" /\ count < MaxActions
  /\ suite[Upcoming] = kind
  /\ cursor' = Upcoming
  /\ count' = count + 1
  /\ UNCHANGED <<suite, known, outcome, ruling, rows, saved, life, made, after>>

\* rotate_thread(); what was pending before is forgotten.
Rotate ==
  /\ NextEvent("rotate_session")
  /\ thread' = NoThread
  /\ pendingOld' = thread /\ pendingId' = count'
  /\ overtaken' = IF pendingOld = NoThread THEN overtaken ELSE overtaken \cup {pendingId}
  /\ pc' = "rotated"

Restart ==
  /\ NextEvent("restart_runtime")
  /\ pc' = "restarted"
  /\ UNCHANGED <<thread, pending, overtaken>>

Ask ==
  /\ NextEvent("action")
  /\ pc' = "asking"
  /\ UNCHANGED <<thread, pending, overtaken>>

StepFrame == UNCHANGED <<suite, cursor, count, life>>

\* Only now is the rotation in the database, PENDING.
RecordRotation ==
  /\ pc = "rotated" /\ ~InsertFails
  /\ Inserted("PENDING")
  /\ made' = [made EXCEPT ![count] = [old |-> pendingOld, life |-> life]]
  /\ pc' = "ready"
  /\ UNCHANGED <<thread, known, pending, outcome, ruling, saved, after, overtaken>>
  /\ StepFrame

\* Services that are the same processes as before: a FAIL row, then an exception.
RecordRestart ==
  /\ pc = "restarted" /\ ~InsertFails
  /\ \/ Inserted("PASS") /\ pc' = "ready" /\ UNCHANGED saved
     \/ Inserted("FAIL") /\ pc' = "failed" /\ Saves
  /\ UNCHANGED <<thread, known, pending, outcome, ruling, made, after, overtaken>>
  /\ StepFrame

\* The thread Codex reports: the one it was given, a new one, or an older one.
\* It may report none, and then the thread stays as it is.
Reports(t) == t = thread \/ t \in 1..known \/ (t = known + 1 /\ t <= MaxThreads)

SameThreadWillDo(t, o) == pendingOld # NoThread /\ t # NoThread /\ o = "pass"   \* variant

GatePasses(t, o) ==
  /\ pendingOld # NoThread /\ t # NoThread /\ t # pendingOld
  /\ o = "pass"

KeptVerdict(t, o) == o      \* variant: the action keeps its own verdict

\* A gate that fails makes the action's own verdict a candidate anomaly.
GatedVerdict(t, o) == IF GatePasses(t, o) THEN o ELSE "anomaly"

\* Codex answered, a write was finalised, the judge has spoken; then the gate,
\* which an infra_error of the tester fails as it is.
Answered ==
  /\ pc = "asking"
  /\ \E t \in Threads, o \in Outcomes :
       /\ Reports(t)
       /\ thread' = t
       /\ known' = IF t > known THEN t ELSE known
       /\ after' = [i \in Ids |-> IF i \in Rotations /\ after[i] = Nothing
                                  THEN [thread |-> t, outcome |-> o, by |-> count]
                                  ELSE after[i]]
       /\ IF pendingOld = NoThread
          THEN pc' = "recording" /\ outcome' = o /\ UNCHANGED ruling
          ELSE /\ pc' = "updating"
               /\ ruling' = IF GatePasses(t, o) THEN "PASS" ELSE "FAIL"
               /\ outcome' = IF o = "infra_error" THEN o ELSE GatedVerdict(t, o)
  /\ UNCHANGED <<pending, rows, saved, made, overtaken>>
  /\ StepFrame

UpdateVerdict ==
  /\ pc = "updating"
  /\ Updated(ruling)
  /\ ClearPending
  /\ pc' = "recording"
  /\ UNCHANGED <<thread, known, outcome, ruling, saved, history>>
  /\ StepFrame

\* The action's row; an infra_error then waits for Codex, an anomaly is handled.
Record ==
  /\ pc = "recording" /\ ~InsertFails
  /\ Inserted(IF outcome = "pass" THEN "PASS" ELSE "FAIL")
  /\ \/ outcome \in {"pass", "no anomaly"} /\ pc' = "ready" /\ UNCHANGED saved
     \/ outcome = "infra_error" /\ pc' = "waiting" /\ Saves
     \/ outcome = "anomaly" /\ pc' = "recheck" /\ Saves
  /\ UNCHANGED <<thread, known, pending, outcome, ruling, made, after, overtaken>>
  /\ StepFrame

\* _handle_anomaly: its recheck runs on the tester's thread and meets no gate.
Recheck ==
  /\ pc = "recheck"
  /\ \E t \in Threads :
       Reports(t) /\ thread' = t /\ known' = IF t > known THEN t ELSE known
  /\ pc' = "ready"
  /\ saved' = [Snapshot EXCEPT !.thread = thread']
  /\ UNCHANGED <<pending, outcome, ruling, rows, history>>
  /\ StepFrame

-----------------------------------------------------------------------------
(* run_loop and shutdown.                                                  *)

RestFrame == UNCHANGED <<thread, known, pending, outcome, ruling, rows, history>>

Pause ==
  /\ pc = "ready"
  /\ pc' = "paused"
  /\ Saves
  /\ RestFrame /\ StepFrame

Continue ==
  /\ pc \in Resting
  /\ pc' = "ready"
  /\ Saves
  /\ RestFrame /\ StepFrame

\* A stop, or the end of the duration: STOPPING.
End ==
  /\ pc \in {"ready"} \cup Resting
  /\ pc' = "closing"
  /\ Saves
  /\ RestFrame /\ StepFrame

\* A stop cancels the action at its await.  SQLite may have done, or do yet,
\* what the action awaited; nothing after the await is done.
Cancel ==
  /\ pc \in AtAwait
  /\ pc' = "closing"
  /\ Saves
  /\ \/ UNCHANGED <<rows, made>>
     \/ /\ pc = "rotated" /\ ~InsertFails /\ Inserted("PENDING")
        /\ made' = [made EXCEPT ![count] = [old |-> pendingOld, life |-> life]]
     \/ pc = "updating" /\ Updated(ruling) /\ UNCHANGED made
     \/ /\ pc = "recording" /\ ~InsertFails /\ UNCHANGED made
        /\ Inserted(IF outcome = "pass" THEN "PASS" ELSE "FAIL")
  /\ UNCHANGED <<thread, known, pending, outcome, ruling, after, overtaken>>
  /\ StepFrame

ForgetsPending == pc' = "completed" /\ Saves      \* variant: no look at what is pending

\* shutdown() closes a rotation no action has judged; COMPLETED after that.
SettlesPending ==
  IF pendingOld # NoThread
  THEN pc' = "closingUpdate" /\ UNCHANGED saved
  ELSE pc' = "completed" /\ Saves

Shutdown ==
  /\ pc = "closing"
  /\ SettlesPending
  /\ RestFrame /\ StepFrame

FailPending ==
  /\ pc = "closingUpdate"
  /\ Updated("FAIL")
  /\ ClearPending
  /\ pc' = "completed"
  /\ Saves
  /\ UNCHANGED <<thread, known, outcome, ruling, history>>
  /\ StepFrame

\* A row that exists, or anything else that raises: the handler of run_loop
\* saves FAILED, if it can, and looks at no pending rotation.
Fails ==
  /\ pc \in AtAwait \cup {"closing", "closingUpdate"}
  /\ pc' = "failed"
  /\ saved' \in {saved, Snapshot}
  /\ RestFrame /\ StepFrame

\* A resumed process comes upon the rows of the one before it.
Conflict == pc \in {"rotated", "restarted", "recording"} /\ InsertFails /\ Fails

\* The process dies; an update on its way may have reached the row.
Crash ==
  /\ pc \notin Dead
  /\ pc' = "crashed"
  /\ \/ UNCHANGED rows
     \/ pc = "updating" /\ Updated(ruling)
     \/ pc = "closingUpdate" /\ Updated("FAIL")
  /\ UNCHANGED <<thread, known, pending, outcome, ruling, saved, history>>
  /\ StepFrame

\* `run --resume`, which asks for no particular status: thread, count and cursor
\* of the saved row, and no rotation pending.
Resume ==
  /\ pc \in Dead /\ life < MaxLives
  /\ life' = life + 1
  /\ pc' = "ready"
  /\ thread' = saved.thread /\ count' = saved.count /\ cursor' = saved.cursor
  /\ ClearPending
  /\ UNCHANGED <<suite, known, outcome, ruling, rows, saved, history>>

Done == pc \in Dead /\ UNCHANGED vars

Action ==
  \/ Rotate \/ Restart \/ Ask \/ RecordRotation \/ RecordRestart \/ Answered
  \/ UpdateVerdict \/ Record \/ Recheck \/ Conflict

Closing == Shutdown \/ FailPending

Next ==
  Action \/ Closing \/ Pause \/ Continue \/ End \/ Cancel \/ Fails \/ Crash \/ Resume \/ Done

\* The loop takes one event after another until the duration is over, Codex and
\* SQLite answer; nobody need pause, stop, resume or fail.
Spec == Init /\ [][Next]_vars

FairSpec ==
  /\ Spec
  /\ WF_vars(Action \/ Closing)
  /\ WF_vars(count = MaxActions /\ End)

-----------------------------------------------------------------------------
(* What must hold.                                                         *)

\* A rotation's row is PASS only if the first action Codex answered after it ran
\* on a thread other than the one it dropped, and passed; this however many
\* rotations, restarts, pauses, failures and resumes lie in between.
PassIsEarned ==
  \A i \in Rotations : rows[i] = "PASS" =>
    /\ made[i].old # NoThread
    /\ after[i].thread \notin {NoThread, made[i].old}
    /\ after[i].outcome = "pass"

\* A verdict is not taken back: FAIL is final, and what passed is failed only by
\* the shutdown of a run that was stopped in the middle of recording it.
VerdictSettles ==
  [][\A i \in Rotations :
       /\ rows[i] = "FAIL" => rows'[i] = "FAIL"
       /\ rows[i] = "PASS" => rows'[i] = "PASS" \/ pc = "closingUpdate"]_vars

\* Of the rotations of its own life a run that completes leaves PENDING those
\* that had no thread to drop and those another rotation overtook, and no other.
CompletedMeansJudged ==
  pc = "completed" =>
    \A i \in Rotations : made[i].life = life =>
      (rows[i] = "PENDING" <=> made[i].old = NoThread \/ i \in overtaken)

\* In the life that made it a rotation gets the verdict of the action that judged
\* it.  A resumed life may do that action again, with another result, and it may
\* do the rotation again and be stopped before it finds the row there: shutdown
\* then fails a rotation that had passed.
JudgeAgrees ==
  \A i \in Rotations :
    LET by == after[i].by IN
      /\ made[i].life = life /\ made[i].old # NoThread
      /\ by # NoId /\ rows[by] # NoRow
      /\ rows[i] \in {"PASS", "FAIL"}
      => rows[by] = rows[i]

\* What is pending is settled: judged, failed at the end, or replaced by a
\* rotation that drops no thread; unless the run rests, failed or crashed.
PendingSettles ==
  (pendingOld # NoThread)
    ~> (pendingOld = NoThread \/ pc \in Resting \cup {"failed", "crashed"})
=============================================================================

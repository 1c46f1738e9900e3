-------------------------- MODULE RotationGateProofs --------------------------
(***************************************************************************)
(* Theorems about RotationGate for every suite, number of actions, threads *)
(* and resumes: what a verdict on a rotation is worth.                     *)
(***************************************************************************)
EXTENDS RotationGate, TLAPS

(***************************************************************************)
(* The inductive invariant.                                                *)
(***************************************************************************)

\* An action is on its way and has no row yet.
Unrecorded == {"rotated", "restarted", "asking", "updating", "recording"}

\* The process works, and no rotation of its own is unrecorded.
Steady == {"ready", "restarted", "asking", "updating", "recording", "recheck"} \cup Resting

\* The rotations of the process at work.
Own == {i \in Rotations : made[i].life = life}

\* The saved row lags behind, by the action in hand at least; what is pending is
\* an action of the count or before it.
Counted ==
  /\ saved.count <= count
  /\ pc \in Unrecorded => saved.count < count
  /\ pendingId <= count
  /\ pc = "rotated" => pendingId = count
  /\ pc \in Unrecorded \ {"rotated"} => pendingId < count

\* Above the saved count the rows have no gap: an action without a row is the
\* last of its process.
NoGaps ==
  /\ \A j, k \in Ids : saved.count < j /\ j < k /\ rows[k] # NoRow => rows[j] # NoRow
  /\ pc \in Unrecorded => \A j \in Ids : saved.count < j /\ j < count => rows[j] # NoRow
  /\ pc = "ready" => \A j \in Ids : saved.count < j /\ j <= count => rows[j] # NoRow

\* A rotation is made with its row, and judged only when it is made.
MadeRecorded ==
  /\ \A i \in Rotations : rows[i] # NoRow /\ made[i].life <= life
  /\ \A i \in Ids : after[i] # Nothing => i \in Rotations
  /\ \A i \in Ids : after[i].by = NoId => after[i] = Nothing
  /\ overtaken \subseteq Rotations

\* A process that has made a rotation is past the rows it was resumed before.
PastTheRows ==
  Own # {} => \A k \in Ids : rows[k] # NoRow => k <= count /\ (pc \in Unrecorded => k < count)

\* What is pending is the last rotation, and until Codex answers nobody has judged it.
PendingMade ==
  /\ pendingOld # NoThread => pendingId # NoId
  /\ pc \in Steady /\ pendingOld # NoThread =>
       /\ pendingId \in Own /\ rows[pendingId] = "PENDING"
       /\ pc # "updating" => after[pendingId] = Nothing
  /\ pendingId \in Own => made[pendingId].old = pendingOld /\ pendingId \notin overtaken
  /\ pc \in {"updating", "closingUpdate"} => pendingOld # NoThread
  /\ pc \in {"recording", "recheck", "waiting", "completed"} => pendingOld = NoThread

\* The rotations of the process that have no verdict.
Unjudged ==
  \A i \in Own :
    /\ rows[i] = "PENDING" => \/ made[i].old = NoThread \/ i \in overtaken
                              \/ pendingOld # NoThread /\ i = pendingId
    /\ made[i].old = NoThread \/ i \in overtaken => rows[i] = "PENDING"

\* The ruling on its way is what the answer earned, and the action's own verdict
\* goes along with it.
RulingEarned ==
  pc = "updating" =>
    /\ after[pendingId].by = count
    /\ ruling = "PASS" <=> outcome = "pass"
    /\ ruling = "PASS" => /\ after[pendingId].thread \notin {NoThread, pendingOld}
                          /\ after[pendingId].outcome = "pass"

\* The judge of a rotation of the process is an action of its own, after it.
JudgeComes ==
  \A i \in Own :
    /\ after[i].by <= count /\ (pc \in {"rotated", "restarted", "asking"} => after[i].by < count)
    /\ after[i].by # NoId => pendingId # after[i].by

\* Nobody gives a verdict before the judge does.
AwaitsJudge ==
  \A i \in Own :
    /\ pc \in Steady \cup {"rotated"} /\ after[i].by = NoId => rows[i] = "PENDING"
    /\ pc = "updating" /\ after[i].by = count => rows[i] = "PENDING"

\* The judge's row is written last, with the verdict it gave, or it is missing
\* when shutdown gives the verdict instead.
JudgeFollows ==
  \A i \in Own :
    /\ pc = "recording" /\ after[i].by = count /\ rows[i] # "PENDING" =>
         rows[i] = IF outcome = "pass" THEN "PASS" ELSE "FAIL"
    /\ /\ pc \in {"closing", "closingUpdate"} /\ pendingOld # NoThread
       /\ i = pendingId /\ after[i].by # NoId
       => rows[after[i].by] = NoRow

Tables == Counted /\ NoGaps /\ MadeRecorded /\ PastTheRows
Gate   == PendingMade /\ Unjudged /\ RulingEarned
Judges == JudgeComes /\ AwaitsJudge /\ JudgeFollows

IInv == TypeOK /\ Tables /\ Gate /\ Judges /\ PassIsEarned /\ JudgeAgrees

-----------------------------------------------------------------------------
(***************************************************************************)
(* Types.                                                                  *)
(***************************************************************************)

Saved == [thread : Threads, count : 0..MaxActions, cursor : 0..SuiteLength]

Verdicts == {NoRow, "PENDING", "PASS", "FAIL"}

\* What the leaves below need of the types.
LEMMA Numbers ==
  ASSUME TypeOK
  PROVE  /\ count \in Nat /\ saved.count \in Nat /\ pendingId \in Nat /\ life \in Nat
         /\ Ids \subseteq Nat /\ NoId \notin Ids
         /\ \A i \in Ids : made[i].life \in Nat /\ after[i].by \in Nat
         /\ \A i \in Ids : rows[i] \in Verdicts
         /\ Own \subseteq Rotations /\ Rotations \subseteq Ids
  BY RotationAssumption DEF TypeOK, Ids, NoId, Own, Rotations, Verdicts

LEMMA SnapshotType ==
  ASSUME TypeOK
  PROVE  Snapshot \in Saved /\ Snapshot.count = count
  BY DEF TypeOK, Snapshot, Saved

LEMMA MadeType ==
  ASSUME TypeOK
  PROVE  [old |-> pendingOld, life |-> life] \in [old : Threads, life : 0..MaxLives]
  BY RotationAssumption DEF TypeOK

\* An answer or a recheck reports a thread Codex has made.
LEMMA TypeStep == IInv /\ [Next]_vars => TypeOK'
  <1> SUFFICES ASSUME IInv, [Next]_vars PROVE TypeOK'
    OBVIOUS
  <1>0. TypeOK /\ (pendingOld # NoThread => pendingId # NoId)
    BY DEF IInv, Gate, PendingMade
  <1> USE RotationAssumption DEF NoId
  <1>1. /\ SuiteLength \in Nat /\ MaxActions \in Nat /\ MaxThreads \in Nat /\ MaxLives \in Nat
        /\ Snapshot \in Saved /\ saved \in Saved
    BY <1>0, SnapshotType DEF TypeOK, Saved
  <1>2. ASSUME NEW v \in Verdicts, Inserted(v) \/ Updated(v)
        PROVE  rows' \in [Ids -> Verdicts]
    BY <1>0, <1>2 DEF Inserted, Updated, TypeOK, Verdicts
  <1>3. ASSUME ClearPending PROVE pendingOld' \in Threads /\ pendingId' \in Ids \cup {NoId}
    BY <1>1, <1>3 DEF ClearPending, NoThread, Threads
  <1> USE DEF AtAwait, Resting, Dead, Places, pending, history, StepFrame, Saves, RestFrame
  <1>4. CASE Rotate \/ Restart \/ Ask
    <2>1. count' \in 0..MaxActions /\ count' \in Ids /\ cursor' \in 0..SuiteLength
      BY <1>0, <1>4 DEF Rotate, Restart, Ask, NextEvent, TypeOK, Ids, Upcoming
    <2>2. /\ thread' \in Threads /\ pendingOld' \in Threads
          /\ pendingId' \in Ids \cup {NoId} /\ overtaken' \subseteq Ids
          /\ pc' \in Places
      <3>1. CASE Rotate
        <4>1. pendingOld # NoThread => pendingId \in Ids
          BY <1>0 DEF TypeOK
        <4>2. overtaken' \subseteq Ids /\ pc' \in Places
          BY <1>0, <3>1, <4>1 DEF Rotate, TypeOK
        <4>3. thread' \in Threads /\ pendingOld' \in Threads /\ pendingId' \in Ids
          BY <1>0, <1>1, <2>1, <3>1 DEF Rotate, NoThread, Threads, TypeOK
        <4> QED
          BY <4>2, <4>3
      <3>2. CASE Restart \/ Ask
        BY <1>0, <3>2 DEF Restart, Ask, TypeOK
      <3> QED
        BY <1>4, <3>1, <3>2
    <2> QED
      BY <1>0, <1>4, <2>1, <2>2 DEF Rotate, Restart, Ask, NextEvent, TypeOK
  <1>5. CASE RecordRotation \/ RecordRestart \/ Record \/ UpdateVerdict \/ FailPending
    <2>1. rows' \in [Ids -> Verdicts] /\ saved' \in {saved, Snapshot}
      BY <1>0, <1>2, <1>5
        DEF RecordRotation, RecordRestart, Record, UpdateVerdict, FailPending, Verdicts, TypeOK
    <2>2. made' \in [Ids -> [old : Threads, life : 0..MaxLives]]
      BY <1>0, <1>5, MadeType
        DEF RecordRotation, RecordRestart, Record, UpdateVerdict, FailPending, TypeOK
    <2>3. pendingOld' \in Threads /\ pendingId' \in Ids \cup {NoId}
      BY <1>0, <1>3, <1>5
        DEF RecordRotation, RecordRestart, Record, UpdateVerdict, FailPending, TypeOK
    <2> QED
      BY <1>0, <1>1, <1>5, <2>1, <2>2, <2>3
        DEF RecordRotation, RecordRestart, Record, UpdateVerdict, FailPending, TypeOK,
            Saved, Verdicts
  <1>6. CASE Answered
    <2>1. PICK t \in Threads, o \in Outcomes :
            /\ thread' = t /\ known' \in {t, known}
            /\ after' = [i \in Ids |-> IF i \in Rotations /\ after[i] = Nothing
                                       THEN [thread |-> t, outcome |-> o, by |-> count]
                                       ELSE after[i]]
            /\ pc' \in {"recording", "updating"}
            /\ ruling' \in {ruling, "PASS", "FAIL"}
            /\ outcome' \in {o, "anomaly"}
      BY <1>6 DEF Answered, GatedVerdict
    <2>2. count \in Ids \cup {NoId}
      BY <1>0, <1>1 DEF TypeOK, Ids
    <2>3. after' \in [Ids -> [thread : Threads, outcome : Outcomes, by : Ids \cup {NoId}]]
      BY <1>0, <2>1, <2>2 DEF TypeOK
    <2> QED
      BY <1>0, <1>6, <2>1, <2>3 DEF Answered, TypeOK, Outcomes
  <1>7. CASE Recheck
    <2>1. PICK t \in Threads : thread' = t /\ known' \in {t, known}
      BY <1>7 DEF Recheck
    <2>2. saved' \in Saved
      BY <1>1, <1>7, <2>1 DEF Recheck, Saved
    <2> QED
      BY <1>0, <1>7, <2>1, <2>2 DEF Recheck, TypeOK, Saved
  <1>8. CASE Pause \/ Continue \/ End \/ Shutdown \/ Fails \/ Conflict \/ UNCHANGED vars
    <2>1. saved' \in Saved /\ pc' \in Places
      BY <1>0, <1>1, <1>8
        DEF Pause, Continue, End, Shutdown, Fails, Conflict, SettlesPending, TypeOK, vars
    <2> QED
      BY <1>0, <1>8, <2>1
        DEF Pause, Continue, End, Shutdown, Fails, Conflict, TypeOK, Saved, vars
  <1>9. CASE Cancel \/ Crash
    <2>1. rows' \in [Ids -> Verdicts]
      BY <1>0, <1>2, <1>9 DEF Cancel, Crash, Verdicts, TypeOK
    <2>2. made' \in [Ids -> [old : Threads, life : 0..MaxLives]]
      BY <1>0, <1>9, MadeType DEF Cancel, Crash, TypeOK
    <2> QED
      BY <1>0, <1>1, <1>9, <2>1, <2>2 DEF Cancel, Crash, TypeOK, Saved, Verdicts
  <1>10. CASE Resume
    BY <1>0, <1>1, <1>3, <1>10 DEF Resume, TypeOK, Saved
  <1> QED
    BY <1>4, <1>5, <1>6, <1>7, <1>8, <1>9, <1>10 DEF Next, Action, Closing, Done

-----------------------------------------------------------------------------
(***************************************************************************)
(* The invariant is inductive.                                             *)
(***************************************************************************)

LEMMA InitInv == Init => IInv
  <1> SUFFICES ASSUME Init PROVE IInv
    OBVIOUS
  <1> USE RotationAssumption DEF Init, NoId, NoThread, NotMade, Nothing
  <1>1. TypeOK
    BY DEF TypeOK, Places, Threads, Outcomes
  <1>2. Rotations = {} /\ Own = {}
    BY DEF Rotations, Own
  <1>3. Tables
    BY <1>1, <1>2, Numbers
      DEF Tables, Counted, NoGaps, MadeRecorded, PastTheRows, Unrecorded
  <1>4. Gate /\ Judges
    BY <1>1, <1>2
      DEF Gate, PendingMade, Unjudged, RulingEarned, Steady,
          Judges, JudgeComes, AwaitsJudge, JudgeFollows
  <1>5. PassIsEarned /\ JudgeAgrees
    BY <1>2 DEF PassIsEarned, JudgeAgrees
  <1> QED
    BY <1>1, <1>3, <1>4, <1>5 DEF IInv

\* A step that leaves the rows and what is pending alone.
Quiet ==
  /\ UNCHANGED <<count, life, rows, made, after, overtaken, pendingOld, pendingId,
                 ruling, outcome>>
  /\ \/ pc' = pc /\ saved' = saved
     \/ pc' \in {"failed", "crashed"} /\ saved'.count \in {saved.count, count}
     \/ /\ pc \in {"ready", "recheck"} \cup Resting /\ pc' \in {"ready", "paused"}
        /\ saved'.count = count
     \/ /\ pc \in {"ready"} \cup AtAwait \cup Resting /\ pc' = "closing"
        /\ saved'.count = count
     \/ pc = "closing" /\ pendingOld # NoThread /\ pc' = "closingUpdate" /\ saved' = saved
     \/ pc = "closing" /\ pendingOld = NoThread /\ pc' = "completed" /\ saved'.count = count

LEMMA QuietInv ==
  ASSUME IInv, TypeOK', Quiet
  PROVE  IInv'
  <1> USE DEF IInv, Tables, Gate, Judges
  <1>1. /\ Rotations' = Rotations /\ Own' = Own
        /\ UNCHANGED <<count, life, rows, made, after, overtaken, pendingOld, pendingId,
                       ruling, outcome>>
    BY DEF Quiet, Rotations, Own
  <1>2. /\ saved'.count \in {saved.count, count}
        /\ pc' \in Unrecorded \/ pc' = "rotated" => pc' = pc /\ saved' = saved
        /\ pc' = "ready" => \/ pc = "ready" /\ saved' = saved
                            \/ saved'.count = count
    BY DEF Quiet, Unrecorded, Resting
  <1>3. Counted'
    BY <1>1, <1>2, Numbers DEF Counted, Unrecorded
  <1>4. NoGaps'
    BY <1>1, <1>2, Numbers DEF NoGaps, Counted
  <1>5. MadeRecorded'
    BY <1>1 DEF MadeRecorded
  <1>6. PastTheRows'
    BY <1>1, <1>2 DEF PastTheRows
  <1>7. PendingMade'
    BY <1>1 DEF PendingMade, Quiet, Steady, Resting
  <1>8. Unjudged'
    BY <1>1 DEF Unjudged
  <1>9. RulingEarned'
    BY <1>1 DEF RulingEarned, Quiet
  <1>10. Judges'
    <2> SUFFICES ASSUME NEW i \in Own
                 PROVE  /\ after[i].by <= count
                        /\ pc' \in {"rotated", "restarted", "asking"} => after[i].by < count
                        /\ after[i].by # NoId => pendingId # after[i].by
                        /\ pc' \in Steady \cup {"rotated"} /\ after[i].by = NoId =>
                             rows[i] = "PENDING"
                        /\ pc' = "updating" /\ after[i].by = count => rows[i] = "PENDING"
                        /\ pc' = "recording" /\ after[i].by = count /\ rows[i] # "PENDING" =>
                             rows[i] = IF outcome = "pass" THEN "PASS" ELSE "FAIL"
                        /\ /\ pc' \in {"closing", "closingUpdate"} /\ pendingOld # NoThread
                           /\ i = pendingId /\ after[i].by # NoId
                           => rows[after[i].by] = NoRow
      BY <1>1 DEF JudgeComes, AwaitsJudge, JudgeFollows
    <2>1. CASE pc' # "closing"
      BY <2>1 DEF JudgeComes, AwaitsJudge, JudgeFollows, Quiet, Steady, Resting
    <2>2. CASE pc' = "closing" /\ pc = "closing"
      BY <2>2 DEF JudgeComes, AwaitsJudge, JudgeFollows, Steady, Resting
    <2>3. CASE pc' = "closing" /\ pc \in {"ready"} \cup AtAwait \cup Resting
      <3>1. ASSUME pendingOld # NoThread, i = pendingId, after[i].by # NoId
            PROVE  rows[after[i].by] = NoRow
        <4>1. CASE pc = "updating"
          <5>1. after[i].by = count /\ count \in Ids
            BY <3>1, <4>1, Numbers DEF RulingEarned, TypeOK
          <5> QED
            BY <4>1, <5>1, Numbers DEF PastTheRows, Unrecorded
        <4>2. CASE pc = "rotated"
          BY <3>1, <4>2, Numbers DEF PastTheRows, MadeRecorded, Counted, Unrecorded
        <4> QED
          BY <2>3, <3>1, <4>1, <4>2 DEF PendingMade, Steady, Resting, AtAwait, Nothing
      <3> QED
        BY <2>3, <3>1 DEF JudgeComes, AwaitsJudge, JudgeFollows, Steady, Resting
    <2> QED
      BY <2>1, <2>2, <2>3 DEF Quiet
  <1>11. PassIsEarned' /\ JudgeAgrees'
    BY <1>1 DEF PassIsEarned, JudgeAgrees
  <1> QED
    BY <1>3, <1>4, <1>5, <1>6, <1>7, <1>8, <1>9, <1>10, <1>11

\* The next event of the queue is taken: no rotation of the process is at the new count.
LEMMA EventInv ==
  ASSUME IInv, TypeOK', Rotate \/ Restart \/ Ask
  PROVE  IInv'
  <1> USE DEF IInv, Tables, Gate, Judges
  <1>1. /\ pc = "ready" /\ count' = count + 1 /\ count' \in Ids
        /\ UNCHANGED <<life, rows, saved, made, after, ruling, outcome>>
        /\ Rotations' = Rotations /\ Own' = Own
    BY RotationAssumption
      DEF Rotate, Restart, Ask, NextEvent, Rotations, Own, TypeOK, Ids
  <1>2. \/ /\ pc' \in {"restarted", "asking"}
           /\ UNCHANGED <<pendingOld, pendingId, overtaken>>
        \/ /\ pc' = "rotated" /\ pendingId' = count'
           /\ overtaken' = IF pendingOld = NoThread THEN overtaken
                                                    ELSE overtaken \cup {pendingId}
    BY DEF Rotate, Restart, Ask, pending
  <1>3. \A i \in Own : i <= count /\ rows[i] # NoRow
    BY Numbers DEF MadeRecorded, PastTheRows
  <1>4. pendingOld # NoThread => pendingId \in Own /\ rows[pendingId] = "PENDING"
    BY <1>1 DEF PendingMade, Steady
  <1>5. Counted'
    BY <1>1, <1>2, Numbers DEF Counted, Unrecorded
  <1>6. NoGaps'
    BY <1>1, <1>2, Numbers DEF NoGaps, Counted, Unrecorded
  <1>7. MadeRecorded'
    BY <1>1, <1>2, <1>4, Numbers DEF MadeRecorded
  <1>8. PastTheRows'
    BY <1>1, Numbers DEF PastTheRows, Unrecorded
  <1>9. PendingMade'
    BY <1>1, <1>2, <1>3, <1>4, Numbers
      DEF PendingMade, Steady, Resting, Counted, Unrecorded
  <1>10. Unjudged'
    BY <1>1, <1>2, <1>4 DEF Unjudged
  <1>11. RulingEarned'
    BY <1>2 DEF RulingEarned
  <1>12. Judges'
    <2>1. JudgeComes'
      <3> SUFFICES ASSUME NEW i \in Own
                   PROVE  /\ after[i].by <= count' /\ after[i].by < count'
                          /\ after[i].by # NoId => pendingId' # after[i].by
        BY <1>1, <1>2 DEF JudgeComes
      <3>1. /\ after[i].by \in Nat /\ after[i].by <= count
            /\ after[i].by # NoId => pendingId # after[i].by
        BY Numbers DEF JudgeComes
      <3> QED
        BY <1>1, <1>2, <3>1, Numbers
    <2>2. AwaitsJudge' /\ JudgeFollows'
      BY <1>1, <1>2 DEF AwaitsJudge, JudgeFollows, Steady
    <2> QED
      BY <2>1, <2>2
  <1>13. PassIsEarned' /\ JudgeAgrees'
    BY <1>1 DEF PassIsEarned, JudgeAgrees
  <1> QED
    BY <1>5, <1>6, <1>7, <1>8, <1>9, <1>10, <1>11, <1>12, <1>13

\* A row is inserted, for a rotation or not.
Inserts(v) ==
  /\ pc \in {"rotated", "restarted", "recording"} /\ rows[count] = NoRow
  /\ rows' = [rows EXCEPT ![count] = v]
  /\ UNCHANGED <<count, life, after, overtaken, pendingOld, pendingId, ruling, outcome>>
  /\ \/ pc' = "ready" /\ saved' = saved
     \/ pc' \in {"closing", "failed"} /\ saved'.count = count
     \/ pc = "recording" /\ pc' \in {"waiting", "recheck"} /\ saved'.count = count
  /\ \/ /\ pc = "rotated" /\ v = "PENDING"
        /\ made' = [made EXCEPT ![count] = [old |-> pendingOld, life |-> life]]
     \/ /\ pc # "rotated" /\ v \in {"PASS", "FAIL"} /\ made' = made
        /\ pc = "recording" => v = IF outcome = "pass" THEN "PASS" ELSE "FAIL"

LEMMA InsertsInv ==
  ASSUME IInv, TypeOK', NEW v, Inserts(v)
  PROVE  IInv'
  <1> USE DEF IInv, Tables, Gate, Judges
  <1>1. /\ count \in Ids /\ rows[count] = NoRow /\ rows'[count] = v
        /\ \A i \in Ids : i # count => rows'[i] = rows[i]
        /\ UNCHANGED <<count, life, after, overtaken, pendingOld, pendingId, ruling, outcome>>
        /\ v \in {"PENDING", "PASS", "FAIL"} /\ v # NoRow
        /\ saved'.count \in {saved.count, count} /\ saved.count < count
    <2>1. saved.count < count /\ count \in Ids
      BY Numbers DEF Inserts, Counted, Unrecorded, TypeOK, Ids
    <2> QED
      BY <2>1 DEF Inserts, TypeOK, NoRow
  <1>2. /\ Rotations \subseteq Rotations' /\ Own \subseteq Own' /\ count \notin Rotations
        /\ \A i \in Rotations : made'[i] = made[i] /\ i # count /\ rows'[i] = rows[i]
        /\ \/ /\ pc = "rotated" /\ v = "PENDING"
              /\ Rotations' = Rotations \cup {count} /\ Own' = Own \cup {count}
              /\ made'[count].old = pendingOld /\ made'[count].life = life
              /\ pendingId = count /\ pc' \in {"ready", "closing", "failed"}
           \/ pc # "rotated" /\ Rotations' = Rotations /\ Own' = Own
    <2>1. count \notin Rotations
      BY <1>1 DEF MadeRecorded
    <2>2. \A i \in Rotations : rows'[i] = rows[i]
      BY <1>1, <2>1, Numbers
    <2>3. CASE pc = "rotated"
      <3>1. /\ \A i \in Ids : i # count => made'[i] = made[i]
            /\ made'[count].old = pendingOld /\ made'[count].life = life
            /\ v = "PENDING"
        BY <1>1, <2>3 DEF Inserts, TypeOK
      <3>2. Rotations' = Rotations \cup {count}
        <4>1. life # 0
          BY RotationAssumption DEF TypeOK
        <4> QED
          BY <1>1, <3>1, <4>1 DEF Rotations
      <3>3. Own' = Own \cup {count}
        BY <1>1, <2>1, <3>1, <3>2 DEF Own, Rotations
      <3> QED
        BY <1>1, <2>1, <2>2, <2>3, <3>1, <3>2, <3>3, Numbers DEF Counted, Inserts
    <2>4. CASE pc # "rotated"
      <3>1. made' = made /\ life' = life
        BY <1>1, <2>4 DEF Inserts
      <3> QED
        BY <2>1, <2>2, <2>4, <3>1, Numbers DEF Rotations, Own
    <2> QED
      BY <2>3, <2>4
  <1>3. pc \in Unrecorded /\ pc' \notin Unrecorded
    BY DEF Inserts, Unrecorded
  <1>4. Counted'
    BY <1>1, <1>3, Numbers DEF Counted, Inserts, Unrecorded
  <1>5. NoGaps'
    BY <1>1, <1>3, Numbers DEF NoGaps, Inserts, Counted
  <1>6. MadeRecorded'
    BY <1>1, <1>2, Numbers DEF MadeRecorded
  <1>7. PastTheRows'
    BY <1>1, <1>2, <1>3, Numbers DEF PastTheRows, NoGaps
  <1>8. PendingMade'
    BY <1>1, <1>2, Numbers DEF PendingMade, Inserts, Steady, Resting, MadeRecorded
  <1>9. Unjudged'
    BY <1>1, <1>2, Numbers DEF Unjudged, MadeRecorded
  <1>10. RulingEarned'
    BY DEF RulingEarned, Inserts
  <1>11. after[count].by = NoId
    BY <1>1, <1>2 DEF MadeRecorded, Nothing
  <1>12. Judges'
    <2>1. JudgeComes'
      <3>1. \A i \in Own : after[i].by <= count /\ (after[i].by # NoId => pendingId # after[i].by)
        BY DEF JudgeComes
      <3>2. after[count].by <= count
        BY <1>11, Numbers DEF NoId
      <3> QED
        BY <1>1, <1>2, <1>3, <1>11, <3>1, <3>2 DEF JudgeComes, Unrecorded
    <2>2. AwaitsJudge'
      <3>1. pc' \in Steady => pc \in Steady \/ pc = "rotated"
        BY DEF Inserts, Steady
      <3>2. pc' # "updating" /\ pc' # "rotated"
        BY DEF Inserts
      <3> QED
        <4>1. ASSUME NEW i \in Own, pc' \in Steady, after[i].by = NoId
              PROVE  rows'[i] = "PENDING"
          <5>1. i \in Rotations /\ rows'[i] = rows[i]
            BY <1>2, Numbers
          <5> QED
            BY <3>1, <4>1, <5>1 DEF AwaitsJudge
        <4> QED
          BY <1>1, <1>2, <3>2, <4>1 DEF AwaitsJudge
    <2>3. JudgeFollows'
      <3>1. pc' # "recording" /\ pc' # "closingUpdate"
        BY DEF Inserts
      <3>2. ASSUME NEW i \in Own', pendingOld # NoThread, i = pendingId, after[i].by # NoId
            PROVE  FALSE
        <4>1. i # count \/ after[i].by = NoId
          BY <1>11
        <4>2. pc # "recording"
          BY <3>2 DEF PendingMade
        <4>3. CASE pc = "rotated"
          BY <1>2, <1>11, <3>2, <4>3
        <4>4. CASE pc = "restarted"
          BY <3>2, <4>4 DEF PendingMade, Steady, Nothing
        <4> QED
          BY <4>2, <4>3, <4>4 DEF Inserts
      <3> QED
        BY <1>1, <3>1, <3>2 DEF JudgeFollows
    <2> QED
      BY <2>1, <2>2, <2>3
  <1>13. PassIsEarned'
    BY <1>1, <1>2 DEF PassIsEarned
  <1>14. JudgeAgrees'
    <2> SUFFICES ASSUME NEW i \in Own', after[i].by # NoId,
                        rows'[after[i].by] # NoRow, rows'[i] \in {"PASS", "FAIL"},
                        made'[i].old # NoThread
                 PROVE  rows'[after[i].by] = rows'[i]
      BY <1>1 DEF JudgeAgrees, Own
    <2>1. i \in Own /\ i \in Rotations
      BY <1>2, <1>11, Numbers
    <2>2. after[i].by \in Ids /\ rows'[i] = rows[i] /\ made'[i] = made[i]
      BY <1>2, <2>1, Numbers DEF TypeOK
    <2>3. CASE after[i].by = count
      <3>1. pc = "recording"
        <4>1. ~(after[i].by < count)
          BY <2>3, Numbers
        <4> QED
          BY <2>1, <4>1 DEF JudgeComes, Inserts
      <3> QED
        BY <1>1, <2>1, <2>2, <2>3, <3>1 DEF JudgeFollows, Inserts
    <2>4. CASE after[i].by # count
      BY <1>1, <2>1, <2>2, <2>4 DEF JudgeAgrees, Own
    <2> QED
      BY <2>3, <2>4
  <1> QED
    BY <1>4, <1>5, <1>6, <1>7, <1>8, <1>9, <1>10, <1>12, <1>13, <1>14

\* The row of the pending rotation is updated, by the gate or by shutdown.
Updates ==
  /\ pendingOld # NoThread
  /\ UNCHANGED <<count, life, made, after, overtaken, ruling, outcome>>
  /\ \/ pc = "updating" /\ Updated(ruling)
     \/ pc = "closingUpdate" /\ Updated("FAIL")
  /\ \/ /\ pendingOld' = NoThread /\ pendingId' = NoId
        /\ \/ pc = "updating" /\ pc' = "recording" /\ saved' = saved
           \/ pc = "closingUpdate" /\ pc' = "completed" /\ saved'.count = count
     \/ /\ UNCHANGED <<pendingOld, pendingId>>
        /\ \/ pc = "updating" /\ pc' = "closing" /\ saved'.count = count
           \/ pc' = "crashed" /\ saved' = saved

LEMMA UpdatesInv ==
  ASSUME IInv, TypeOK', Updates
  PROVE  IInv'
  <1> USE DEF IInv, Tables, Gate, Judges
  <1>1. /\ Rotations' = Rotations /\ Own' = Own /\ pendingId \in Ids
        /\ UNCHANGED <<count, life, made, after, overtaken, ruling, outcome>>
        /\ saved'.count \in {saved.count, count}
    BY DEF Updates, Rotations, Own, TypeOK, PendingMade
  <1>2. /\ \A i \in Ids : rows'[i] = NoRow <=> rows[i] = NoRow
        /\ \A i \in Ids : i # pendingId => rows'[i] = rows[i]
        /\ pendingId \in Own /\ pc = "updating" => rows'[pendingId] = ruling
        /\ pendingId \in Own /\ pc = "closingUpdate" => rows'[pendingId] = "FAIL"
        /\ \/ rows'[pendingId] \in {NoRow, "FAIL"}
           \/ pc = "updating" /\ rows'[pendingId] = ruling
    <2> DEFINE v == IF pc = "updating" THEN ruling ELSE "FAIL"
    <2>1. v \in {"PASS", "FAIL"} /\ v # NoRow
      BY DEF TypeOK, NoRow
    <2>2. pendingId # NoId
      BY <1>1, Numbers
    <2>3. Updated(v) /\ pc \in {"updating", "closingUpdate"}
      BY DEF Updates
    <2>4. rows' = IF rows[pendingId] # NoRow THEN [rows EXCEPT ![pendingId] = v] ELSE rows
      BY <2>2, <2>3 DEF Updated
    <2>5. pendingId \in Own => rows[pendingId] # NoRow
      BY Numbers DEF MadeRecorded
    <2>6. /\ \A i \in Ids : i # pendingId => rows'[i] = rows[i]
          /\ rows'[pendingId] = IF rows[pendingId] # NoRow THEN v ELSE NoRow
      BY <1>1, <2>4 DEF TypeOK
    <2>7. \A i \in Ids : rows'[i] = NoRow <=> rows[i] = NoRow
      BY <2>1, <2>6
    <2>8. /\ pc = "updating" => v = ruling
          /\ pc = "closingUpdate" => v = "FAIL"
      OBVIOUS
    <2>9. rows'[pendingId] \in {v, NoRow} /\ (pendingId \in Own => rows'[pendingId] = v)
      BY <2>5, <2>6
    <2> HIDE DEF v
    <2>10. pc \in {"updating", "closingUpdate"}
      BY <2>3
    <2> QED
      BY <2>6, <2>7, <2>8, <2>9, <2>10
  <1>3. Counted'
    BY <1>1, Numbers DEF Counted, Updates, Unrecorded, NoId
  <1>4. NoGaps'
    BY <1>1, <1>2, Numbers DEF NoGaps, Updates, Counted, Unrecorded
  <1>5. MadeRecorded'
    BY <1>1, <1>2, Numbers DEF MadeRecorded
  <1>6. PastTheRows'
    BY <1>1, <1>2, Numbers DEF PastTheRows, Updates, Unrecorded
  <1>7. PendingMade'
    BY <1>1, Numbers DEF PendingMade, Updates, Steady, Resting
  <1>8. Unjudged'
    BY <1>1, <1>2, Numbers DEF Unjudged, Updates, PendingMade, TypeOK
  <1>9. RulingEarned'
    BY DEF RulingEarned, Updates
  <1>10. pc = "updating" => /\ pendingId \in Own /\ after[pendingId].by = count
                            /\ count \in Ids /\ rows[count] = NoRow
    <2> SUFFICES ASSUME pc = "updating"
                 PROVE  /\ pendingId \in Own /\ after[pendingId].by = count
                        /\ count \in Ids /\ rows[count] = NoRow
      OBVIOUS
    <2>1. pendingId \in Own /\ after[pendingId].by = count
      BY DEF PendingMade, RulingEarned, Steady
    <2>2. count \in Ids
      BY Numbers DEF Counted, Unrecorded, TypeOK, Ids
    <2>3. rows[count] = NoRow
      BY <2>1, <2>2, Numbers DEF PastTheRows, Unrecorded
    <2> QED
      BY <2>1, <2>2, <2>3
  <1>11. Judges'
    <2>1. JudgeComes'
      BY <1>1, Numbers DEF JudgeComes, Updates
    <2>2. AwaitsJudge'
      <3> SUFFICES ASSUME NEW i \in Own, pc' = "recording", after[i].by = NoId
                   PROVE  rows'[i] = "PENDING"
        BY <1>1 DEF AwaitsJudge, Updates, Steady, Resting
      <3>1. pc = "updating" /\ rows[i] = "PENDING" /\ i # pendingId
        BY <1>10, Numbers DEF Updates, AwaitsJudge, Steady
      <3> QED
        BY <1>2, <3>1, Numbers
    <2>3. JudgeFollows'
      <3> SUFFICES ASSUME NEW i \in Own
                   PROVE  /\ pc' = "recording" /\ after[i].by = count /\ rows'[i] # "PENDING" =>
                               rows'[i] = IF outcome = "pass" THEN "PASS" ELSE "FAIL"
                          /\ pc' = "closing" /\ i = pendingId =>
                               rows'[after[i].by] = NoRow
        BY <1>1 DEF JudgeFollows, Updates
      <3>1. pc' = "recording" /\ after[i].by = count /\ rows'[i] # "PENDING" =>
              rows'[i] = IF outcome = "pass" THEN "PASS" ELSE "FAIL"
        <4>1. pc' = "recording" => pc = "updating"
          BY DEF Updates
        <4>2. pc = "updating" => rows'[pendingId] = IF outcome = "pass" THEN "PASS" ELSE "FAIL"
          BY <1>2, <1>10 DEF RulingEarned, TypeOK
        <4>3. pc = "updating" /\ after[i].by = count /\ i # pendingId => rows'[i] = "PENDING"
          BY <1>2, Numbers DEF AwaitsJudge
        <4> QED
          BY <4>1, <4>2, <4>3
      <3>2. pc' = "closing" /\ i = pendingId => rows'[after[i].by] = NoRow
        BY <1>2, <1>10 DEF Updates
      <3> QED
        BY <3>1, <3>2
    <2> QED
      BY <2>1, <2>2, <2>3
  <1>12. PassIsEarned'
    BY <1>1, <1>2, <1>10, Numbers
      DEF PassIsEarned, RulingEarned, PendingMade, Updates, NoRow
  <1>13. JudgeAgrees'
    <2> SUFFICES ASSUME NEW i \in Own, made[i].old # NoThread, after[i].by # NoId,
                        rows'[after[i].by] # NoRow, rows'[i] \in {"PASS", "FAIL"}
                 PROVE  rows'[after[i].by] = rows'[i]
      BY <1>1 DEF JudgeAgrees, Own
    <2>1. after[i].by \in Ids /\ pendingId # after[i].by /\ i \in Ids
      BY Numbers DEF JudgeComes, TypeOK
    <2>2. rows'[after[i].by] = rows[after[i].by] /\ rows[after[i].by] # NoRow
      BY <1>2, <2>1
    <2>3. i # pendingId
      <3>1. CASE pc = "updating"
        BY <1>10, <2>2, <3>1
      <3>2. CASE pc = "closingUpdate"
        BY <2>2, <3>2 DEF JudgeFollows, Updates
      <3> QED
        BY <3>1, <3>2 DEF Updates
    <2> QED
      BY <1>2, <2>1, <2>2, <2>3 DEF JudgeAgrees, Own
  <1> QED
    BY <1>3, <1>4, <1>5, <1>6, <1>7, <1>8, <1>9, <1>11, <1>12, <1>13

\* Codex has answered, and the gate is asked.
LEMMA AnsweredInv ==
  ASSUME IInv, TypeOK', Answered
  PROVE  IInv'
  <1> USE DEF IInv, Tables, Gate, Judges
  <1>1. PICK t \in Threads, o \in Outcomes :
          /\ after' = [i \in Ids |-> IF i \in Rotations /\ after[i] = Nothing
                                     THEN [thread |-> t, outcome |-> o, by |-> count]
                                     ELSE after[i]]
          /\ \/ pendingOld = NoThread /\ pc' = "recording" /\ outcome' = o /\ ruling' = ruling
             \/ /\ pendingOld # NoThread /\ pc' = "updating"
                /\ ruling' = IF GatePasses(t, o) THEN "PASS" ELSE "FAIL"
                /\ outcome' = IF o = "infra_error" THEN o ELSE GatedVerdict(t, o)
    BY DEF Answered
  <1>2. /\ pc = "asking" /\ pc' \in {"recording", "updating"}
        /\ UNCHANGED <<count, life, rows, saved, made, overtaken, pendingOld, pendingId>>
        /\ Rotations' = Rotations /\ Own' = Own
    BY <1>1 DEF Answered, StepFrame, pending, Rotations, Own
  <1>3. count \in Ids /\ pendingId < count /\ count # NoId
    BY <1>2, Numbers DEF Counted, Unrecorded, TypeOK, Ids, NoId
  <1>4. \A i \in Ids :
          \/ /\ i \in Rotations /\ after[i] = Nothing /\ after[i].by = NoId
             /\ after'[i].by = count /\ after'[i].thread = t /\ after'[i].outcome = o
          \/ /\ after'[i] = after[i] /\ (i \in Rotations => after[i].by # NoId)
    BY <1>1 DEF MadeRecorded, Nothing
  <1>5. \A i \in Own : i \in Rotations /\ i \in Ids /\ rows[i] \in Verdicts
    BY Numbers
  <1>6. Own # {} => rows[count] = NoRow
    BY <1>2, <1>3, Numbers DEF PastTheRows, Unrecorded
  <1>7. Counted'
    BY <1>2 DEF Counted, Unrecorded
  <1>8. NoGaps'
    BY <1>2 DEF NoGaps, Unrecorded
  <1>9. MadeRecorded'
    <2>1. \A i \in Ids : after'[i] # Nothing => i \in Rotations
      BY <1>4 DEF MadeRecorded
    <2>2. \A i \in Ids : after'[i].by = NoId => after'[i] = Nothing
      BY <1>3, <1>4 DEF MadeRecorded
    <2> QED
      BY <1>2, <2>1, <2>2 DEF MadeRecorded
  <1>10. PastTheRows'
    BY <1>2 DEF PastTheRows, Unrecorded
  <1>11. PendingMade'
    BY <1>1, <1>2 DEF PendingMade, Steady
  <1>12. Unjudged'
    BY <1>2 DEF Unjudged
  <1>13. pendingOld # NoThread => /\ after'[pendingId].by = count
                                  /\ after'[pendingId].thread = t
                                  /\ after'[pendingId].outcome = o
    <2> SUFFICES ASSUME pendingOld # NoThread
                 PROVE  /\ after'[pendingId].by = count
                        /\ after'[pendingId].thread = t
                        /\ after'[pendingId].outcome = o
      OBVIOUS
    <2>1. pendingId \in Own /\ after[pendingId] = Nothing
      BY <1>2 DEF PendingMade, Steady
    <2>2. after[pendingId].by = NoId
      BY <2>1 DEF Nothing
    <2> QED
      BY <1>4, <1>5, <2>1, <2>2
  <1>14. RulingEarned'
    BY <1>1, <1>2, <1>13 DEF RulingEarned, GatePasses, GatedVerdict
  <1>15. JudgeComes'
    <2> SUFFICES ASSUME NEW i \in Own
                 PROVE  after'[i].by <= count /\ pendingId # after'[i].by
      BY <1>2 DEF JudgeComes
    <2>1. count <= count /\ pendingId # count
      BY <1>3, Numbers
    <2>2. after'[i].by = count \/ (after'[i].by = after[i].by /\ after[i].by # NoId)
      BY <1>4, <1>5
    <2>3. after[i].by <= count /\ (after[i].by # NoId => pendingId # after[i].by)
      BY DEF JudgeComes
    <2> QED
      BY <2>1, <2>2, <2>3
  <1>16. \A i \in Own : /\ after'[i].by # NoId
                        /\ after'[i].by = count => rows[i] = "PENDING"
    <2> SUFFICES ASSUME NEW i \in Own
                 PROVE  /\ after'[i].by # NoId
                        /\ after'[i].by = count => rows[i] = "PENDING"
      OBVIOUS
    <2>1. after[i].by # count
      BY <1>2, <1>5, Numbers DEF JudgeComes
    <2>2. after[i].by = NoId => rows[i] = "PENDING"
      BY <1>2 DEF AwaitsJudge, Steady
    <2> QED
      BY <1>3, <1>4, <1>5, <2>1, <2>2
  <1>17. AwaitsJudge' /\ JudgeFollows'
    BY <1>2, <1>16 DEF AwaitsJudge, JudgeFollows
  <1>18. PassIsEarned'
    <2> SUFFICES ASSUME NEW i \in Rotations, rows[i] = "PASS"
                 PROVE  after'[i] = after[i]
      BY <1>2 DEF PassIsEarned
    <2>1. after[i] # Nothing
      BY DEF PassIsEarned, Nothing
    <2> QED
      BY <1>4, <2>1, Numbers
  <1>19. JudgeAgrees'
    <2> SUFFICES ASSUME NEW i \in Own, made[i].old # NoThread, rows[after'[i].by] # NoRow,
                        rows[i] \in {"PASS", "FAIL"}
                 PROVE  rows[after'[i].by] = rows[i]
      BY <1>2 DEF JudgeAgrees, Own
    <2>1. rows[count] = NoRow /\ after'[i].by # count
      BY <1>6
    <2>2. after'[i] = after[i] /\ after[i].by # NoId
      BY <1>4, <1>5, <2>1
    <2> QED
      BY <2>2 DEF JudgeAgrees, Own
  <1> QED
    BY <1>7, <1>8, <1>9, <1>10, <1>11, <1>12, <1>14, <1>15, <1>17, <1>18, <1>19

\* A resumed process has made no rotation, and its count is the saved one.
LEMMA ResumeInv ==
  ASSUME IInv, TypeOK', Resume
  PROVE  IInv'
  <1> USE DEF IInv, Tables, Gate, Judges
  <1>1. /\ pc' = "ready" /\ count' = saved.count /\ life' = life + 1
        /\ pendingOld' = NoThread /\ pendingId' = NoId
        /\ UNCHANGED <<rows, saved, made, after, overtaken>>
        /\ Rotations' = Rotations
    BY DEF Resume, ClearPending, history, Rotations
  <1>2. Own' = {}
    BY <1>1, Numbers DEF Own, MadeRecorded
  <1>3. Counted'
    BY <1>1, Numbers DEF Counted, Unrecorded, NoId
  <1>4. NoGaps'
    BY <1>1, Numbers DEF NoGaps, Unrecorded
  <1>5. MadeRecorded'
    BY <1>1, Numbers DEF MadeRecorded
  <1>6. PastTheRows' /\ Unjudged' /\ RulingEarned' /\ Judges'
    BY <1>1, <1>2
      DEF PastTheRows, Unjudged, RulingEarned, JudgeComes, AwaitsJudge, JudgeFollows
  <1>7. PendingMade'
    BY <1>1, <1>2 DEF PendingMade
  <1>8. PassIsEarned'
    BY <1>1 DEF PassIsEarned
  <1>9. JudgeAgrees'
    BY <1>1, <1>2 DEF JudgeAgrees, Own
  <1> QED
    BY <1>3, <1>4, <1>5, <1>6, <1>7, <1>8, <1>9

\* Every step but the ones above is an insertion, an update or a quiet one.
LEMMA StepKinds ==
  ASSUME IInv, [Next]_vars
  PROVE  \/ Quiet \/ Rotate \/ Restart \/ Ask \/ Answered \/ Updates \/ Resume
         \/ \E v \in {"PENDING", "PASS", "FAIL"} : Inserts(v)
  <1> USE DEF StepFrame, pending, history, Saves, RestFrame
  <1>1. Snapshot.count = count
    BY SnapshotType DEF IInv
  <1>2. CASE RecordRotation
    <2>1. Inserts("PENDING")
      BY <1>2 DEF RecordRotation, Inserts, Inserted, InsertFails
    <2> QED
      BY <2>1
  <1>3. CASE RecordRestart
    <2>1. Inserts("PASS") \/ Inserts("FAIL")
      BY <1>1, <1>3 DEF RecordRestart, Inserts, Inserted, InsertFails
    <2> QED
      BY <2>1
  <1>4. CASE Record
    <2>1. Inserts(IF outcome = "pass" THEN "PASS" ELSE "FAIL")
      BY <1>1, <1>4 DEF Record, Inserts, Inserted, InsertFails
    <2> QED
      BY <2>1
  <1>5. CASE UpdateVerdict \/ FailPending
    BY <1>1, <1>5
      DEF UpdateVerdict, FailPending, Updates, ClearPending, IInv, Gate, PendingMade
  <1>6. CASE Recheck
    <2>1. saved'.count = count
      BY <1>6 DEF Recheck, Snapshot
    <2> QED
      BY <1>6, <2>1 DEF Recheck, Quiet
  <1>7. CASE Pause \/ Continue \/ End \/ Shutdown \/ Fails \/ Conflict \/ UNCHANGED vars
    BY <1>1, <1>7
      DEF Pause, Continue, End, Shutdown, SettlesPending, Fails, Conflict, Quiet, vars,
          Resting, AtAwait
  <1>8. CASE Cancel
    <2>1. CASE UNCHANGED <<rows, made>>
      BY <1>1, <1>8, <2>1 DEF Cancel, Quiet
    <2>2. CASE /\ pc = "rotated" /\ ~InsertFails /\ Inserted("PENDING")
               /\ made' = [made EXCEPT ![count] = [old |-> pendingOld, life |-> life]]
      <3>1. Inserts("PENDING")
        BY <1>1, <1>8, <2>2 DEF Cancel, Inserts, Inserted, InsertFails
      <3> QED
        BY <3>1
    <2>3. CASE pc = "updating" /\ Updated(ruling) /\ UNCHANGED made
      BY <1>1, <1>8, <2>3 DEF Cancel, Updates, IInv, Gate, PendingMade
    <2>4. CASE /\ pc = "recording" /\ ~InsertFails /\ UNCHANGED made
               /\ Inserted(IF outcome = "pass" THEN "PASS" ELSE "FAIL")
      <3>1. Inserts(IF outcome = "pass" THEN "PASS" ELSE "FAIL")
        BY <1>1, <1>8, <2>4 DEF Cancel, Inserts, Inserted, InsertFails
      <3> QED
        BY <3>1
    <2> QED
      BY <1>8, <2>1, <2>2, <2>3, <2>4 DEF Cancel
  <1>9. CASE Crash
    BY <1>9 DEF Crash, Quiet, Updates, IInv, Gate, PendingMade
  <1> QED
    BY <1>2, <1>3, <1>4, <1>5, <1>6, <1>7, <1>8, <1>9 DEF Next, Action, Closing, Done

LEMMA NextInv == IInv /\ [Next]_vars => IInv'
  <1> SUFFICES ASSUME IInv, [Next]_vars PROVE IInv'
    OBVIOUS
  <1>1. TypeOK'
    BY TypeStep
  <1> QED
    BY <1>1, StepKinds, QuietInv, EventInv, InsertsInv, UpdatesInv, AnsweredInv, ResumeInv

-----------------------------------------------------------------------------
(***************************************************************************)
(* The theorems.                                                           *)
(***************************************************************************)

\* The invariant that all the others follow from.
THEOREM Invariance == Spec => []IInv
  BY InitInv, NextInv, PTL DEF Spec

\* Every variable keeps its type (the rotation state of controller.py, the rows of
\* action_log).
THEOREM TypeCorrect == Spec => []TypeOK
  <1>1. IInv => TypeOK
    BY DEF IInv
  <1> QED
    BY <1>1, Invariance, PTL

\* A rotation's PASS was earned by the first answer after it, on another thread
\* (_update_pending_rotation and what calls it).
THEOREM PassMeansANewThread == Spec => []PassIsEarned
  <1>1. IInv => PassIsEarned
    BY DEF IInv
  <1> QED
    BY <1>1, Invariance, PTL

\* A run that completes leaves PENDING only the rotations nobody could judge
\* (shutdown).
THEOREM CompletionJudges == Spec => []CompletedMeansJudged
  <1>1. IInv => CompletedMeansJudged
    BY DEF IInv, Gate, PendingMade, Unjudged, CompletedMeansJudged, Own
  <1> QED
    BY <1>1, Invariance, PTL

\* The rotation's row and the row of the action that judged it say the same
\* (_process_event).
THEOREM RowsAgreeOnTheGate == Spec => []JudgeAgrees
  <1>1. IInv => JudgeAgrees
    BY DEF IInv
  <1> QED
    BY <1>1, Invariance, PTL

\* A verdict is not taken back, but by shutdown's FAIL (update_action_verdict is
\* called for what is pending only, and the key of action_log holds).
THEOREM VerdictsStay == Spec => VerdictSettles
  <1> DEFINE Settles ==
        \A i \in Rotations :
          /\ rows[i] = "FAIL" => rows'[i] = "FAIL"
          /\ rows[i] = "PASS" => rows'[i] = "PASS" \/ pc = "closingUpdate"
  <1>1. ASSUME IInv, [Next]_vars PROVE Settles
    <2>1. \A i \in Rotations : i \in Ids /\ rows[i] # NoRow
      BY <1>1, Numbers DEF IInv, Tables, MadeRecorded
    <2>2. CASE \E v \in {"PENDING", "PASS", "FAIL"} : Inserts(v)
      BY <1>1, <2>1, <2>2 DEF Inserts, IInv, TypeOK
    <2>3. CASE Updates
      <3>1. pc = "updating" => pendingId \in Ids /\ rows[pendingId] = "PENDING"
        BY <1>1, <2>3, Numbers DEF IInv, Gate, PendingMade, Updates, Steady
      <3> QED
        BY <1>1, <2>1, <2>3, <3>1 DEF Updates, Updated, IInv, TypeOK
    <2>4. CASE UNCHANGED rows
      BY <2>4
    <2> QED
      BY <1>1, <2>2, <2>3, <2>4, StepKinds
        DEF Quiet, Rotate, Restart, Ask, NextEvent, Answered, Resume
  <1> QED
    BY <1>1, Invariance, PTL DEF Spec, VerdictSettles
=============================================================================

---------------------------- MODULE WriteFinality ----------------------------
(***************************************************************************)
(* One write after another, from the tester's answer to the action's row:  *)
(* _process_event, _finalize_write and the recheck in _handle_anomaly of   *)
(* controller.py, the approval lifecycle of mesa/approval.py, the verdict  *)
(* of oracle/evaluator.py and the applied markers of oracle/db.py.         *)
(*                                                                         *)
(* MESA's ledger of operations is a second process, reached only through   *)
(* the tester, the operator CLI and the status tool; it runs on while the  *)
(* controller waits, gives up, or is dead.  A resumed controller counts on *)
(* from the action its last state change saved, so that actions are played *)
(* again: their ids and their idempotency keys are the ones of before.     *)
(***************************************************************************)
EXTENDS Naturals, Sequences, FiniteSets

CONSTANTS
  MaxActions,    \* how many writes the scenario has
  MaxPolls,      \* approval.timeout_seconds, in status reads
  MaxFaults,     \* how many calls go wrong
  MaxResumes,    \* how often the run is resumed
  SameKey        \* the writes rechecked with reuse_same_key

ASSUME FinalityAssumption ==
  /\ MaxActions \in Nat \ {0} /\ MaxPolls \in Nat /\ MaxFaults \in Nat /\ MaxResumes \in Nat
  /\ SameKey \subseteq 1..MaxActions

Actions == 1..MaxActions

\* The operation states approval.py knows; APPROVED stands for it, DISPATCHING,
\* SUBMITTED and PROCESSING, REJECTED for it and DENIED, and a FAILED operation
\* is named after its error: the provider's, the policy's, or MESA's own.
Intermediate == {"CREATED", "PENDING_APPROVAL", "APPROVED"}
Failures     == {"REJECTED", "FAILED_PROVIDER", "FAILED_POLICY", "FAILED"}
Statuses     == Intermediate \cup Failures \cup {"COMMITTED"}

\* How a write ends for the controller: its verdict and what its row says of why.
Outcomes == {"PASS", "INFRASTRUCTURE", "EXPECTED_POLICY", "CANDIDATE_ANOMALY", "NEEDS_REVIEW"}

Unread == "UNREAD"
None   == 0            \* the tester returned not exactly one operation_id

VARIABLES
  pc,        \* where the controller stands
  n,         \* _action_count
  saved,     \* action_count and scenario_cursor in run_state
  ops,       \* MESA's ledger, in the order of submission
  reported,  \* the operation the tester reported
  current,   \* the status the controller read last
  polls,     \* status reads of the poller so far
  outcome,   \* how the write in hand ended
  applied,   \* the writes the oracle applied, in that order
  rows,      \* action_log
  bugs,      \* per confirmed write, the status the recheck was judged on
  faults, resumes

scratch == <<reported, current, polls, outcome>>
stored  == <<saved, rows, applied, bugs>>
vars    == <<pc, n, ops, scratch, stored, faults, resumes>>

InAction == {"tester", "inspect", "status", "approve", "poll", "apply", "record",
             "anomaly", "recheck", "judge"}
Halted   == {"failed", "crashed"}

KeyPerProcess(a) == <<a, 1 + 2 * resumes>>      \* variant: a replay has a fresh key

\* The key of a write: the action it was made for, and the attempt.  Events that set
\* idempotency_key themselves are left out.
Key(a) == <<a, 1>>
Keys == Actions \X {1, 2}
Foreign == [client |-> "other", key |-> <<1, 1>>, status |-> "PENDING_APPROVAL"]

TypeOK ==
  /\ pc \in InAction \cup Halted \cup {"idle", "waiting"}
  /\ n \in 0..MaxActions /\ saved \in 0..MaxActions
  /\ ops \in Seq([client : {"qa", "other"}, key : Keys, status : Statuses])
  /\ reported \in None..Len(ops)
  /\ current \in Statuses \cup {Unread}
  /\ polls \in 0..MaxPolls
  /\ outcome \in Outcomes
  /\ applied \in Seq(Actions)
  /\ DOMAIN rows \subseteq Actions /\ \A a \in DOMAIN rows : rows[a] \in Outcomes
  /\ DOMAIN bugs \subseteq Actions /\ \A a \in DOMAIN bugs : bugs[a] \in Statuses
  /\ faults \in 0..MaxFaults /\ resumes \in 0..MaxResumes

\* A fresh run; the gateway's ledger also holds an operation of another client.
Init ==
  /\ pc = "idle" /\ n = 0 /\ saved = 0
  /\ ops = <<Foreign>>
  /\ reported = None /\ current = Unread /\ polls = 0 /\ outcome = "PASS"
  /\ applied = <<>> /\ rows = <<>> /\ bugs = <<>>
  /\ faults = 0 /\ resumes = 0

-----------------------------------------------------------------------------
(* MESA: a submission under a key the client used already is answered with *)
(* the operation of that key; operations move on by themselves, except     *)
(* that only an operator approves.                                         *)

OwnUnder(ledger, k) == {i \in DOMAIN ledger : ledger[i].client = "qa" /\ ledger[i].key = k}

\* The ledgers a submission under key k may leave.
Submitted(k) ==
  IF OwnUnder(ops, k) # {} THEN {ops}
  ELSE {Append(ops, [client |-> "qa", key |-> k, status |-> s]) : s \in Intermediate}

Successors(s) ==
  CASE s = "CREATED"          -> {"PENDING_APPROVAL", "APPROVED"}
    [] s = "PENDING_APPROVAL" -> {"REJECTED"}
    [] s = "APPROVED"         -> {"COMMITTED"} \cup Failures
    [] OTHER                  -> {}

Mesa ==
  /\ \E i \in DOMAIN ops : /\ ops[i].client = "qa"
                           /\ \E s \in Successors(ops[i].status) :
                                ops' = [ops EXCEPT ![i].status = s]
  /\ UNCHANGED <<pc, n, scratch, stored, faults, resumes>>

-----------------------------------------------------------------------------
(* Failures of the controller's own calls.                                 *)

Fault == faults < MaxFaults /\ faults' = faults + 1
NoFault == UNCHANGED faults

\* An exception _process_event does not handle: run_loop saves FAILED.
RunFails == pc' = "failed" /\ saved' = n /\ UNCHANGED <<rows, applied, bugs>>

DurableSoon(result) == result \in {"PASS", "INFRASTRUCTURE"}      \* variant

\* Ground truth advances on COMMITTED only.
Durable(result) == result = "PASS"

\* _finalize_write is done with the operation.
Conclude(result) ==
  /\ outcome' = result
  /\ pc' = IF Durable(result) THEN "apply" ELSE "record"
  /\ UNCHANGED stored

-----------------------------------------------------------------------------
(* The action.                                                             *)

\* next_event and the head of _process_event.
Begin ==
  /\ pc = "idle" /\ n < MaxActions
  /\ n' = n + 1
  /\ pc' = "tester"
  /\ reported' = None /\ current' = Unread /\ polls' = 0 /\ outcome' = "PASS"
  /\ UNCHANGED <<ops, stored, faults, resumes>>

\* The tester submits the write, or not, and answers with some operation it knows
\* of: the one of this write, one of an earlier turn, another client's, or none.
TesterAnswers ==
  /\ pc = "tester"
  /\ ops' \in {ops} \cup Submitted(Key(n))
  /\ reported' \in None..Len(ops')
  /\ pc' = "inspect"
  /\ UNCHANGED <<n, current, polls, outcome, stored, faults, resumes>>

\* record_action is a plain INSERT: a second row for an action is an error.  With the
\* new state the count is saved up to mark.
Recorded(result, next, mark) ==
  IF n \in DOMAIN rows THEN RunFails
  ELSE /\ rows' = [a \in DOMAIN rows \cup {n} |-> IF a = n THEN result ELSE rows[a]]
       /\ pc' = next /\ saved' = mark
       /\ UNCHANGED <<applied, bugs>>

\* No usable observation: the row is written and the run waits for Codex.
TesterFails ==
  /\ pc = "tester" /\ Fault
  /\ ops' \in {ops} \cup Submitted(Key(n))
  /\ Recorded("INFRASTRUCTURE", "waiting", n)
  /\ UNCHANGED <<n, scratch, resumes>>

OwnedByClient(i) == i # None /\ ops[i].client = "qa"      \* variant: the key is not compared

\* _inspect_and_validate: this client's, under this action's key.
Owned(i) ==
  /\ i # None
  /\ ops[i].client = "qa"
  /\ ops[i].key = Key(n)

Inspect ==
  /\ pc = "inspect"
  /\ \/ /\ Owned(reported) /\ NoFault
        /\ pc' = "status"
        /\ UNCHANGED <<outcome, stored>>
     \/ ~Owned(reported) /\ NoFault /\ Conclude("NEEDS_REVIEW")
     \/ Fault /\ Conclude("NEEDS_REVIEW")
  /\ UNCHANGED <<n, ops, reported, current, polls, resumes>>

\* approve_and_wait before the poller.  A transport error of this read is the only
\* one _finalize_write does not catch.
FirstStatus ==
  /\ pc = "status"
  /\ \/ /\ NoFault
        /\ current' = ops[reported].status
        /\ pc' = IF current' = "PENDING_APPROVAL" THEN "approve" ELSE "poll"
        /\ UNCHANGED <<outcome, stored>>
     \/ Fault /\ RunFails /\ UNCHANGED <<outcome, current>>
     \/ Fault /\ Conclude("INFRASTRUCTURE") /\ UNCHANGED current
  /\ UNCHANGED <<n, ops, reported, polls, resumes>>

Approved == [ops EXCEPT ![reported].status = "APPROVED"]

\* The operator CLI.  It may fail after it has approved.
Approve ==
  /\ pc = "approve"
  /\ \/ /\ ops[reported].status = "PENDING_APPROVAL" /\ NoFault
        /\ ops' = Approved
        /\ pc' = "poll" /\ current' = Unread
        /\ UNCHANGED <<outcome, stored>>
     \/ /\ ops[reported].status # "PENDING_APPROVAL" /\ NoFault
        /\ Conclude("INFRASTRUCTURE")
        /\ UNCHANGED <<ops, current>>
     \/ /\ Fault
        /\ ops' \in {ops} \cup IF ops[reported].status = "PENDING_APPROVAL" THEN {Approved} ELSE {}
        /\ Conclude("INFRASTRUCTURE")
        /\ UNCHANGED current
  /\ UNCHANGED <<n, reported, polls, resumes>>

-----------------------------------------------------------------------------
(* The poller and what is made of its answer.                              *)

\* The verdict on a write whose operation was last seen in this status.
Judged(status) ==
  CASE status = "COMMITTED"                     -> "PASS"
    [] status \in {"REJECTED", "FAILED_POLICY"} -> "EXPECTED_POLICY"
    [] status = "FAILED_PROVIDER"               -> "INFRASTRUCTURE"
    [] OTHER                                    -> "CANDIDATE_ANOMALY"

NeverGivesUp(reads) == FALSE      \* variant: no deadline

GaveUpOnCandidate == "CANDIDATE_ANOMALY"      \* variant: a slow write is a broken one

\* The verdict on a write that reached no terminal state in time.
GaveUp == "INFRASTRUCTURE"

\* The deadline is looked at after the read, so a late answer still counts.
GivesUp(reads) == reads = MaxPolls

Poll ==
  /\ pc = "poll"
  /\ \/ /\ NoFault
        /\ LET status == IF current = Unread THEN ops[reported].status ELSE current
           IN  IF status \notin Intermediate
               THEN Conclude(Judged(status)) /\ UNCHANGED <<current, polls>>
               ELSE IF GivesUp(polls)
               THEN Conclude(GaveUp) /\ UNCHANGED <<current, polls>>
               ELSE /\ current' = Unread
                    /\ polls' = IF polls < MaxPolls THEN polls + 1 ELSE polls
                    /\ UNCHANGED <<pc, outcome, stored>>
     \/ Fault /\ Conclude("INFRASTRUCTURE") /\ UNCHANGED <<current, polls>>
  /\ UNCHANGED <<n, ops, reported, resumes>>

AppliedAgain == Append(applied, n)      \* variant: no durable marker

\* apply_event: the event id is a durable marker of its own application.
Applied ==
  IF \E i \in DOMAIN applied : applied[i] = n THEN applied ELSE Append(applied, n)

Apply ==
  /\ pc = "apply"
  /\ \/ /\ NoFault
        /\ applied' = Applied
        /\ pc' = "record"
        /\ UNCHANGED <<saved, rows, bugs>>
     \/ Fault /\ RunFails
  /\ UNCHANGED <<n, ops, scratch, resumes>>

Record ==
  /\ pc = "record"
  /\ Recorded(outcome, IF outcome = "CANDIDATE_ANOMALY" THEN "anomaly" ELSE "idle", saved)
  /\ UNCHANGED <<n, ops, scratch, faults, resumes>>

-----------------------------------------------------------------------------
(* _handle_anomaly: the recheck is submitted and judged, never finalized.  *)

RecheckKey(a) == IF a \in SameKey THEN Key(a) ELSE <<a, 2>>

\* ANOMALY, RECHECKING and REPRODUCING are saved before the tester's turn.
Anomaly ==
  /\ pc = "anomaly"
  /\ saved' = n /\ pc' = "recheck"
  /\ UNCHANGED <<n, ops, scratch, rows, applied, bugs, faults, resumes>>

\* The tester submits the recheck; its answer tells the status truthfully.
Recheck ==
  /\ pc = "recheck"
  /\ \/ /\ NoFault
        /\ ops' \in Submitted(RecheckKey(n))
        /\ LET i == CHOOSE j \in OwnUnder(ops', RecheckKey(n)) : TRUE
           IN  current' = ops'[i].status
        /\ pc' = "judge"
     \/ /\ Fault
        /\ ops' \in {ops} \cup Submitted(RecheckKey(n))
        /\ pc' = "idle" /\ UNCHANGED current
  /\ UNCHANGED <<n, reported, polls, outcome, stored, resumes>>

\* The bug is confirmed unless the second verdict is no anomaly.
JudgeRecheck ==
  /\ pc = "judge"
  /\ bugs' = IF Judged(current) = "CANDIDATE_ANOMALY"
             THEN [a \in DOMAIN bugs \cup {n} |-> IF a = n THEN current ELSE bugs[a]]
             ELSE bugs
  /\ pc' = "idle"
  /\ UNCHANGED <<n, ops, scratch, saved, rows, applied, faults, resumes>>

-----------------------------------------------------------------------------
(* The operator and the process.                                           *)

\* run_loop, on a resume request in WAITING_FOR_CODEX.
Continue ==
  /\ pc = "waiting"
  /\ pc' = "idle" /\ saved' = n
  /\ UNCHANGED <<n, ops, scratch, rows, applied, bugs, faults, resumes>>

\* run_loop, on pause and resume between two actions: PAUSED and RUNNING are saved.
Pause ==
  /\ pc = "idle" /\ saved # n
  /\ saved' = n
  /\ UNCHANGED <<pc, n, ops, scratch, rows, applied, bugs, faults, resumes>>

\* A stop request cancels the action where it stands and saves.
Stop ==
  /\ pc \in InAction /\ resumes < MaxResumes
  /\ RunFails
  /\ UNCHANGED <<n, ops, scratch, faults, resumes>>

\* The process dies; nothing is saved.
Crash ==
  /\ pc \notin Halted /\ resumes < MaxResumes
  /\ pc' = "crashed"
  /\ UNCHANGED <<n, ops, scratch, stored, faults, resumes>>

ResumedBehind == saved + 1      \* variant: the interrupted action is skipped

\* resume_from_crash: the count and the cursor are the saved ones.
Resumed == saved

Resume ==
  /\ pc \in Halted /\ resumes < MaxResumes
  /\ resumes' = resumes + 1
  /\ n' = Resumed
  /\ pc' = "idle"
  /\ UNCHANGED <<ops, scratch, stored, faults>>

Done ==
  /\ pc = "failed" \/ (pc = "idle" /\ n = MaxActions)
  /\ UNCHANGED vars

Controller ==
  \/ Begin \/ TesterAnswers \/ TesterFails \/ Inspect \/ FirstStatus \/ Approve \/ Poll
  \/ Apply \/ Record \/ Anomaly \/ Recheck \/ JudgeRecheck

Next == Controller \/ Mesa \/ Continue \/ Pause \/ Stop \/ Crash \/ Resume \/ Done

Spec == Init /\ [][Next]_vars

\* The controller's tasks run on, every call returning; MESA owes nothing.
FairSpec == Spec /\ WF_vars(Controller)

-----------------------------------------------------------------------------
(* Properties.                                                             *)

Last(a) == CHOOSE i \in OwnUnder(ops, Key(a)) : TRUE     \* the operation of a write
InOracle(a) == \E j \in DOMAIN applied : applied[j] = a

\* The oracle knows of no write MESA has not durably committed, whatever operation
\* the tester reported, however the approval went and however often it was replayed.
OracleOnlyCommitted ==
  \A a \in Actions : InOracle(a) =>
    \E i \in OwnUnder(ops, Key(a)) : ops[i].status = "COMMITTED"

\* A write played again after a crash takes effect in the oracle only once.
AppliedOnce == \A i, j \in DOMAIN applied : applied[i] = applied[j] => i = j

\* A row never contradicts MESA or the oracle: what it passed has been applied, what
\* it blames on the candidate or the policy has failed for good, so the oracle is
\* behind MESA only for writes whose row is missing or says INFRASTRUCTURE or
\* NEEDS_REVIEW.
RowsAgree ==
  \A a \in DOMAIN rows :
    /\ rows[a] = "PASS" => InOracle(a)
    /\ rows[a] \in {"EXPECTED_POLICY", "CANDIDATE_ANOMALY"} =>
         ~InOracle(a) /\ ops[Last(a)].status \in Failures

\* MESA commits a write at most once over all its attempts: replays reuse the key,
\* and a write is rechecked under a fresh key only when its operation failed for good.
CommittedOnce ==
  \A i, j \in DOMAIN ops :
    /\ ops[i].status = "COMMITTED" /\ ops[j].status = "COMMITTED"
    /\ ops[i].key[1] = ops[j].key[1]
    => i = j

\* The controller approves only the operation of the write in hand, never an earlier
\* one the tester reports again nor another client's.
ApprovesItsOwn ==
  [][\A i \in DOMAIN ops :
       ops[i].status = "PENDING_APPROVAL" /\ ops'[i].status = "APPROVED" =>
         ops[i].client = "qa" /\ ops[i].key = <<n, 1>>]_vars

\* Whatever MESA does or leaves undone, an action comes to an end.
ActionSettles == pc \in InAction ~> pc \notin InAction

\* Every confirmed bug was seen to fail twice.
ConfirmedFailedTwice == \A a \in DOMAIN bugs : bugs[a] \in Failures
=============================================================================

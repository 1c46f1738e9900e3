------------------------- MODULE WriteFinalityProofs -------------------------
(***************************************************************************)
(* Theorems about WriteFinality for every number of writes, status reads,  *)
(* failing calls and resumes, and whichever writes are rechecked under     *)
(* their own key: what the oracle may know, what a row may say, and which  *)
(* operations are approved.  They are about Spec, hence about FairSpec.    *)
(***************************************************************************)
EXTENDS WriteFinality, SequenceTheorems, TLAPS

(***************************************************************************)
(* The inductive invariant.                                                *)
(***************************************************************************)

Operation == [client : {"qa", "other"}, key : Keys, status : Statuses]

\* The operation of a write has ended so, which it does for good.
Ended(a, states) == \E i \in OwnUnder(ops, <<a, 1>>) : ops[i].status \in states

\* MESA's ledger: one operation under a key, nobody touches another client's, and a
\* write is submitted a second time only once its operation has failed for good.
OnePerKey ==
  \A i, j \in DOMAIN ops :
    /\ ops[i].client = "qa" /\ ops[j].client = "qa" /\ ops[i].key = ops[j].key
    => i = j
OthersWait == \A i \in DOMAIN ops : ops[i].client # "qa" => ops[i].status = "PENDING_APPROVAL"
SecondAfterFailure == \A a \in Actions : OwnUnder(ops, <<a, 2>>) # {} => Ended(a, Failures)

LedgerOK == /\ ops \in Seq(Operation) /\ OnePerKey /\ OthersWait /\ SecondAfterFailure

\* What the controller knows of the operation of the write in hand.
AtHand ==
  /\ pc \in InAction => n \in Actions
  /\ pc \in {"status", "approve", "poll"} => Owned(reported)
  /\ pc = "poll" /\ current \notin Intermediate \cup {Unread} => ops[reported].status = current
  /\ pc = "apply" => outcome = "PASS" /\ Ended(n, {"COMMITTED"})
  /\ pc = "judge" => current # Unread

\* A verdict given, on its row or not yet, is one MESA will not revoke.
Confirmed(a, result) ==
  /\ result = "PASS" => InOracle(a)
  /\ result \in {"EXPECTED_POLICY", "CANDIDATE_ANOMALY"} => Ended(a, Failures)
Verdicts ==
  /\ pc = "record" => Confirmed(n, outcome)
  /\ pc \in {"anomaly", "recheck"} => Ended(n, Failures)
  /\ \A a \in DOMAIN rows : Confirmed(a, rows[a])

Oracle == AppliedOnce /\ \A a \in Actions : InOracle(a) => Ended(a, {"COMMITTED"})

IInv == TypeOK /\ LedgerOK /\ AtHand /\ Verdicts /\ Oracle

-----------------------------------------------------------------------------
(***************************************************************************)
(* What the steps do to MESA's ledger.                                     *)
(***************************************************************************)

Op(k, s) == [client |-> "qa", key |-> k, status |-> s]

\* A first or second attempt enters the ledger.
Submits(k) ==
  /\ k \in Keys /\ \E a \in Actions : k = <<a, 1>> \/ (k = <<a, 2>> /\ Ended(a, Failures))
  /\ OwnUnder(ops, k) = {}
  /\ \E s \in Intermediate : ops' = Append(ops, Op(k, s))

\* An operation moves on, and out of PENDING_APPROVAL to APPROVED only if it is the
\* write in hand.
MovesOn(i, s) ==
  /\ i \in DOMAIN ops /\ ops[i].client = "qa"
  /\ ops[i].status \in Intermediate /\ s \in Statuses
  /\ ops[i].status = "PENDING_APPROVAL" /\ s = "APPROVED" => ops[i].key = <<n, 1>>
  /\ ops' = [ops EXCEPT ![i].status = s]

LEMMA LedgerKinds ==
  ASSUME TypeOK, AtHand, Verdicts, [Next]_vars
  PROVE  \/ ops' = ops
         \/ \E k \in Keys : Submits(k)
         \/ \E i, s : MovesOn(i, s)
  <1> USE DEF scratch, stored, Conclude, NoFault, Fault, RunFails
  <1>1. ASSUME NEW k \in Keys,
               \E a \in Actions : k = <<a, 1>> \/ (k = <<a, 2>> /\ Ended(a, Failures)),
               ops' \in {ops} \cup Submitted(k)
        PROVE  ops' = ops \/ \E j \in Keys : Submits(j)
    <2>1. ops' = ops \/ Submits(k)
      BY <1>1 DEF Submitted, Submits, Op
    <2> QED
      BY <2>1
  <1>2. CASE TesterAnswers \/ TesterFails
    <2>1. ops' \in {ops} \cup Submitted(<<n, 1>>) /\ n \in Actions
      BY <1>2 DEF TesterAnswers, TesterFails, AtHand, InAction, Key
    <2>2. <<n, 1>> \in Keys
      BY <2>1 DEF Keys
    <2> QED
      BY <1>1, <2>1, <2>2
  <1>3. CASE Recheck
    <2>1. /\ ops' \in {ops} \cup Submitted(RecheckKey(n)) /\ n \in Actions
          /\ Ended(n, Failures)
      BY <1>3 DEF Recheck, AtHand, InAction, Verdicts
    <2>2. RecheckKey(n) \in {<<n, 1>>, <<n, 2>>}
      BY DEF RecheckKey, Key
    <2>3. <<n, 1>> \in Keys /\ <<n, 2>> \in Keys
      BY <2>1 DEF Keys
    <2> QED
      BY <1>1, <2>1, <2>2, <2>3
  <1>4. CASE Approve
    <2>1. Owned(reported) /\ reported \in DOMAIN ops
      <3>1. Owned(reported)
        BY <1>4 DEF Approve, AtHand
      <3> QED
        BY <3>1, LenProperties DEF Owned, TypeOK, None
    <2>2. ops' = ops \/ (ops' = Approved /\ ops[reported].status = "PENDING_APPROVAL")
      BY <1>4 DEF Approve
    <2>3. ops' = Approved /\ ops[reported].status = "PENDING_APPROVAL" => MovesOn(reported, "APPROVED")
      BY <2>1 DEF MovesOn, Approved, Owned, Key, Intermediate, Statuses
    <2> QED
      BY <2>2, <2>3
  <1>5. CASE Mesa
    <2>0. PICK i \in DOMAIN ops :
            /\ ops[i].client = "qa"
            /\ \E s \in Successors(ops[i].status) : ops' = [ops EXCEPT ![i].status = s]
      BY <1>5 DEF Mesa
    <2>1. PICK s \in Successors(ops[i].status) : ops' = [ops EXCEPT ![i].status = s]
      BY <2>0
    <2>2. /\ ops[i].status \in Intermediate /\ s \in Statuses
          /\ ops[i].status = "PENDING_APPROVAL" => s # "APPROVED"
      BY <2>1 DEF Successors, Intermediate, Statuses, Failures
    <2>3. MovesOn(i, s)
      BY <2>0, <2>1, <2>2 DEF MovesOn
    <2> QED
      BY <2>3
  <1>6. CASE Begin \/ Inspect \/ FirstStatus \/ Poll \/ Apply \/ Record \/ Anomaly \/ JudgeRecheck
    BY <1>6 DEF Begin, Inspect, FirstStatus, Poll, Apply, Record, Anomaly, JudgeRecheck
  <1>7. CASE Continue \/ Pause \/ Stop \/ Crash \/ Resume \/ Done \/ UNCHANGED vars
    BY <1>7 DEF Continue, Pause, Stop, Crash, Resume, Done, vars
  <1> QED
    BY <1>2, <1>3, <1>4, <1>5, <1>6, <1>7 DEF Next, Controller

\* What no step undoes.
Preserved ==
  /\ Len(ops) \in Nat /\ Len(ops') \in Nat /\ Len(ops) <= Len(ops')
  /\ DOMAIN ops = 1..Len(ops) /\ DOMAIN ops' = 1..Len(ops')
  /\ \A i \in DOMAIN ops :
       /\ ops'[i].client = ops[i].client /\ ops'[i].key = ops[i].key
       /\ ops[i].status \notin Intermediate => ops'[i].status = ops[i].status

\* An operation that has ended has ended for good.
LEMMA EndedForGood ==
  ASSUME Preserved, NEW states, states \cap Intermediate = {}
  PROVE  \A a : Ended(a, states) => Ended(a, states)'
  <1>1. \A a : \A i \in OwnUnder(ops, <<a, 1>>) :
          ops[i].status \in states =>
            i \in OwnUnder(ops', <<a, 1>>) /\ ops'[i].status \in states
    BY DEF Preserved, OwnUnder
  <1>2. \A a : (\E i \in OwnUnder(ops', <<a, 1>>) : ops'[i].status \in states)
                 => Ended(a, states)'
    BY DEF Ended
  <1> QED
    BY <1>1, <1>2 DEF Ended

LEMMA FailuresEnd == Failures \cap Intermediate = {} /\ {"COMMITTED"} \cap Intermediate = {}
  BY DEF Failures, Intermediate

LEMMA LedgerStep ==
  ASSUME IInv, [Next]_vars
  PROVE  LedgerOK' /\ Preserved
  <1>0. LedgerOK /\ \A i \in DOMAIN ops : ops[i] \in Operation
    BY LenProperties DEF IInv, LedgerOK
  <1>1. /\ Len(ops) \in Nat /\ DOMAIN ops = 1..Len(ops)
        /\ \A i \in DOMAIN ops : /\ ops[i].client \in {"qa", "other"} /\ ops[i].key \in Keys
                                 /\ ops[i].status \in Statuses
    BY <1>0, LenProperties DEF LedgerOK, Operation
  <1>2. CASE ops' = ops
    <2>1. Preserved
      BY <1>1, <1>2 DEF Preserved
    <2>2. \A a : Ended(a, Failures)' = Ended(a, Failures)
      BY <1>2 DEF Ended
    <2> QED
      BY <1>0, <1>2, <2>1, <2>2 DEF LedgerOK, OnePerKey, OthersWait, SecondAfterFailure
  <1>3. ASSUME NEW k \in Keys, Submits(k) PROVE LedgerOK' /\ Preserved
    <2> DEFINE m == Len(ops) + 1
    <2>1. PICK s \in Intermediate : ops' = Append(ops, Op(k, s))
      BY <1>3 DEF Submits
    <2>2. Op(k, s) \in Operation
      BY <2>1 DEF Op, Operation, Statuses
    <2>3. /\ ops' \in Seq(Operation) /\ Len(ops') = m
          /\ \A i \in 1..Len(ops) : ops'[i] = ops[i]
          /\ ops'[m] = Op(k, s)
      BY <1>0, <2>1, <2>2, AppendProperties DEF LedgerOK
    <2>4. ops'[m].client = "qa" /\ ops'[m].key = k /\ ops'[m].status \in Intermediate
      BY <2>1, <2>3 DEF Op
    <2>5. Preserved /\ \A i \in DOMAIN ops' : i \in DOMAIN ops \/ i = m
      BY <1>1, <2>3, LenProperties DEF Preserved
    <2>6. \A a : Ended(a, Failures) => Ended(a, Failures)'
      BY <2>5, EndedForGood, FailuresEnd
    <2>7. \A i \in DOMAIN ops : ~(ops[i].client = "qa" /\ ops[i].key = k)
      BY <1>3 DEF Submits, OwnUnder
    <2> HIDE DEF m
    <2>8. OnePerKey'
      <3> SUFFICES ASSUME NEW i \in DOMAIN ops', NEW j \in DOMAIN ops',
                          ops'[i].client = "qa", ops'[j].client = "qa", ops'[i].key = ops'[j].key
                   PROVE  i = j
        BY DEF OnePerKey
      <3>1. CASE i \in DOMAIN ops /\ j \in DOMAIN ops
        BY <1>0, <1>1, <2>3, <3>1 DEF LedgerOK, OnePerKey
      <3>2. CASE i = m \/ j = m
        BY <1>1, <2>3, <2>4, <2>5, <2>7, <3>2
      <3> QED
        BY <2>5, <3>1, <3>2
    <2>9. OthersWait'
      BY <1>0, <1>1, <2>3, <2>4, <2>5 DEF LedgerOK, OthersWait
    <2>10. SecondAfterFailure'
      <3> SUFFICES ASSUME NEW a \in Actions, NEW i \in OwnUnder(ops', <<a, 2>>)
                   PROVE  Ended(a, Failures)'
        BY DEF SecondAfterFailure
      <3>0. i \in DOMAIN ops' /\ ops'[i].client = "qa" /\ ops'[i].key = <<a, 2>>
        BY DEF OwnUnder
      <3>1. CASE i \in DOMAIN ops
        <4>1. i \in OwnUnder(ops, <<a, 2>>)
          BY <1>1, <2>3, <3>0, <3>1 DEF OwnUnder
        <4> QED
          BY <1>0, <2>6, <4>1 DEF LedgerOK, SecondAfterFailure
      <3>2. CASE i = m
        <4>1. k = <<a, 2>>
          BY <2>4, <3>0, <3>2
        <4>2. PICK b \in Actions : k = <<b, 1>> \/ (k = <<b, 2>> /\ Ended(b, Failures))
          BY <1>3 DEF Submits
        <4>3. a = b
          BY <4>1, <4>2
        <4> QED
          BY <2>6, <4>1, <4>2, <4>3
      <3> QED
        BY <2>5, <3>0, <3>1, <3>2
    <2> QED
      BY <2>3, <2>5, <2>8, <2>9, <2>10 DEF LedgerOK
  <1>4. ASSUME NEW i, NEW s, MovesOn(i, s) PROVE LedgerOK' /\ Preserved
    <2>1. /\ i \in 1..Len(ops) /\ ops[i].client = "qa"
          /\ ops[i].status \in Intermediate /\ s \in Statuses
          /\ ops' = [ops EXCEPT ![i] = [ops[i] EXCEPT !.status = s]]
      BY <1>1, <1>4 DEF MovesOn
    <2>2. [ops[i] EXCEPT !.status = s] \in Operation
      BY <1>0, <1>1, <2>1 DEF Operation
    <2>3. /\ ops' \in Seq(Operation) /\ Len(ops') = Len(ops)
          /\ \A j \in 1..Len(ops) : ops'[j] = IF j = i THEN [ops[i] EXCEPT !.status = s]
                                                       ELSE ops[j]
      BY <1>0, <2>1, <2>2, ExceptSeq DEF LedgerOK
    <2>4. /\ DOMAIN ops' = DOMAIN ops
          /\ \A j \in DOMAIN ops : /\ ops'[j].client = ops[j].client
                                   /\ ops'[j].key = ops[j].key
                                   /\ j # i => ops'[j].status = ops[j].status
      <3>1. [ops[i] EXCEPT !.status = s].client = ops[i].client
            /\ [ops[i] EXCEPT !.status = s].key = ops[i].key
        BY <1>0, <1>1, <2>1 DEF Operation
      <3> QED
        BY <1>1, <2>3, <3>1, LenProperties
    <2>5. Preserved
      BY <1>1, <2>1, <2>3, <2>4 DEF Preserved
    <2>6. \A a : Ended(a, Failures) => Ended(a, Failures)'
      BY <2>5, EndedForGood, FailuresEnd
    <2>7. OnePerKey' /\ OthersWait'
      BY <1>0, <2>1, <2>4 DEF LedgerOK, OnePerKey, OthersWait
    <2>8. SecondAfterFailure'
      <3>1. \A a : OwnUnder(ops', <<a, 2>>) # {} => OwnUnder(ops, <<a, 2>>) # {}
        BY <2>4 DEF OwnUnder
      <3> QED
        BY <1>0, <2>6, <3>1 DEF LedgerOK, SecondAfterFailure
    <2> QED
      BY <2>3, <2>5, <2>7, <2>8 DEF LedgerOK
  <1> QED
    BY <1>2, <1>3, <1>4, LedgerKinds DEF IInv

-----------------------------------------------------------------------------
(***************************************************************************)
(* What they do to the oracle and to the rows.                             *)
(***************************************************************************)

LEMMA OracleStep ==
  ASSUME IInv, [Next]_vars
  PROVE  /\ applied' \in Seq(Actions) /\ Oracle'
         /\ \A a : InOracle(a) => InOracle(a)'
         /\ Apply /\ pc' = "record" => \E j \in DOMAIN applied' : applied'[j] = n
  <1> USE DEF scratch, stored, Conclude, NoFault, Fault, RunFails, Recorded
  <1>0. /\ applied \in Seq(Actions) /\ DOMAIN applied = 1..Len(applied) /\ Len(applied) \in Nat
        /\ AppliedOnce /\ \A a \in Actions : InOracle(a) => Ended(a, {"COMMITTED"})
    BY LenProperties DEF IInv, TypeOK, Oracle
  <1>1. \A a : Ended(a, {"COMMITTED"}) => Ended(a, {"COMMITTED"})'
    BY LedgerStep, EndedForGood, FailuresEnd
  <1>2. \/ applied' = applied /\ ~(Apply /\ pc' = "record")
        \/ Apply /\ applied' = Applied /\ pc' = "record" /\ pc = "apply"
    <2>1. CASE Begin \/ TesterAnswers \/ TesterFails \/ Inspect \/ FirstStatus \/ Approve
      BY <2>1 DEF Begin, TesterAnswers, TesterFails, Inspect, FirstStatus, Approve, Apply
    <2>2. CASE Poll \/ Apply \/ Record \/ Anomaly \/ Recheck \/ JudgeRecheck
      BY <2>2 DEF Poll, Apply, Record, Anomaly, Recheck, JudgeRecheck
    <2>3. CASE Mesa \/ Continue \/ Pause \/ Stop \/ Crash \/ Resume \/ Done \/ UNCHANGED vars
      BY <2>3 DEF Mesa, Continue, Pause, Stop, Crash, Resume, Done, vars, Apply
    <2> QED
      BY <2>1, <2>2, <2>3 DEF Next, Controller
  <1>3. CASE applied' = applied /\ ~(Apply /\ pc' = "record")
    BY <1>0, <1>1, <1>3 DEF Oracle, AppliedOnce, InOracle
  <1>4. CASE Apply /\ applied' = Applied /\ pc' = "record" /\ pc = "apply"
    <2>1. n \in Actions /\ Ended(n, {"COMMITTED"})
      BY <1>4 DEF IInv, AtHand, InAction
    <2>2. CASE InOracle(n)
      <3>1. applied' = applied
        BY <1>4, <2>2 DEF Applied, InOracle
      <3> QED
        BY <1>0, <1>1, <2>2, <3>1 DEF Oracle, AppliedOnce, InOracle
    <2>3. CASE ~InOracle(n)
      <3>1. applied' = Append(applied, n)
        BY <1>4, <2>3 DEF Applied, InOracle
      <3>2. /\ applied' \in Seq(Actions) /\ Len(applied') = Len(applied) + 1
            /\ \A j \in 1..Len(applied) : applied'[j] = applied[j]
            /\ applied'[Len(applied) + 1] = n
        BY <1>0, <2>1, <3>1, AppendProperties
      <3>3. /\ DOMAIN applied' = 1..(Len(applied) + 1)
            /\ \A j \in DOMAIN applied' : j \in DOMAIN applied \/ j = Len(applied) + 1
            /\ Len(applied) + 1 \in DOMAIN applied'
        BY <1>0, <3>2, LenProperties
      <3>4. \A a : InOracle(a)' <=> InOracle(a) \/ a = n
        BY <1>0, <3>2, <3>3 DEF InOracle
      <3>5. AppliedOnce'
        BY <1>0, <2>3, <3>2, <3>3 DEF AppliedOnce, InOracle
      <3>6. \A a \in Actions : InOracle(a)' => Ended(a, {"COMMITTED"})'
        BY <1>0, <1>1, <2>1, <3>4
      <3> QED
        BY <3>2, <3>4, <3>5, <3>6 DEF Oracle
    <2> QED
      BY <2>2, <2>3
  <1> QED
    BY <1>2, <1>3, <1>4

\* MESA and the oracle do not go back on what a verdict rests on.
LEMMA VerdictsLast ==
  ASSUME IInv, [Next]_vars
  PROVE  \A a, result : Confirmed(a, result) => Confirmed(a, result)'
  <1>1. \A a : Ended(a, Failures) => Ended(a, Failures)'
    BY LedgerStep, EndedForGood, FailuresEnd
  <1>2. \A a : InOracle(a) => InOracle(a)'
    BY OracleStep
  <1> QED
    BY <1>1, <1>2 DEF Confirmed

\* An action's row is written once, with a verdict that is confirmed.
LEMMA RowsStep ==
  ASSUME IInv, [Next]_vars
  PROVE  /\ DOMAIN rows' \subseteq Actions
         /\ \A a \in DOMAIN rows' : rows'[a] \in Outcomes
         /\ (\A a \in DOMAIN rows : Confirmed(a, rows[a]))'
  <1> USE DEF scratch, stored, Conclude, NoFault, Fault, RunFails, Recorded
  <1>0. /\ DOMAIN rows \subseteq Actions
        /\ \A a \in DOMAIN rows : rows[a] \in Outcomes /\ Confirmed(a, rows[a])
    BY DEF IInv, TypeOK, Verdicts
  <1>1. \/ rows' = rows
        \/ \E result \in Outcomes :
             /\ n \in Actions /\ Confirmed(n, result)
             /\ rows' = [a \in DOMAIN rows \cup {n} |-> IF a = n THEN result ELSE rows[a]]
    <2>1. CASE TesterFails
      <3>1. n \in Actions
        BY <2>1 DEF TesterFails, IInv, AtHand, InAction
      <3>2. "INFRASTRUCTURE" \in Outcomes /\ Confirmed(n, "INFRASTRUCTURE")
        BY DEF Confirmed, Outcomes
      <3> QED
        BY <2>1, <3>1, <3>2 DEF TesterFails
    <2>2. CASE Record
      <3>1. n \in Actions /\ outcome \in Outcomes /\ Confirmed(n, outcome)
        BY <2>2 DEF Record, IInv, AtHand, InAction, TypeOK, Verdicts
      <3> QED
        BY <2>2, <3>1 DEF Record
    <2>3. CASE Begin \/ TesterAnswers \/ Inspect \/ FirstStatus \/ Approve
      BY <2>3 DEF Begin, TesterAnswers, Inspect, FirstStatus, Approve
    <2>4. CASE Poll \/ Apply \/ Anomaly \/ Recheck \/ JudgeRecheck
      BY <2>4 DEF Poll, Apply, Anomaly, Recheck, JudgeRecheck
    <2>5. CASE Mesa \/ Continue \/ Pause \/ Stop \/ Crash \/ Resume \/ Done \/ UNCHANGED vars
      BY <2>5 DEF Mesa, Continue, Pause, Stop, Crash, Resume, Done, vars
    <2> QED
      BY <2>1, <2>2, <2>3, <2>4, <2>5 DEF Next, Controller
  <1>2. CASE rows' = rows
    BY <1>0, <1>2, VerdictsLast DEF Confirmed
  <1>3. ASSUME NEW result \in Outcomes, n \in Actions, Confirmed(n, result),
               rows' = [a \in DOMAIN rows \cup {n} |-> IF a = n THEN result ELSE rows[a]]
        PROVE  /\ DOMAIN rows' \subseteq Actions
               /\ \A a \in DOMAIN rows' : rows'[a] \in Outcomes
               /\ (\A a \in DOMAIN rows : Confirmed(a, rows[a]))'
    <2>1. DOMAIN rows' = DOMAIN rows \cup {n}
      BY <1>3
    <2>2. ASSUME NEW a \in DOMAIN rows' PROVE rows'[a] \in Outcomes /\ Confirmed(a, rows'[a])
      BY <1>0, <1>3, <2>1, <2>2
    <2> QED
      BY <1>0, <1>3, <2>1, <2>2, VerdictsLast DEF Confirmed
  <1> QED
    BY <1>1, <1>2, <1>3

-----------------------------------------------------------------------------
(***************************************************************************)
(* What they do to the write in hand.                                      *)
(***************************************************************************)

LEMMA JudgedWell ==
  ASSUME NEW s \in Statuses
  PROVE  /\ Judged(s) \in Outcomes
         /\ Judged(s) = "PASS" => s = "COMMITTED"
         /\ Judged(s) \in {"EXPECTED_POLICY", "CANDIDATE_ANOMALY"} /\ s \notin Intermediate
              => s \in Failures
  BY DEF Judged, Outcomes, Statuses, Intermediate, Failures

\* The status a recheck is judged on is that of an operation of this client.
LEMMA RecheckReads ==
  ASSUME IInv, [Next]_vars, Recheck, pc' = "judge"
  PROVE  current' \in Statuses
  <1> DEFINE k == RecheckKey(n)
             i == CHOOSE j \in OwnUnder(ops', k) : TRUE
  <1>1. ops' \in Submitted(k) /\ current' = ops'[i].status
    BY DEF Recheck
  <1>2. /\ ops \in Seq(Operation) /\ ops' \in Seq(Operation) /\ n \in Actions
    BY LedgerStep DEF IInv, LedgerOK, Recheck, AtHand, InAction
  <1>3. OwnUnder(ops', k) # {}
    <2>1. CASE OwnUnder(ops, k) # {}
      BY <1>1, <2>1 DEF Submitted
    <2>2. CASE OwnUnder(ops, k) = {}
      <3>1. PICK s \in Intermediate : ops' = Append(ops, Op(k, s))
        BY <1>1, <2>2 DEF Submitted, Op
      <3>2. Op(k, s) \in Operation
        <4>1. k \in Keys
          BY <1>2 DEF RecheckKey, Key, Keys
        <4> QED
          BY <3>1, <4>1 DEF Op, Operation, Statuses
      <3>3. Len(ops) + 1 \in DOMAIN ops' /\ ops'[Len(ops) + 1] = Op(k, s)
        BY <1>2, <3>1, <3>2, AppendProperties, LenProperties
      <3>4. Len(ops) + 1 \in OwnUnder(ops', k)
        BY <3>3 DEF OwnUnder, Op
      <3> QED
        BY <3>4
    <2> QED
      BY <2>1, <2>2
  <1>4. i \in DOMAIN ops'
    BY <1>3 DEF OwnUnder
  <1>5. ops'[i] \in Operation
    BY <1>2, <1>4, LenProperties
  <1> QED
    BY <1>1, <1>5 DEF Operation

\* What a step makes of the write in hand is what it knows of it.
HandOK ==
  /\ AtHand
  /\ pc = "record" => Confirmed(n, outcome)
  /\ pc \in {"anomaly", "recheck"} => Ended(n, Failures)

LEMMA HandStep ==
  ASSUME IInv, [Next]_vars
  PROVE  HandOK'
  <1> USE DEF scratch, stored, NoFault, Fault, RunFails, Recorded
  <1>0. /\ TypeOK /\ AtHand /\ Verdicts /\ Preserved
        /\ \A a : Ended(a, Failures) => Ended(a, Failures)'
        /\ \A a : Ended(a, {"COMMITTED"}) => Ended(a, {"COMMITTED"})'
        /\ \A a : InOracle(a) => InOracle(a)'
    BY LedgerStep, OracleStep, EndedForGood, FailuresEnd DEF IInv
  \* The operation in hand remains the write's own, and ended if it has ended.
  <1>1. ASSUME Owned(reported), UNCHANGED <<n, reported>>
        PROVE  /\ Owned(reported)' /\ reported \in DOMAIN ops
               /\ ops[reported].status \in Statuses
               /\ ops[reported].status \notin Intermediate =>
                    ops'[reported].status = ops[reported].status
               /\ \A states : ops[reported].status \in states => Ended(n, states)
    <2>1. reported \in DOMAIN ops
      BY <1>0, <1>1, LenProperties DEF Owned, TypeOK, None, Preserved
    <2>2. ops[reported].status \in Statuses
      <3>1. ops[reported] \in Operation
        BY <2>1, LenProperties DEF IInv, LedgerOK
      <3> QED
        BY <3>1 DEF Operation
    <2>3. Owned(reported)'
      BY <1>0, <1>1, <2>1 DEF Owned, Preserved, Key
    <2>4. reported \in OwnUnder(ops, <<n, 1>>)
      BY <1>1, <2>1 DEF Owned, OwnUnder, Key
    <2> QED
      BY <1>0, <2>1, <2>2, <2>3, <2>4 DEF Preserved, Ended
  \* A verdict is given.
  <1>2. ASSUME NEW result, Conclude(result), n' = n, n \in Actions,
               result = "PASS" => Ended(n, {"COMMITTED"}),
               result \in {"EXPECTED_POLICY", "CANDIDATE_ANOMALY"} => Ended(n, Failures)
        PROVE  HandOK'
    <2>1. /\ outcome' = result
          /\ \/ pc' = "apply" /\ result = "PASS"
             \/ pc' = "record" /\ result # "PASS"
      BY <1>2 DEF Conclude, Durable
    <2>2. AtHand'
      BY <1>0, <1>2, <2>1 DEF AtHand, Ended
    <2> QED
      BY <1>0, <1>2, <2>1, <2>2 DEF HandOK, Confirmed, Ended
  <1>3. ASSUME pc' \notin InAction PROVE HandOK'
    BY <1>3 DEF HandOK, AtHand, InAction
  <1>4. ASSUME UNCHANGED <<pc, n, reported, current, outcome>> PROVE HandOK'
    <2>1. pc \in {"status", "approve", "poll"} => Owned(reported)'
      BY <1>0, <1>1, <1>4 DEF AtHand
    <2>2. /\ pc = "poll" /\ current \notin Intermediate \cup {Unread} =>
               ops'[reported].status = current
      BY <1>0, <1>1, <1>4 DEF AtHand
    <2>3. AtHand'
      BY <1>0, <1>4, <2>1, <2>2 DEF AtHand, Ended
    <2> QED
      BY <1>0, <1>4, <2>3 DEF HandOK, Verdicts, Confirmed, Ended, InOracle
  <1>5. CASE Begin \/ TesterAnswers
    <2>1. n' \in Actions /\ pc' \in {"tester", "inspect"}
      BY <1>0, <1>5, FinalityAssumption
        DEF Begin, TesterAnswers, TypeOK, Actions, AtHand, InAction
    <2> QED
      BY <2>1 DEF HandOK, AtHand
  <1>6. CASE TesterFails \/ Stop \/ Crash \/ Resume \/ Continue \/ JudgeRecheck
    BY <1>3, <1>6 DEF TesterFails, Stop, Crash, Resume, Continue, JudgeRecheck, InAction
  <1>7. CASE Mesa \/ Pause \/ Done \/ UNCHANGED vars
    BY <1>4, <1>7 DEF Mesa, Pause, Done, vars
  <1>8. CASE Inspect
    <2>0. n' = n /\ reported' = reported /\ n \in Actions
      BY <1>0, <1>8 DEF Inspect, AtHand, InAction
    <2>1. CASE Owned(reported) /\ pc' = "status"
      BY <1>1, <2>0, <2>1 DEF HandOK, AtHand
    <2>2. CASE Conclude("NEEDS_REVIEW")
      BY <1>2, <2>0, <2>2
    <2> QED
      BY <1>8, <2>1, <2>2 DEF Inspect
  <1>9. CASE FirstStatus
    <2>0. n' = n /\ reported' = reported /\ n \in Actions /\ Owned(reported)
      BY <1>0, <1>9 DEF FirstStatus, AtHand, InAction
    <2>1. CASE current' = ops[reported].status /\ pc' \in {"approve", "poll"}
      BY <1>1, <2>0, <2>1 DEF HandOK, AtHand
    <2>2. CASE Conclude("INFRASTRUCTURE")
      BY <1>2, <2>0, <2>2
    <2>3. CASE pc' = "failed"
      BY <1>3, <2>3 DEF InAction
    <2> QED
      BY <1>9, <2>1, <2>2, <2>3 DEF FirstStatus
  <1>10. CASE Approve
    <2>0. n' = n /\ reported' = reported /\ n \in Actions /\ Owned(reported)
      BY <1>0, <1>10 DEF Approve, AtHand, InAction
    <2>1. CASE current' = Unread /\ pc' = "poll"
      BY <1>1, <2>0, <2>1 DEF HandOK, AtHand
    <2>2. CASE Conclude("INFRASTRUCTURE")
      BY <1>2, <2>0, <2>2
    <2> QED
      BY <1>10, <2>1, <2>2 DEF Approve
  <1>11. CASE Poll
    <2> DEFINE status == IF current = Unread THEN ops[reported].status ELSE current
    <2>0. n' = n /\ reported' = reported /\ n \in Actions /\ Owned(reported) /\ pc = "poll"
      BY <1>0, <1>11 DEF Poll, AtHand, InAction
    <2>1. CASE status \notin Intermediate /\ Conclude(Judged(status))
      <3>1. status \in Statuses /\ ops[reported].status = status
        BY <1>0, <1>1, <2>0, <2>1 DEF AtHand, TypeOK
      <3>2. \A states : status \in states => Ended(n, states)
        BY <1>1, <2>0, <3>1
      <3> HIDE DEF status
      <3>3. Judged(status) = "PASS" => Ended(n, {"COMMITTED"})
        BY <3>1, <3>2, JudgedWell
      <3>4. Judged(status) \in {"EXPECTED_POLICY", "CANDIDATE_ANOMALY"} => Ended(n, Failures)
        BY <2>1, <3>1, <3>2, JudgedWell
      <3> QED
        BY <1>2, <2>0, <2>1, <3>3, <3>4
    <2>2. CASE Conclude("INFRASTRUCTURE")
      BY <1>2, <2>0, <2>2
    <2>3. CASE current' = Unread /\ UNCHANGED <<pc, outcome>>
      BY <1>1, <2>0, <2>3 DEF HandOK, AtHand
    <2> QED
      BY <1>11, <2>1, <2>2, <2>3 DEF Poll, GaveUp
  <1>12. CASE Apply
    <2>1. CASE pc' = "record"
      <3>1. \E j \in DOMAIN applied' : applied'[j] = n
        BY <1>12, <2>1, OracleStep
      <3>2. n' = n /\ n \in Actions /\ outcome' = outcome
        BY <1>0, <1>12 DEF Apply, AtHand, InAction
      <3>3. outcome = "PASS"
        BY <1>0, <1>12 DEF Apply, AtHand
      <3> QED
        BY <2>1, <3>1, <3>2, <3>3 DEF HandOK, AtHand, Confirmed, InOracle
    <2>2. CASE pc' = "failed"
      BY <1>3, <2>2 DEF InAction
    <2> QED
      BY <1>12, <2>1, <2>2 DEF Apply
  <1>13. CASE Record
    <2>1. n' = n /\ n \in Actions /\ Confirmed(n, outcome)
      BY <1>0, <1>13 DEF Record, AtHand, InAction, Verdicts
    <2>2. CASE pc' = "anomaly" /\ outcome = "CANDIDATE_ANOMALY"
      BY <1>0, <2>1, <2>2 DEF HandOK, AtHand, Confirmed, Ended
    <2>3. CASE pc' \in {"idle", "failed"}
      BY <1>3, <2>3 DEF InAction
    <2> QED
      BY <1>13, <2>2, <2>3 DEF Record
  <1>14. CASE Anomaly
    BY <1>0, <1>14 DEF Anomaly, HandOK, AtHand, Verdicts, InAction, Ended
  <1>15. CASE Recheck
    <2>1. CASE pc' = "judge"
      <3>1. current' # Unread
        BY <1>15, <2>1, RecheckReads DEF Statuses, Intermediate, Failures, Unread
      <3> QED
        BY <1>0, <1>15, <2>1, <3>1 DEF Recheck, HandOK, AtHand, InAction
    <2>2. CASE pc' = "idle"
      BY <1>3, <2>2 DEF InAction
    <2> QED
      BY <1>15, <2>1, <2>2 DEF Recheck
  <1> QED
    BY <1>5, <1>6, <1>7, <1>8, <1>9, <1>10, <1>11, <1>12, <1>13, <1>14, <1>15 DEF Next, Controller

LEMMA TypeStep ==
  ASSUME IInv, [Next]_vars
  PROVE  TypeOK'
  <1> USE FinalityAssumption DEF scratch, stored, NoFault, Fault, RunFails, Recorded
  <1>0. TypeOK /\ AtHand
    BY DEF IInv
  <1>1. ops' \in Seq(Operation) /\ Len(ops') \in Nat /\ Len(ops) \in Nat /\ Len(ops) <= Len(ops')
    BY LedgerStep DEF LedgerOK, Preserved
  <1>2. applied' \in Seq(Actions)
    BY OracleStep
  <1>3. DOMAIN rows' \subseteq Actions /\ \A a \in DOMAIN rows' : rows'[a] \in Outcomes
    BY RowsStep
  <1>4. n' \in 0..MaxActions /\ saved' \in 0..MaxActions
    <2>1. n \in 0..MaxActions /\ saved \in 0..MaxActions
      BY <1>0 DEF TypeOK
    <2>2. CASE Begin \/ TesterAnswers \/ TesterFails \/ Inspect \/ FirstStatus \/ Approve
      BY <2>1, <2>2 DEF Begin, TesterAnswers, TesterFails, Inspect, FirstStatus, Approve, Conclude
    <2>3. CASE Poll \/ Apply \/ Record \/ Anomaly \/ Recheck \/ JudgeRecheck
      BY <2>1, <2>3 DEF Poll, Apply, Record, Anomaly, Recheck, JudgeRecheck, Conclude
    <2>4. CASE Mesa \/ Continue \/ Pause \/ Stop \/ Crash \/ Resume \/ Done \/ UNCHANGED vars
      BY <2>1, <2>4 DEF Mesa, Continue, Pause, Stop, Crash, Resume, Resumed, Done, vars
    <2> QED
      BY <2>2, <2>3, <2>4 DEF Next, Controller
  <1>5. reported' \in None..Len(ops')
    <2>1. reported \in None..Len(ops)
      BY <1>0 DEF TypeOK
    <2>2. \/ reported' = reported \/ reported' = None \/ reported' \in None..Len(ops')
      <3>1. CASE Begin \/ TesterAnswers \/ TesterFails \/ Inspect \/ FirstStatus \/ Approve
        BY <3>1 DEF Begin, TesterAnswers, TesterFails, Inspect, FirstStatus, Approve
      <3>2. CASE Poll \/ Apply \/ Record \/ Anomaly \/ Recheck \/ JudgeRecheck
        BY <3>2 DEF Poll, Apply, Record, Anomaly, Recheck, JudgeRecheck
      <3>3. CASE Mesa \/ Continue \/ Pause \/ Stop \/ Crash \/ Resume \/ Done \/ UNCHANGED vars
        BY <3>3 DEF Mesa, Continue, Pause, Stop, Crash, Resume, Done, vars
      <3> QED
        BY <3>1, <3>2, <3>3 DEF Next, Controller
    <2> QED
      BY <1>1, <2>1, <2>2 DEF None
  <1>6. /\ outcome' \in Outcomes /\ current' \in Statuses \cup {Unread} /\ polls' \in 0..MaxPolls
        /\ DOMAIN bugs' \subseteq Actions /\ \A a \in DOMAIN bugs' : bugs'[a] \in Statuses
    <2>1. /\ outcome \in Outcomes /\ current \in Statuses \cup {Unread} /\ polls \in 0..MaxPolls
          /\ DOMAIN bugs \subseteq Actions /\ \A a \in DOMAIN bugs : bugs[a] \in Statuses
      BY <1>0 DEF TypeOK
    <2>2. CASE Begin \/ TesterAnswers \/ TesterFails \/ Apply \/ Record \/ Anomaly
      BY <2>1, <2>2
        DEF Begin, TesterAnswers, TesterFails, Apply, Record, Anomaly, Outcomes
    <2>3. CASE Mesa \/ Continue \/ Pause \/ Stop \/ Crash \/ Resume \/ Done \/ UNCHANGED vars
      BY <2>1, <2>3 DEF Mesa, Continue, Pause, Stop, Crash, Resume, Done, vars
    <2>4. CASE Inspect \/ Approve
      BY <2>1, <2>4 DEF Inspect, Approve, Conclude, Outcomes
    <2>5. reported \in DOMAIN ops => ops[reported].status \in Statuses
      <3>1. reported \in DOMAIN ops => ops[reported] \in Operation
        BY LenProperties DEF IInv, LedgerOK
      <3> QED
        BY <3>1 DEF Operation
    <2>6. pc \in {"status", "poll"} => reported \in DOMAIN ops
      BY <1>0, LenProperties DEF AtHand, Owned, TypeOK, None
    <2>7. CASE FirstStatus
      BY <2>1, <2>5, <2>6, <2>7 DEF FirstStatus, Conclude, Outcomes
    <2>8. CASE Poll
      <3> DEFINE status == IF current = Unread THEN ops[reported].status ELSE current
      <3>1. status \in Statuses
        BY <2>1, <2>5, <2>6, <2>8 DEF Poll
      <3>2. Judged(status) \in Outcomes
        BY <3>1, JudgedWell
      <3>3. UNCHANGED bugs /\ polls' \in 0..MaxPolls /\ current' \in {current, Unread}
        BY <2>1, <2>8 DEF Poll, Conclude
      <3>4. outcome' \in {Judged(status), "INFRASTRUCTURE", outcome}
        BY <2>8 DEF Poll, Conclude, GaveUp
      <3> QED
        BY <2>1, <3>2, <3>3, <3>4 DEF Outcomes
    <2>9. CASE Recheck
      BY <2>1, <2>9, RecheckReads DEF Recheck
    <2>10. CASE JudgeRecheck
      <3>1. n \in Actions /\ current \in Statuses
        BY <1>0, <2>1, <2>10 DEF JudgeRecheck, AtHand, InAction
      <3>2. UNCHANGED scratch
        BY <2>10 DEF JudgeRecheck
      <3>3. \/ bugs' = bugs
            \/ bugs' = [a \in DOMAIN bugs \cup {n} |-> IF a = n THEN current ELSE bugs[a]]
        BY <2>10 DEF JudgeRecheck
      <3> QED
        BY <2>1, <3>1, <3>2, <3>3
    <2> QED
      BY <2>2, <2>3, <2>4, <2>7, <2>8, <2>9, <2>10 DEF Next, Controller
  <1>7. /\ pc' \in InAction \cup Halted \cup {"idle", "waiting"}
        /\ faults' \in 0..MaxFaults /\ resumes' \in 0..MaxResumes
    <2>1. /\ pc \in InAction \cup Halted \cup {"idle", "waiting"}
          /\ faults \in 0..MaxFaults /\ resumes \in 0..MaxResumes
      BY <1>0 DEF TypeOK
    <2>2. CASE Begin \/ TesterAnswers \/ TesterFails \/ Inspect \/ FirstStatus \/ Approve
      BY <2>1, <2>2 DEF Begin, TesterAnswers, TesterFails, Inspect, FirstStatus, Approve,
                        Conclude, InAction, Halted
    <2>3. CASE Poll \/ Apply \/ Record \/ Anomaly \/ Recheck \/ JudgeRecheck
      BY <2>1, <2>3 DEF Poll, Apply, Record, Anomaly, Recheck, JudgeRecheck,
                        Conclude, InAction, Halted
    <2>4. CASE Mesa \/ Continue \/ Pause \/ Stop \/ Crash \/ Resume \/ Done \/ UNCHANGED vars
      BY <2>1, <2>4 DEF Mesa, Continue, Pause, Stop, Crash, Resume, Done, vars, InAction, Halted
    <2> QED
      BY <2>2, <2>3, <2>4 DEF Next, Controller
  <1> QED
    BY <1>1, <1>2, <1>3, <1>4, <1>5, <1>6, <1>7 DEF TypeOK, Operation

-----------------------------------------------------------------------------
(***************************************************************************)
(* The theorems.                                                           *)
(***************************************************************************)

LEMMA InitInv == Init => IInv
  <1> SUFFICES ASSUME Init PROVE IInv
    OBVIOUS
  <1>1. /\ 0 \in 0..MaxActions /\ 0 \in 0..MaxPolls /\ 0 \in 0..MaxFaults /\ 0 \in 0..MaxResumes
        /\ <<1, 1>> \in Keys
    BY FinalityAssumption DEF Keys, Actions
  <1>2. Foreign \in Operation /\ Foreign.client = "other" /\ Foreign.status = "PENDING_APPROVAL"
    BY <1>1 DEF Foreign, Operation, Statuses, Intermediate
  <1>3. /\ ops = <<Foreign>> /\ ops \in Seq(Operation) /\ Len(ops) = 1
        /\ DOMAIN ops = {1} /\ ops[1] = Foreign
    BY <1>2 DEF Init
  <1>4. applied \in Seq(Actions) /\ DOMAIN applied = {} /\ DOMAIN rows = {} /\ DOMAIN bugs = {}
    BY DEF Init
  <1>5. TypeOK
    <2>1. reported \in None..Len(ops)
      BY <1>3 DEF Init, None
    <2>2. pc \in InAction \cup Halted \cup {"idle", "waiting"}
      BY DEF Init
    <2>3. current \in Statuses \cup {Unread} /\ outcome \in Outcomes
      BY DEF Init, Outcomes
    <2> QED
      BY <1>1, <1>3, <1>4, <2>1, <2>2, <2>3 DEF TypeOK, Init, Operation
  <1>6. LedgerOK
    <2>1. \A k : OwnUnder(ops, k) = {}
      BY <1>2, <1>3 DEF OwnUnder
    <2> QED
      BY <1>2, <1>3, <2>1 DEF LedgerOK, OnePerKey, OthersWait, SecondAfterFailure
  <1>7. AtHand
    BY DEF Init, AtHand, InAction
  <1>8. Verdicts /\ Oracle
    BY <1>4 DEF Init, Verdicts, Oracle, AppliedOnce, InOracle
  <1> QED
    BY <1>5, <1>6, <1>7, <1>8 DEF IInv

LEMMA NextInv == IInv /\ [Next]_vars => IInv'
  <1> SUFFICES ASSUME IInv, [Next]_vars PROVE IInv'
    OBVIOUS
  <1>1. TypeOK' /\ LedgerOK' /\ Oracle'
    BY TypeStep, LedgerStep, OracleStep
  <1>2. AtHand' /\ Verdicts'
    BY HandStep, RowsStep DEF HandOK, Verdicts
  <1> QED
    BY <1>1, <1>2 DEF IInv

\* The inductive invariant holds through every action, crash and resume.
THEOREM Invariance == Spec => []IInv
  BY InitInv, NextInv, PTL DEF Spec

\* Every variable keeps its type; what the tester reports is in MESA's ledger.
THEOREM TypeCorrect == Spec => []TypeOK
  BY Invariance, PTL DEF IInv

\* The oracle holds no write that MESA has not committed, for any number of writes,
\* failing calls and resumes.
THEOREM OracleIsDurable == Spec => []OracleOnlyCommitted
  <1>1. ASSUME IInv PROVE OracleOnlyCommitted
    <2>1. \A a \in Actions : InOracle(a) => Ended(a, {"COMMITTED"})
      BY <1>1 DEF IInv, Oracle
    <2> QED
      BY <2>1 DEF Ended, OracleOnlyCommitted, Key
  <1> QED
    BY <1>1, Invariance, PTL

\* However often a write is played again, it is applied to the oracle once.
THEOREM NoSecondEffect == Spec => []AppliedOnce
  <1>1. IInv => AppliedOnce
    BY DEF IInv, Oracle
  <1> QED
    BY <1>1, Invariance, PTL

\* An ended operation under a key is the only one there, so it has ended one way.
LEMMA EndsOneWay ==
  ASSUME OnePerKey, NEW a, NEW i \in OwnUnder(ops, <<a, 1>>), NEW j \in OwnUnder(ops, <<a, 1>>)
  PROVE  i = j
  BY DEF OnePerKey, OwnUnder

\* A row that passed a write is in the oracle, one that blames the candidate or the
\* policy is of a write that failed for good: no replay turns either around.
THEOREM RowsAreRight == Spec => []RowsAgree
  <1>1. ASSUME IInv PROVE RowsAgree
    <2> SUFFICES ASSUME NEW a \in DOMAIN rows
                 PROVE  /\ rows[a] = "PASS" => InOracle(a)
                        /\ rows[a] \in {"EXPECTED_POLICY", "CANDIDATE_ANOMALY"} =>
                             ~InOracle(a) /\ ops[Last(a)].status \in Failures
      BY DEF RowsAgree
    <2>1. /\ Confirmed(a, rows[a]) /\ a \in Actions /\ OnePerKey
          /\ InOracle(a) => Ended(a, {"COMMITTED"})
      BY <1>1 DEF IInv, Verdicts, TypeOK, LedgerOK, Oracle
    <2>2. ASSUME Ended(a, Failures)
          PROVE  ~InOracle(a) /\ ops[Last(a)].status \in Failures
      <3>1. PICK i \in OwnUnder(ops, <<a, 1>>) : ops[i].status \in Failures
        BY <2>2 DEF Ended
      <3>2. Last(a) = i
        BY <2>1, <3>1, EndsOneWay DEF Last, Key
      <3>3. ~Ended(a, {"COMMITTED"})
        BY <2>1, <3>1, EndsOneWay DEF Ended, Failures
      <3> QED
        BY <2>1, <3>1, <3>2, <3>3
    <2> QED
      BY <2>1, <2>2 DEF Confirmed
  <1> QED
    BY <1>1, Invariance, PTL

\* MESA commits a write at most once over its replays and its recheck: a second
\* submission either reuses the key or follows a failure.
THEOREM CommitsOnce == Spec => []CommittedOnce
  <1>1. ASSUME IInv PROVE CommittedOnce
    <2> SUFFICES ASSUME NEW i \in DOMAIN ops, NEW j \in DOMAIN ops,
                        ops[i].status = "COMMITTED", ops[j].status = "COMMITTED",
                        ops[i].key[1] = ops[j].key[1]
                 PROVE  i = j
      BY DEF CommittedOnce
    <2>1. LedgerOK
      BY <1>1 DEF IInv
    <2>2. ops[i].client = "qa" /\ ops[j].client = "qa"
      BY <2>1 DEF LedgerOK, OthersWait
    <2>3. ops[i].key \in Keys /\ ops[j].key \in Keys
      <3>1. ops[i] \in Operation /\ ops[j] \in Operation
        BY <2>1, LenProperties DEF LedgerOK
      <3> QED
        BY <3>1 DEF Operation
    <2>4. PICK a \in Actions : ops[i].key \in {<<a, 1>>, <<a, 2>>} /\ ops[j].key \in {<<a, 1>>, <<a, 2>>}
      BY <2>3 DEF Keys
    <2>5. \A l, m \in DOMAIN ops :
            /\ ops[l].client = "qa" /\ ops[l].status = "COMMITTED" /\ ops[l].key = <<a, 1>>
            /\ ops[m].client = "qa" /\ ops[m].key = <<a, 2>>
            => FALSE
      <3> SUFFICES ASSUME NEW l \in DOMAIN ops, NEW m \in DOMAIN ops,
                          ops[l].client = "qa", ops[l].status = "COMMITTED", ops[l].key = <<a, 1>>,
                          ops[m].client = "qa", ops[m].key = <<a, 2>>
                   PROVE  FALSE
        OBVIOUS
      <3>1. l \in OwnUnder(ops, <<a, 1>>) /\ m \in OwnUnder(ops, <<a, 2>>)
        BY DEF OwnUnder
      <3>2. Ended(a, Failures)
        BY <2>1, <3>1 DEF LedgerOK, SecondAfterFailure
      <3>3. PICK k \in OwnUnder(ops, <<a, 1>>) : ops[k].status \in Failures
        BY <3>2 DEF Ended
      <3>4. k = l
        BY <2>1, <3>1, <3>3, EndsOneWay DEF LedgerOK
      <3> QED
        BY <3>3, <3>4 DEF Failures
    <2>6. ops[i].key = ops[j].key
      BY <2>2, <2>4, <2>5
    <2> QED
      BY <2>1, <2>2, <2>6 DEF LedgerOK, OnePerKey
  <1> QED
    BY <1>1, Invariance, PTL

\* No step of any process approves an operation but the one submitted for the write
\* in hand, whatever the tester reports.
THEOREM ApprovalIsBound == Spec => ApprovesItsOwn
  <1>1. ASSUME IInv, [Next]_vars
        PROVE  [\A i \in DOMAIN ops :
                  ops[i].status = "PENDING_APPROVAL" /\ ops'[i].status = "APPROVED" =>
                    ops[i].client = "qa" /\ ops[i].key = <<n, 1>>]_vars
    <2> SUFFICES ASSUME NEW i \in DOMAIN ops,
                        ops[i].status = "PENDING_APPROVAL", ops'[i].status = "APPROVED"
                 PROVE  ops[i].client = "qa" /\ ops[i].key = <<n, 1>>
      OBVIOUS
    <2>1. ops \in Seq(Operation) /\ DOMAIN ops = 1..Len(ops) /\ Len(ops) \in Nat
      BY <1>1, LenProperties DEF IInv, LedgerOK
    <2>2. CASE ops' = ops
      BY <2>2
    <2>3. ASSUME NEW k \in Keys, Submits(k) PROVE FALSE
      <3>1. PICK s \in Intermediate : ops' = Append(ops, Op(k, s))
        BY <2>3 DEF Submits
      <3>2. Op(k, s) \in Operation
        BY <3>1 DEF Op, Operation, Statuses
      <3>3. ops'[i] = ops[i]
        BY <2>1, <3>1, <3>2, AppendProperties
      <3> QED
        BY <3>3
    <2>4. ASSUME NEW j, NEW s, MovesOn(j, s)
          PROVE  ops[i].client = "qa" /\ ops[i].key = <<n, 1>>
      <3>1. j \in DOMAIN ops /\ ops' = [ops EXCEPT ![j] = [ops[j] EXCEPT !.status = s]]
        BY <2>4 DEF MovesOn
      <3>2. i = j
        BY <3>1
      <3>3. ops'[i].status = s
        <4>1. ops[j] \in Operation
          BY <2>1, <3>1, LenProperties
        <4>2. [ops[j] EXCEPT !.status = s].status = s
          BY <4>1 DEF Operation
        <4> QED
          BY <3>1, <3>2, <4>2
      <3> QED
        BY <2>4, <3>2, <3>3 DEF MovesOn
    <2> QED
      BY <1>1, <2>2, <2>3, <2>4, LedgerKinds DEF IInv
  <1> QED
    BY <1>1, Invariance, PTL DEF Spec, ApprovesItsOwn
=============================================================================

------------------------- MODULE RepairPipelineProofs -------------------------
(***************************************************************************)
(* Theorems about RepairPipeline for every number of bugs, budget, limit   *)
(* of files and number of faults: what a repair commit has gone through,   *)
(* what VERIFIED says, and how the two records of a bug stay in step.      *)
(***************************************************************************)
EXTENDS RepairPipeline, NumberLemmas, FiniteSetTheorems, SequenceTheorems, TLAPS

(***************************************************************************)
(* The inductive invariant.                                                *)
(***************************************************************************)

\* A repair is under way, and has no entry in _repairs.
Open == {"prefix", "gate", "fix", "policy", "postfix", "paths", "targeted", "full",
         "commit", "restart", "live", "recordLive"}

\* It has one, and the bugs table is to follow or has followed.
Entered == {"record", "settle", "handlerRecord", "handlerSettle"}

\* There is a bug in hand, and a repair begins at most once for each.
InHand ==
  /\ pc \in Open \cup Entered \cup {"confirmed"} => bug \in Bugs
  /\ attempts <= bug
  /\ pc = "confirmed" => attempts < bug
  /\ pc = "recordLive" => verdict \in {"VERIFIED", "LIVE_REPRO_FAILED"}

\* Every repair but the one under way has an entry, so that their number bounds
\* the repairs.
Budgeted ==
  /\ attempts <= MaxRepairs
  /\ attempts <= Len(ledger) + 1
  /\ pc \in Entered \cup {"idle", "confirmed"} => attempts <= Len(ledger)

\* The bugs table follows _repairs, one bug at a time.
InStep ==
  /\ \A i \in 1..Len(ledger) :
       ledger[i].bug <= bug /\ (pc \in Open \cup {"confirmed"} => ledger[i].bug # bug)
  /\ \A b \in 1..bug :
       b # bug \/ pc \in Open \cup {"idle", "settle", "handlerSettle"}
         => table[b] = LastVerdict(b)
  /\ pc \in Entered => verdict = LastVerdict(bug)

\* What has been established of the tree, as far as the repair has come.
Established ==
  /\ pc \in {"gate", "fix", "policy", "postfix", "paths", "targeted", "full", "commit"} =>
       failedFirst
  /\ pc \in {"postfix", "paths", "targeted", "full", "commit"} =>
       tree = validated /\ Complies(tree)
  /\ pc \in {"paths", "targeted", "full", "commit"} => tree = tested
  /\ pc \in {"targeted", "full", "commit"} => tree = approved

\* The services run the commit of the bug in hand, and nothing besides.
PassOn(s, b) == s.head \in 1..Len(commits) /\ commits[s.head].bug = b /\ s.besides = {}

OnItsCommit ==
  /\ pc = "restart" => PassOn(Served, bug)
  /\ pc = "live" => PassOn(serving, bug)
  /\ pc = "recordLive" /\ verdict = "VERIFIED" => PassOn(passedOn[bug], bug)
  /\ pc \in {"record", "handlerRecord"} => verdict # "VERIFIED"

\* With test runs that leave no files the tree does not move while it is checked.
Checked == ~TestsWrite => /\ Established /\ OnItsCommit
                          /\ CommitIsWhatWasChecked /\ VerifiedOnItsCommit

IInv == TypeOK /\ InHand /\ Budgeted /\ InStep /\ Checked

-----------------------------------------------------------------------------
(***************************************************************************)
(* The last verdict on a bug.                                              *)
(***************************************************************************)

Entries == [bug : Bugs, status : Verdicts]

\* A bug without an entry is CONFIRMED.
LEMMA NoEntry ==
  ASSUME NEW b, \A i \in 1..Len(ledger) : ledger[i].bug # b
  PROVE  LastVerdict(b) = "CONFIRMED"
  BY DEF LastVerdict

\* An entry is the last verdict on its bug, and on no other.
LEMMA LastAppended ==
  ASSUME ledger \in Seq(Entries), bug \in Bugs, bug' = bug,
         NEW v \in Verdicts, ledger' = Append(ledger, Entry(v))
  PROVE  /\ ledger' \in Seq(Entries) /\ Len(ledger') = Len(ledger) + 1
         /\ \A i \in 1..Len(ledger) : ledger'[i] = ledger[i]
         /\ ledger'[Len(ledger) + 1].bug = bug
         /\ LastVerdict(bug)' = v
         /\ \A b : b # bug => LastVerdict(b)' = LastVerdict(b)
  <1> DEFINE n == Len(ledger) + 1
  <1>1. Entry(v) \in Entries
    BY DEF Entry, Entries
  <1>2. /\ Len(ledger) \in Nat
        /\ Append(ledger, Entry(v)) \in Seq(Entries)
        /\ Len(Append(ledger, Entry(v))) = Len(ledger) + 1
        /\ \A i \in 1..Len(ledger) : Append(ledger, Entry(v))[i] = ledger[i]
        /\ Append(ledger, Entry(v))[Len(ledger) + 1] = Entry(v)
    BY <1>1, AppendProperties, LenProperties
  <1>3. /\ ledger' \in Seq(Entries) /\ Len(ledger') = n /\ Len(ledger) \in Nat
        /\ \A i \in 1..Len(ledger) : ledger'[i] = ledger[i]
        /\ ledger'[n].bug = bug /\ ledger'[n].status = v
    BY <1>2 DEF Entry
  <1>4. LastVerdict(bug)' = v
    <2> DEFINE of == {i \in 1..n : ledger'[i].bug = bug}
    <2>1. n \in of /\ \A j \in of : j <= n
      BY <1>3
    <2>2. (CHOOSE i \in of : \A j \in of : j <= i) = n
      <3>1. \A i \in of : (\A j \in of : j <= i) => i = n
        BY <1>3, <2>1
      <3> QED
        BY <2>1, <3>1
    <2> HIDE DEF of
    <2>3. LastVerdict(bug)' = IF of = {} THEN "CONFIRMED"
                              ELSE ledger'[CHOOSE i \in of : \A j \in of : j <= i].status
      BY <1>3 DEF LastVerdict, of
    <2> QED
      BY <1>3, <2>1, <2>2, <2>3
  <1>5. ASSUME NEW b, b # bug PROVE LastVerdict(b)' = LastVerdict(b)
    <2> DEFINE of == {i \in 1..Len(ledger) : ledger[i].bug = b}
    <2>1. {i \in 1..Len(ledger') : ledger'[i].bug = b} = of
      BY <1>3, <1>5
    <2>2. CASE of = {}
      BY <2>1, <2>2 DEF LastVerdict
    <2>3. CASE of # {}
      <3> DEFINE last == CHOOSE i \in of : \A j \in of : j <= i
      <3>1. last \in 1..Len(ledger)
        <4>1. \E i \in of : \A j \in of : j <= i
          BY <1>3, <2>3, LargestNumber
        <4> QED
          BY <4>1
      <3>2. LastVerdict(b) = ledger[last].status
        BY <2>3 DEF LastVerdict
      <3>3. LastVerdict(b)' = ledger'[last].status
        BY <2>1, <2>3 DEF LastVerdict
      <3> HIDE DEF last
      <3> QED
        BY <1>3, <3>1, <3>2, <3>3
    <2> QED
      BY <2>2, <2>3
  <1> QED
    BY <1>3, <1>4, <1>5

\* Appending to a function on 1..m.
LEMMA FunctionAppended ==
  ASSUME NEW S, NEW m \in Nat, NEW f \in [1..m -> S], NEW x \in S
  PROVE  /\ Append(f, x) \in [1..(m + 1) -> S]
         /\ \A i \in 1..m : Append(f, x)[i] = f[i]
         /\ Append(f, x)[m + 1] = x
  <1>1. f \in Seq(S) /\ Len(f) = m
    OBVIOUS
  <1>2. /\ Append(f, x) \in Seq(S) /\ Len(Append(f, x)) = m + 1
        /\ \A i \in 1..m : Append(f, x)[i] = f[i]
        /\ Append(f, x)[m + 1] = x
    BY <1>1, AppendProperties
  <1>3. Append(f, x) \in [1..(m + 1) -> S]
    BY <1>2, LenProperties
  <1> QED
    BY <1>2, <1>3

-----------------------------------------------------------------------------
(***************************************************************************)
(* What the steps do to the records.                                       *)
(***************************************************************************)

\* The repair goes on, or there is no step of it.
Advances ==
  /\ UNCHANGED <<bug, table, ledger, attempts>>
  /\ \/ pc \in Open /\ pc' \in Open /\ pc' # "recordLive" /\ verdict' = verdict
     \/ pc = "live" /\ pc' = "recordLive" /\ verdict' \in {"VERIFIED", "LIVE_REPRO_FAILED"}
     \/ pc \in {"settle", "handlerSettle"} /\ pc' = "idle" /\ verdict' = verdict
     \/ pc' \in {"stopped", "failed"} /\ verdict' = verdict
     \/ pc' = pc /\ verdict' = verdict

\* A verdict enters _repairs.
Enters(v) ==
  /\ pc \in Open \cup Entered /\ pc' \in {"record", "handlerRecord"}
  /\ ledger' = Append(ledger, Entry(v)) /\ verdict' = v
  /\ UNCHANGED <<bug, table, attempts>>

LEMMA RecordKinds ==
  ASSUME [Next]_vars
  PROVE  \/ Advances \/ Confirm \/ Begin \/ Record
         \/ \E v \in Verdicts \ {"VERIFIED"} : Enters(v)
  <1> USE DEF Open, Entered, Verdicts, Frame
  <1>1. ASSUME NEW v \in Verdicts \ {"VERIFIED"}, Conclude(v), pc \in Open, Frame
        PROVE  \E w \in Verdicts \ {"VERIFIED"} : Enters(w)
    <2>1. Enters(v)
      BY <1>1 DEF Conclude, Appended, Enters
    <2> QED
      BY <2>1
  <1>2. CASE NoRegression
    BY <1>1, <1>2 DEF NoRegression
  <1>3. CASE PreFix
    BY <1>1, <1>3 DEF PreFix, GoOn, Advances
  <1>4. CASE Gate
    BY <1>1, <1>4 DEF Gate, GoOn, Advances
  <1>5. CASE Repair
    BY <1>1, <1>5 DEF Repair, GoOn, Advances
  <1>6. CASE Policy
    BY <1>1, <1>6 DEF Policy, GoOn, Advances
  <1>7. CASE PostFix
    BY <1>1, <1>7 DEF PostFix, GoOn, Advances
  <1>8. CASE Targeted \/ FullTests
    BY <1>1, <1>8 DEF Targeted, FullTests, GoOn, Advances
  <1>9. CASE Paths \/ Commit \/ Restart \/ LiveRecheck
    BY <1>9 DEF Paths, Commit, Restart, LiveRecheck, GoOn, Advances
  <1>10. CASE Raises
    <2>1. Enters("REPAIR_FAILED")
      BY <1>10 DEF Raises, Enters, InTry
    <2> QED
      BY <2>1
  <1>11. CASE Settle \/ RunFails \/ Stop \/ UNCHANGED vars
    BY <1>11 DEF Settle, RecordFrame, RunFails, Stop, Advances, vars
  <1> QED
    BY <1>2, <1>3, <1>4, <1>5, <1>6, <1>7, <1>8, <1>9, <1>10, <1>11 DEF Next, Over

RecordsOK ==
  /\ bug \in 0..MaxBugs
  /\ verdict \in Recorded
  /\ ledger \in Seq(Entries)
  /\ table \in [1..bug -> Recorded]
  /\ attempts \in 0..MaxBugs

RecordsInv == RecordsOK /\ InHand /\ Budgeted /\ InStep

\* A new bug gets a row of the table.
LEMMA TableAppended ==
  ASSUME bug \in Nat, table \in [1..bug -> Recorded]
  PROVE  /\ Append(table, "UNRECORDED") \in [1..(bug + 1) -> Recorded]
         /\ \A b \in 1..bug : Append(table, "UNRECORDED")[b] = table[b]
         /\ Append(table, "UNRECORDED")[bug + 1] = "UNRECORDED"
  <1>1. "UNRECORDED" \in Recorded
    BY DEF Recorded
  <1>2. table \in Seq(Recorded) /\ Len(table) = bug
    OBVIOUS
  <1>3. /\ Append(table, "UNRECORDED") \in Seq(Recorded)
        /\ Len(Append(table, "UNRECORDED")) = bug + 1
        /\ \A b \in 1..bug : Append(table, "UNRECORDED")[b] = table[b]
        /\ Append(table, "UNRECORDED")[bug + 1] = "UNRECORDED"
    BY <1>1, <1>2, AppendProperties
  <1>4. Append(table, "UNRECORDED") \in [1..(bug + 1) -> Recorded]
    BY <1>3, LenProperties
  <1> QED
    BY <1>3, <1>4

LEMMA RecordsStep == RecordsInv /\ [Next]_vars => RecordsInv'
  <1> SUFFICES ASSUME RecordsInv, [Next]_vars PROVE RecordsInv'
    OBVIOUS
  <1> USE RepairAssumption DEF RecordsInv, RecordsOK
  <1>0. Len(ledger) \in Nat /\ \A i \in 1..Len(ledger) : ledger[i].bug \in Bugs
    <2>1. Len(ledger) \in Nat /\ \A i \in 1..Len(ledger) : ledger[i] \in Entries
      BY LenProperties, ElementOfSeq
    <2> QED
      BY <2>1 DEF Entries
  <1>1. CASE Advances
    <2>1. UNCHANGED <<bug, table, ledger, attempts>>
      BY <1>1 DEF Advances
    <2>2. \A b : LastVerdict(b)' = LastVerdict(b)
      BY <2>1 DEF LastVerdict
    <2>3. RecordsOK'
      BY <1>1, <2>1 DEF Advances, Recorded, Verdicts
    <2>4. InHand' /\ Budgeted'
      BY <1>1, <2>1 DEF Advances, InHand, Budgeted, Open, Entered
    <2>5. InStep'
      BY <1>1, <2>1, <2>2 DEF Advances, InStep, Open, Entered
    <2> QED
      BY <2>3, <2>4, <2>5
  <1>2. CASE Confirm
    <2>1. /\ pc = "idle" /\ bug' = bug + 1 /\ bug' \in Bugs /\ bug' \in Nat /\ bug \in Nat
          /\ table' = Append(table, "UNRECORDED") /\ pc' = "confirmed"
          /\ UNCHANGED <<verdict, ledger, attempts>>
      BY <1>2 DEF Confirm, NextId, Bugs
    <2>2. table' \in [1..bug' -> Recorded] /\ \A b \in 1..bug : table'[b] = table[b]
      BY <2>1, TableAppended
    <2>3. \A b : LastVerdict(b)' = LastVerdict(b)
      BY <2>1 DEF LastVerdict
    <2>4. InHand' /\ Budgeted' /\ RecordsOK'
      BY <2>1, <2>2 DEF InHand, Budgeted, Open, Entered, Bugs
    <2>5. InStep'
      BY <1>0, <2>1, <2>2, <2>3 DEF InStep, Open, Entered, Bugs
    <2> QED
      BY <2>4, <2>5
  <1>3. CASE Begin
    <2>1. /\ pc = "confirmed" /\ verdict' = "CONFIRMED"
          /\ table' = [table EXCEPT ![bug] = "CONFIRMED"]
          /\ UNCHANGED <<bug, ledger>> /\ bug \in Bugs
          /\ \/ pc' = "prefix" /\ attempts' = attempts + 1 /\ Len(ledger) < MaxRepairs
             \/ pc' = "idle" /\ attempts' = attempts
      BY <1>3 DEF Begin, InHand
    <2>2. bug \in 1..bug
      BY <2>1 DEF Bugs
    <2>3. /\ table' \in [1..bug -> Recorded] /\ table'[bug] = "CONFIRMED"
          /\ \A b \in 1..bug : b # bug => table'[b] = table[b]
      BY <2>1, <2>2 DEF Recorded
    <2>4. LastVerdict(bug) = "CONFIRMED"
      BY <2>1, NoEntry DEF InStep
    <2>5. \A b : LastVerdict(b)' = LastVerdict(b)
      BY <2>1 DEF LastVerdict
    <2>6. InHand' /\ Budgeted' /\ RecordsOK'
      BY <1>0, <2>1, <2>3 DEF InHand, Budgeted, Open, Entered, Bugs, Recorded
    <2>7. InStep'
      BY <2>1, <2>3, <2>4, <2>5 DEF InStep, Open, Entered
    <2> QED
      BY <2>6, <2>7
  <1>4. CASE Record
    <2>1. /\ table' = [table EXCEPT ![bug] = verdict]
          /\ UNCHANGED <<bug, verdict, attempts>>
          /\ bug \in Bugs
          /\ \/ /\ pc \in {"record", "handlerRecord"} /\ pc' \in {"settle", "handlerSettle"}
                /\ ledger' = ledger
             \/ /\ pc = "recordLive" /\ pc' = "settle" /\ verdict \in Verdicts
                /\ ledger' = Append(ledger, Entry(verdict))
      BY <1>4 DEF Record, RecordedNow, RecordFrame, InHand, Open, Entered, Verdicts
    <2>2. bug \in 1..bug
      BY <2>1 DEF Bugs
    <2>3. /\ table' \in [1..bug -> Recorded] /\ table'[bug] = verdict
          /\ \A b \in 1..bug : b # bug => table'[b] = table[b]
      BY <2>1, <2>2
    <2>4. /\ ledger' \in Seq(Entries) /\ Len(ledger') >= Len(ledger)
          /\ pc = "recordLive" => Len(ledger') = Len(ledger) + 1
          /\ \A i \in 1..Len(ledger') : ledger'[i].bug <= bug
          /\ LastVerdict(bug)' = verdict
          /\ \A b : b # bug => LastVerdict(b)' = LastVerdict(b)
      <3>1. CASE ledger' = ledger /\ pc # "recordLive"
        <4>1. \A b : LastVerdict(b)' = LastVerdict(b)
          BY <2>1, <3>1 DEF LastVerdict
        <4> QED
          BY <1>0, <2>1, <3>1, <4>1 DEF InStep, Entered
      <3>2. CASE pc = "recordLive"
        <4>1. verdict \in Verdicts /\ ledger' = Append(ledger, Entry(verdict)) /\ bug' = bug
          BY <2>1, <3>2
        <4>2. /\ ledger' \in Seq(Entries) /\ Len(ledger') = Len(ledger) + 1
              /\ \A i \in 1..Len(ledger) : ledger'[i] = ledger[i]
              /\ ledger'[Len(ledger) + 1].bug = bug
              /\ LastVerdict(bug)' = verdict
              /\ \A b : b # bug => LastVerdict(b)' = LastVerdict(b)
          BY <2>1, <4>1, LastAppended
        <4>3. \A i \in 1..Len(ledger') : i \in 1..Len(ledger) \/ i = Len(ledger) + 1
          BY <1>0, <4>2
        <4> QED
          BY <1>0, <2>1, <4>2, <4>3 DEF InStep, Bugs
      <3> QED
        BY <2>1, <3>1, <3>2
    <2>5. InHand' /\ RecordsOK'
      BY <2>1, <2>3, <2>4 DEF InHand, Open, Entered
    <2>6. Budgeted'
      BY <1>0, <2>1, <2>4, LenProperties DEF Budgeted, Open, Entered
    <2>7. InStep'
      BY <2>1, <2>3, <2>4 DEF InStep, Open, Entered
    <2> QED
      BY <2>5, <2>6, <2>7
  <1>5. ASSUME NEW v \in Verdicts \ {"VERIFIED"}, Enters(v) PROVE RecordsInv'
    <2>1. /\ ledger' = Append(ledger, Entry(v)) /\ verdict' = v
          /\ UNCHANGED <<bug, table, attempts>>
          /\ bug \in Bugs /\ pc' \in {"record", "handlerRecord"} /\ v \in Verdicts
      BY <1>5 DEF Enters, InHand
    <2>2. /\ ledger' \in Seq(Entries) /\ Len(ledger') = Len(ledger) + 1
          /\ \A i \in 1..Len(ledger) : ledger'[i] = ledger[i]
          /\ ledger'[Len(ledger) + 1].bug = bug
          /\ LastVerdict(bug)' = v
          /\ \A b : b # bug => LastVerdict(b)' = LastVerdict(b)
      BY <2>1, LastAppended
    <2>3. \A i \in 1..Len(ledger') : ledger'[i].bug <= bug
      <3>1. \A i \in 1..Len(ledger') : i \in 1..Len(ledger) \/ i = Len(ledger) + 1
        BY <1>0, <2>2
      <3> QED
        BY <1>0, <2>1, <2>2, <3>1 DEF InStep, Bugs
    <2>4. InHand' /\ RecordsOK'
      BY <2>1, <2>2 DEF InHand, Open, Entered, Recorded
    <2>5. Budgeted'
      BY <1>0, <2>1, <2>2 DEF Budgeted, Entered
    <2>6. InStep'
      BY <2>1, <2>2, <2>3 DEF InStep, Open, Entered
    <2> QED
      BY <2>4, <2>5, <2>6
  <1> QED
    BY <1>1, <1>2, <1>3, <1>4, <1>5, RecordKinds

-----------------------------------------------------------------------------
(***************************************************************************)
(* What the steps do to the candidate.                                     *)
(***************************************************************************)

RepairCommit == [bug : Bugs, files : SUBSET Changes, failedFirst : BOOLEAN,
                 validated : SUBSET Changes, tested : SUBSET Changes]

Pass == [head : Nat, besides : SUBSET Changes]

TreeOK ==
  /\ tree \subseteq Changes /\ approved \subseteq Changes
  /\ commits \in Seq(RepairCommit)
  /\ serving \in Pass
  /\ passedOn \in [1..bug -> Pass \cup {NotServed}]
  /\ failedFirst \in BOOLEAN
  /\ validated \subseteq Changes /\ tested \subseteq Changes

HandOK == pc \in Positions /\ hasTest \in BOOLEAN /\ faults \in 0..MaxFaults

LEMMA TypeParts == TypeOK <=> RecordsOK /\ TreeOK /\ HandOK
  BY DEF TypeOK, RecordsOK, TreeOK, HandOK, Entries, RepairCommit, Pass

LEMMA HandStep == HandOK /\ [Next]_vars => HandOK'
  <1> SUFFICES ASSUME HandOK, [Next]_vars PROVE HandOK'
    OBVIOUS
  <1> USE RepairAssumption DEF HandOK, Positions, InTry, AtAwait, GoOn, Conclude, Frame, RecordFrame
  <1>1. CASE Confirm \/ Begin \/ NoRegression \/ PreFix \/ Gate \/ Repair \/ Policy \/ PostFix
    BY <1>1 DEF Confirm, Begin, NoRegression, PreFix, Gate, Repair, Policy, PostFix
  <1>2. CASE Paths \/ Targeted \/ FullTests \/ Commit \/ Restart \/ LiveRecheck
    BY <1>2 DEF Paths, Targeted, FullTests, Commit, Restart, LiveRecheck
  <1>3. CASE Record \/ Settle \/ Raises \/ RunFails \/ Stop \/ UNCHANGED vars
    BY <1>3 DEF Record, Settle, Raises, RunFails, Stop, vars
  <1> QED
    BY <1>1, <1>2, <1>3 DEF Next, Over

LEMMA TreeStep ==
  ASSUME TypeOK, InHand, [Next]_vars
  PROVE  TreeOK'
  <1> USE DEF established
  <1>0. TreeOK /\ bug \in 0..MaxBugs
    BY TypeParts DEF RecordsOK
  <1>1. \A k \in Kinds, b \in Bugs : <<k, b>> \in Changes
    BY DEF Changes
  <1>2. pc \in Open => AfterTests \subseteq SUBSET Changes
    BY <1>0, <1>1 DEF AfterTests, TreeOK, InHand, Kinds
  <1>3. ASSUME tree' \in SUBSET Changes,
               approved' \in {approved, tree},
               UNCHANGED <<bug, commits, serving, passedOn>>,
               failedFirst' \in BOOLEAN,
               validated' \in {validated, tree}, tested' \in {tested, tree}
        PROVE  TreeOK'
    BY <1>0, <1>3 DEF TreeOK
  <1>4. CASE PreFix \/ PostFix \/ Targeted \/ FullTests
    <2>1. pc \in Open /\ tree' \in AfterTests /\ approved' = approved
          /\ UNCHANGED <<bug, commits, serving, passedOn>>
          /\ failedFirst' \in {failedFirst} \cup BOOLEAN
          /\ validated' = validated /\ tested' \in {tested, tree}
      BY <1>4 DEF PreFix, PostFix, Targeted, FullTests, Open, Frame
    <2> QED
      BY <1>0, <1>2, <1>3, <2>1 DEF TreeOK
  <1>5. CASE Begin \/ NoRegression \/ Gate \/ Policy \/ Paths
    BY <1>0, <1>3, <1>5 DEF Begin, NoRegression, Gate, Policy, Paths, Frame, TreeOK
  <1>6. CASE Record \/ Settle \/ Raises \/ RunFails \/ Stop \/ UNCHANGED vars
    BY <1>0, <1>3, <1>6 DEF Record, Settle, Raises, RunFails, Stop, RecordFrame, vars, TreeOK
  <1>7. CASE Repair
    <2>1. tree' \in SUBSET Changes
      <3>1. PICK edits \in SUBSET {<<"fix", bug>>, <<"unsafe", bug>>}, undone \in SUBSET tree :
              tree' = (tree \ undone) \cup edits
        BY <1>7 DEF Repair
      <3>2. bug \in Bugs
        BY <1>7 DEF Repair, InHand, Open
      <3>3. <<"fix", bug>> \in Changes /\ <<"unsafe", bug>> \in Changes
        BY <1>1, <3>2 DEF Kinds
      <3> QED
        BY <1>0, <3>1, <3>3 DEF TreeOK
    <2> QED
      BY <1>0, <1>3, <1>7, <2>1 DEF Repair, Frame, TreeOK
  <1>8. CASE Commit
    <2>1. /\ commits' = Append(commits, [bug |-> bug, files |-> approved,
                                         failedFirst |-> failedFirst,
                                         validated |-> validated, tested |-> tested])
          /\ tree' = tree \ approved
          /\ UNCHANGED <<bug, approved, serving, passedOn, failedFirst, validated, tested>>
      BY <1>8 DEF Commit, Frame
    <2>2. [bug |-> bug, files |-> approved, failedFirst |-> failedFirst,
           validated |-> validated, tested |-> tested] \in RepairCommit
      BY <1>0, <1>8 DEF TreeOK, RepairCommit, InHand, Commit, Open
    <2>3. commits' \in Seq(RepairCommit)
      BY <1>0, <2>1, <2>2, AppendProperties DEF TreeOK
    <2> QED
      BY <1>0, <2>1, <2>3 DEF TreeOK
  <1>9. CASE Restart
    <2>1. Served \in Pass
      BY <1>0, LenProperties DEF Served, Pass, TreeOK
    <2> QED
      BY <1>0, <1>9, <2>1 DEF Restart, Frame, TreeOK
  <1>10. CASE LiveRecheck
    BY <1>0, <1>10 DEF LiveRecheck, TreeOK
  <1>11. CASE Confirm
    <2>1. /\ bug' = bug + 1 /\ bug' \in Bugs
          /\ \E files \in Materialized(bug', hasTest') : tree' = tree \cup files
          /\ passedOn' = Append(passedOn, NotServed)
          /\ failedFirst' = FALSE /\ validated' = {} /\ tested' = {} /\ approved' = {}
          /\ UNCHANGED <<commits, serving>>
      BY <1>0, <1>11, RepairAssumption DEF Confirm, NextId, Bugs
    <2>2. Materialized(bug', hasTest') \subseteq SUBSET Changes
      BY <1>1, <2>1 DEF Materialized, Kinds
    <2>3. passedOn' \in [1..bug' -> Pass \cup {NotServed}]
      <3>1. bug \in Nat /\ passedOn \in [1..bug -> Pass \cup {NotServed}]
        BY <1>0 DEF TreeOK
      <3>2. Append(passedOn, NotServed) \in [1..(bug + 1) -> Pass \cup {NotServed}]
        BY <3>1, FunctionAppended
      <3> QED
        BY <2>1, <3>2
    <2> QED
      BY <1>0, <2>1, <2>2, <2>3 DEF TreeOK
  <1> QED
    BY <1>4, <1>5, <1>6, <1>7, <1>8, <1>9, <1>10, <1>11 DEF Next, Over

-----------------------------------------------------------------------------
(***************************************************************************)
(* The tree does not move while it is checked.                             *)
(***************************************************************************)

\* A step that writes no commit, serves nothing new and gives no live verdict.
Bystander ==
  /\ UNCHANGED <<bug, commits, serving, passedOn>>
  /\ \/ UNCHANGED table
     \/ table' = [table EXCEPT ![bug] = verdict'] /\ verdict' # "VERIFIED"
  /\ pc' \notin {"restart", "live", "recordLive"} \/ UNCHANGED <<pc, tree, verdict>>
  /\ pc' \in {"record", "handlerRecord"} => verdict' # "VERIFIED"

LEMMA BystanderChecked ==
  ASSUME IInv, ~TestsWrite, Bystander
  PROVE  OnItsCommit' /\ CommitIsWhatWasChecked' /\ VerifiedOnItsCommit'
  <1>1. /\ OnItsCommit /\ CommitIsWhatWasChecked /\ VerifiedOnItsCommit
        /\ table \in [1..bug -> Recorded]
    BY DEF IInv, Checked, TypeOK
  <1>2. OnItsCommit'
    BY <1>1 DEF Bystander, OnItsCommit, PassOn, Served
  <1>3. CommitIsWhatWasChecked'
    BY <1>1 DEF Bystander, CommitIsWhatWasChecked, Complies
  <1>4. VerifiedOnItsCommit'
    <2> SUFFICES ASSUME NEW b \in 1..bug, table'[b] = "VERIFIED"
                 PROVE  PassOn(passedOn[b], b)
      BY DEF VerifiedOnItsCommit, Bystander, PassOn
    <2>1. table[b] = "VERIFIED"
      BY <1>1 DEF Bystander
    <2> QED
      BY <1>1, <2>1 DEF VerifiedOnItsCommit, PassOn
  <1> QED
    BY <1>2, <1>3, <1>4

LEMMA CheckedStep ==
  ASSUME IInv, ~TestsWrite, [Next]_vars
  PROVE  Established' /\ OnItsCommit' /\ CommitIsWhatWasChecked' /\ VerifiedOnItsCommit'
  <1> USE DEF established, Frame, RecordFrame, GoOn, Conclude
  <1>0. /\ Established /\ OnItsCommit /\ CommitIsWhatWasChecked /\ VerifiedOnItsCommit
        /\ TypeOK /\ InHand /\ TreeOK /\ table \in [1..bug -> Recorded] /\ bug \in 0..MaxBugs
    BY TypeParts DEF IInv, Checked, RecordsOK
  <1>1. AfterTests = {tree}
    BY DEF AfterTests
  <1>2. CASE NoRegression \/ PreFix \/ Gate \/ Repair \/ Policy \/ PostFix \/ Paths
             \/ Targeted \/ FullTests
    <2>1. Bystander
      BY <1>2 DEF NoRegression, PreFix, Gate, Repair, Policy, PostFix, Paths, Targeted,
                  FullTests, Bystander
    <2>2. Established'
      <3>1. CASE NoRegression \/ PreFix \/ Gate \/ Repair
        BY <1>0, <3>1 DEF NoRegression, PreFix, Gate, Repair, Established, Accepts
      <3>2. CASE Policy
        BY <1>0, <3>2 DEF Policy, Established, Complies
      <3>3. CASE PostFix \/ Paths \/ Targeted \/ FullTests
        BY <1>0, <1>1, <3>3 DEF PostFix, Paths, Targeted, FullTests, Established, Complies
      <3> QED
        BY <1>2, <3>1, <3>2, <3>3
    <2> QED
      BY <2>1, <2>2, BystanderChecked
  <1>3. CASE Begin \/ Settle \/ Raises \/ RunFails \/ Stop \/ UNCHANGED vars
    <2>1. Bystander
      BY <1>0, <1>3
        DEF Begin, Settle, Raises, RunFails, Stop, vars, Bystander, OnItsCommit
    <2>2. Established'
      BY <1>0, <1>3
        DEF Begin, Settle, Raises, RunFails, Stop, vars, Established, Complies
    <2> QED
      BY <2>1, <2>2, BystanderChecked
  <1>4. CASE Confirm
    <2>1. /\ bug' = bug + 1 /\ bug \in Nat /\ pc' = "confirmed"
          /\ table' = Append(table, "UNRECORDED")
          /\ passedOn' = Append(passedOn, NotServed)
          /\ UNCHANGED commits
      BY <1>0, <1>4, RepairAssumption DEF Confirm, NextId
    <2>2. /\ \A b \in 1..bug : table'[b] = table[b]
          /\ table'[bug + 1] = "UNRECORDED"
      BY <1>0, <2>1, TableAppended
    <2>3. \A b \in 1..bug : passedOn'[b] = passedOn[b]
      <3>1. \A b \in 1..bug : Append(passedOn, NotServed)[b] = passedOn[b]
        BY <1>0, <2>1, FunctionAppended DEF TreeOK
      <3> QED
        BY <2>1, <3>1
    <2>4. VerifiedOnItsCommit'
      <3> SUFFICES ASSUME NEW b \in 1..(bug + 1), table'[b] = "VERIFIED"
                   PROVE  PassOn(passedOn'[b], b)
        BY <2>1 DEF VerifiedOnItsCommit, PassOn
      <3>1. b # bug + 1
        BY <2>2
      <3>2. b \in 1..bug
        BY <2>1, <3>1
      <3> QED
        BY <1>0, <2>2, <2>3, <3>2 DEF VerifiedOnItsCommit, PassOn
    <2>5. CommitIsWhatWasChecked'
      BY <1>0, <2>1 DEF CommitIsWhatWasChecked, Complies
    <2> QED
      BY <2>1, <2>4, <2>5 DEF Established, OnItsCommit
  <1>5. CASE Commit
    <2> DEFINE n == Len(commits) + 1
               c == [bug |-> bug, files |-> approved, failedFirst |-> failedFirst,
                     validated |-> validated, tested |-> tested]
    <2>1. /\ pc = "commit" /\ pc' = "restart"
          /\ commits' = Append(commits, c) /\ tree' = tree \ approved
          /\ UNCHANGED <<bug, table, passedOn, verdict>>
      BY <1>5 DEF Commit
    <2>2. tree = approved /\ tree = validated /\ tree = tested /\ failedFirst /\ Complies(tree)
      BY <1>0, <2>1 DEF Established
    <2>3. c \in RepairCommit
      BY <1>0, <2>1 DEF RepairCommit, TreeOK, InHand, Open
    <2>4. /\ Len(commits) \in Nat /\ Len(commits') = n
          /\ \A i \in 1..Len(commits) : commits'[i] = commits[i]
          /\ commits'[n] = c
      BY <1>0, <2>1, <2>3, AppendProperties, LenProperties DEF TreeOK
    <2>5. /\ commits'[n].files = tree /\ commits'[n].validated = tree
          /\ commits'[n].tested = tree /\ commits'[n].failedFirst /\ commits'[n].bug = bug
      <3>1. /\ c.files = tree /\ c.validated = tree /\ c.tested = tree
            /\ c.failedFirst = failedFirst /\ c.bug = bug
        BY <2>2
      <3> HIDE DEF c, n
      <3> QED
        BY <2>2, <2>4, <3>1
    <2>6. \A i \in 1..Len(commits') : i \in 1..Len(commits) \/ i = n
      BY <2>4
    <2> HIDE DEF c, n
    <2>7. CommitIsWhatWasChecked'
      <3> SUFFICES ASSUME NEW i \in 1..Len(commits')
                   PROVE  /\ commits'[i].files = commits'[i].validated
                          /\ commits'[i].files = commits'[i].tested
                          /\ commits'[i].failedFirst /\ Complies(commits'[i].files)
        BY DEF CommitIsWhatWasChecked, Complies
      <3>1. CASE i \in 1..Len(commits)
        BY <1>0, <2>4, <3>1 DEF CommitIsWhatWasChecked
      <3>2. CASE i = n
        BY <2>2, <2>5, <3>2
      <3> QED
        BY <2>6, <3>1, <3>2
    <2>8. VerifiedOnItsCommit'
      <3>1. \A s, b : PassOn(s, b) => PassOn(s, b)'
        BY <2>4 DEF PassOn, n
      <3> QED
        BY <1>0, <2>1, <2>4 DEF VerifiedOnItsCommit, n
    <2>9. PassOn(Served, bug)'
      <3>1. tree' = {}
        BY <2>1, <2>2
      <3> QED
        BY <2>1, <2>4, <2>5, <3>1 DEF PassOn, Served, n
    <2> QED
      BY <2>1, <2>7, <2>8, <2>9 DEF Established, OnItsCommit
  <1>6. CASE Restart
    <2>1. PassOn(serving', bug)
      BY <1>0, <1>6 DEF Restart, OnItsCommit
    <2> QED
      BY <1>0, <1>6, <2>1
        DEF Restart, Established, OnItsCommit, PassOn, CommitIsWhatWasChecked, Complies,
            VerifiedOnItsCommit
  <1>7. CASE LiveRecheck
    <2>1. /\ pc = "live" /\ pc' = "recordLive" /\ PassOn(serving, bug)
          /\ UNCHANGED <<bug, table, commits>>
          /\ \/ verdict' = "VERIFIED" /\ passedOn' = [passedOn EXCEPT ![bug] = serving]
             \/ verdict' # "VERIFIED" /\ passedOn' = passedOn
      BY <1>0, <1>7 DEF LiveRecheck, OnItsCommit
    <2>2. bug \in 1..bug
      BY <1>0, <2>1 DEF InHand, Open, Bugs
    <2>3. /\ \A b \in 1..bug : b # bug => passedOn'[b] = passedOn[b]
          /\ verdict' = "VERIFIED" => passedOn'[bug] = serving
          /\ passedOn'[bug] \in {serving, passedOn[bug]}
      BY <1>0, <2>1, <2>2 DEF TreeOK
    <2>4. VerifiedOnItsCommit'
      <3> SUFFICES ASSUME NEW b \in 1..bug, table[b] = "VERIFIED"
                   PROVE  PassOn(passedOn'[b], b)
        BY <2>1 DEF VerifiedOnItsCommit, PassOn
      <3>1. PassOn(passedOn[b], b)
        BY <1>0 DEF VerifiedOnItsCommit, PassOn
      <3> QED
        BY <2>1, <2>3, <3>1
    <2>5. OnItsCommit'
      BY <2>1, <2>3 DEF OnItsCommit, PassOn
    <2>6. CommitIsWhatWasChecked'
      BY <1>0, <2>1 DEF CommitIsWhatWasChecked, Complies
    <2> QED
      BY <2>1, <2>4, <2>5, <2>6 DEF Established
  <1>8. CASE Record
    <2>1. /\ table' = [table EXCEPT ![bug] = verdict]
          /\ pc \in {"record", "recordLive", "handlerRecord"}
          /\ pc' \in {"settle", "handlerSettle"}
          /\ UNCHANGED <<bug, verdict, tree, approved, commits, serving, passedOn>>
          /\ UNCHANGED <<failedFirst, validated, tested>>
      BY <1>8 DEF Record, RecordedNow
    <2>2. verdict = "VERIFIED" => PassOn(passedOn[bug], bug)
      BY <1>0, <2>1 DEF OnItsCommit
    <2>3. VerifiedOnItsCommit'
      <3> SUFFICES ASSUME NEW b \in 1..bug, table'[b] = "VERIFIED"
                   PROVE  PassOn(passedOn[b], b)
        BY <2>1 DEF VerifiedOnItsCommit, PassOn
      <3>1. table[b] = "VERIFIED" \/ (b = bug /\ verdict = "VERIFIED")
        BY <1>0, <2>1
      <3> QED
        BY <1>0, <2>2, <3>1 DEF VerifiedOnItsCommit, PassOn
    <2>4. CommitIsWhatWasChecked'
      BY <1>0, <2>1 DEF CommitIsWhatWasChecked, Complies
    <2> QED
      BY <2>1, <2>3, <2>4 DEF Established, OnItsCommit
  <1> QED
    BY <1>2, <1>3, <1>4, <1>5, <1>6, <1>7, <1>8 DEF Next, Over

-----------------------------------------------------------------------------
(***************************************************************************)
(* The theorems.                                                           *)
(***************************************************************************)

LEMMA InitInv == Init => IInv
  <1> SUFFICES ASSUME Init PROVE IInv
    OBVIOUS
  <1>0. 0 \in 0..MaxFaults
    BY RepairAssumption
  <1> USE RepairAssumption DEF Init
  <1>1. /\ ledger \in Seq(Entries) /\ Len(ledger) = 0
        /\ commits \in Seq(RepairCommit) /\ Len(commits) = 0
    OBVIOUS
  <1>2. /\ table \in [1..bug -> Recorded]
        /\ passedOn \in [1..bug -> Pass \cup {NotServed}]
    <2>1. \A i : i \notin 1..0
      OBVIOUS
    <2>2. << >> \in [1..0 -> Recorded] /\ << >> \in [1..0 -> Pass \cup {NotServed}]
      BY <2>1
    <2> QED
      BY <2>2
  <1>3. TypeOK
    <2>1. RecordsOK
      BY <1>1, <1>2 DEF RecordsOK, Recorded
    <2>2. TreeOK
      <3>1. serving \in Pass
        BY DEF Pass
      <3> QED
        BY <1>1, <1>2, <3>1 DEF TreeOK
    <2>3. HandOK
      <3>1. pc \in Positions
        BY Zenon DEF Positions, AtAwait
      <3>2. hasTest \in BOOLEAN /\ faults \in 0..MaxFaults
        BY <1>0, Zenon
      <3> QED
        BY <3>1, <3>2, Zenon DEF HandOK
    <2> QED
      BY <2>1, <2>2, <2>3, TypeParts
  <1>4. InHand /\ Budgeted
    BY <1>1 DEF InHand, Budgeted, Open, Entered
  <1>5. InStep
    BY <1>1 DEF InStep, Open, Entered
  <1>6. Checked
    BY <1>1 DEF Checked, Established, OnItsCommit, CommitIsWhatWasChecked, VerifiedOnItsCommit
  <1> QED
    BY <1>3, <1>4, <1>5, <1>6 DEF IInv

LEMMA NextInv == IInv /\ [Next]_vars => IInv'
  <1> SUFFICES ASSUME IInv, [Next]_vars PROVE IInv'
    OBVIOUS
  <1>1. TypeOK /\ InHand /\ Budgeted /\ InStep
    BY DEF IInv
  <1>2. RecordsOK /\ TreeOK /\ HandOK
    BY <1>1, TypeParts
  <1>3. RecordsOK' /\ InHand' /\ Budgeted' /\ InStep'
    <2>1. RecordsInv'
      BY <1>1, <1>2, RecordsStep DEF RecordsInv
    <2> QED
      BY <2>1 DEF RecordsInv
  <1>4. TypeOK'
    <2>1. TreeOK' /\ HandOK'
      BY <1>1, <1>2, TreeStep, HandStep
    <2>2. (TypeOK <=> RecordsOK /\ TreeOK /\ HandOK)'
      BY TypeParts, PTL
    <2> QED
      BY <1>3, <2>1, <2>2
  <1>5. Checked'
    BY CheckedStep DEF Checked
  <1> QED
    BY <1>3, <1>4, <1>5 DEF IInv

\* The inductive invariant holds throughout the repairs of a run.
THEOREM Invariance == Spec => []IInv
  BY InitInv, NextInv, PTL DEF Spec

\* Every variable of the pipeline keeps its type: there is one row in the bugs
\* table for every bug, and _repairs names bugs that were confirmed.
THEOREM TypeCorrect == Spec => []TypeOK
  BY Invariance, PTL DEF IInv

\* max_repairs_per_run bounds the repairs begun for every budget and number of
\* bugs: each has left its entry in _repairs by the time the next is considered.
THEOREM BudgetIsRespected == Spec => []BudgetRespected
  <1>1. IInv => BudgetRespected
    BY DEF IInv, Budgeted, BudgetRespected
  <1> QED
    BY <1>1, Invariance, PTL

\* Between actions the bugs table and _repairs agree on every bug, although the
\* live recheck is entered after it is recorded and every other verdict before.
THEOREM RecordsAgree == Spec => []LedgerMatchesTable
  <1>1. IInv => LedgerMatchesTable
    BY DEF IInv, InStep, LedgerMatchesTable
  <1> QED
    BY <1>1, Invariance, PTL

\* Where test runs leave no files, a commit is to the file what the policy and
\* the regression test accepted, for every limit of files.
THEOREM CommitsWereChecked ==
  ASSUME ~TestsWrite
  PROVE  Spec => []CommitIsWhatWasChecked
  <1>1. IInv => CommitIsWhatWasChecked
    BY DEF IInv, Checked
  <1> QED
    BY <1>1, Invariance, PTL

\* Where test runs leave no files, VERIFIED says that the event passed on
\* services that ran the bug's own commit and nothing besides.
THEOREM VerifiedRanItsCommit ==
  ASSUME ~TestsWrite
  PROVE  Spec => []VerifiedOnItsCommit
  <1>1. IInv => VerifiedOnItsCommit
    BY DEF IInv, Checked
  <1> QED
    BY <1>1, Invariance, PTL

-----------------------------------------------------------------------------
(***************************************************************************)
(* A tree the policy objects to.                                           *)
(***************************************************************************)

LEMMA ChangesFinite == IsFiniteSet(Changes)
  <1>1. IsFiniteSet(Bugs)
    BY RepairAssumption, FS_Interval DEF Bugs
  <1>2. IsFiniteSet(Kinds)
    <2>1. Kinds = {} \cup {"spec"} \cup {"test"} \cup {"fix"} \cup {"unsafe"} \cup {"left"}
      BY DEF Kinds
    <2> QED
      BY <2>1, FS_EmptySet, FS_AddElement
  <1> QED
    BY <1>1, <1>2, FS_Product DEF Changes

\* What the policy objects to it objects to all the more when there is more.
LEMMA GrowingDoesNotHelp ==
  ASSUME NEW S, NEW T \in SUBSET Changes, S \subseteq T, Complies(T)
  PROVE  Complies(S)
  <1>1. IsFiniteSet(T)
    BY ChangesFinite, FS_Subset
  <1>2. Cardinality(S) \in Nat /\ Cardinality(T) \in Nat /\ Cardinality(S) <= Cardinality(T)
    BY <1>1, FS_Subset, FS_CardinalityType
  <1> QED
    BY <1>2, RepairAssumption DEF Complies

\* The candidate is locked with n repairs committed.
Locked(n) ==
  /\ ~Complies(tree) /\ Len(commits) = n
  /\ pc \in {"idle", "confirmed", "prefix", "gate", "record", "settle",
             "handlerRecord", "handlerSettle", "stopped", "failed"}

LEMMA LockHolds ==
  ASSUME NEW n, IInv, Locked(n), [Next]_vars
  PROVE  Locked(n)'
  <1> USE DEF Frame, RecordFrame, GoOn, Conclude
  <1>0. TypeOK /\ InHand /\ TreeOK
    BY TypeParts DEF IInv
  <1>1. TreeOK'
    BY <1>0, TreeStep
  <1>2. /\ tree \subseteq tree' /\ commits' = commits
        /\ pc' \in {"idle", "confirmed", "prefix", "gate", "record", "settle",
                    "handlerRecord", "handlerSettle", "stopped", "failed"}
    <2>1. CASE PreFix \/ Confirm
      BY <2>1 DEF PreFix, Confirm, AfterTests
    <2>2. CASE Begin \/ NoRegression \/ Gate
      BY <2>2 DEF Begin, NoRegression, Gate, Passes, Locked
    <2>3. CASE Record \/ Settle \/ Raises \/ RunFails \/ Stop \/ UNCHANGED vars
      BY <2>3 DEF Record, Settle, Raises, RunFails, Stop, vars, Locked
    <2>4. CASE Repair \/ Policy \/ PostFix \/ Paths \/ Targeted \/ FullTests \/ Commit
               \/ Restart \/ LiveRecheck
      BY <2>4 DEF Repair, Policy, PostFix, Paths, Targeted, FullTests, Commit, Restart,
                  LiveRecheck, Locked
    <2> QED
      BY <2>1, <2>2, <2>3, <2>4 DEF Next, Over
  <1>3. ~Complies(tree')
    BY <1>1, <1>2, GrowingDoesNotHelp DEF Locked, TreeOK
  <1>4. ~Complies(tree)'
    BY <1>3 DEF Complies
  <1> QED
    BY <1>2, <1>4 DEF Locked

\* Whatever the tests, the repairer and the policy do: once a tree the policy
\* objects to is left between two actions, no repair is committed any more.
THEOREM LockIsForGood == Spec => LockedForGood
  <1> SUFFICES ASSUME NEW n \in 0..MaxBugs
               PROVE  Spec => [](pc = "idle" /\ ~Complies(tree) /\ Len(commits) = n
                                   => [](Len(commits) = n))
    BY DEF LockedForGood
  <1>1. pc = "idle" /\ ~Complies(tree) /\ Len(commits) = n => Locked(n)
    BY DEF Locked
  <1>2. IInv /\ Locked(n) /\ [Next]_vars => Locked(n)'
    BY LockHolds
  <1>3. Locked(n) => Len(commits) = n
    BY DEF Locked
  <1> QED
    BY <1>1, <1>2, <1>3, Invariance, PTL DEF Spec
=============================================================================

----------------------------- MODULE OracleFacts -----------------------------
(***************************************************************************)
(* The oracle of oracle/db.py under the scenario engine of                 *)
(* scenario/engine.py: a suite of events played epoch after epoch, of      *)
(* which the writes MESA committed are applied to the facts, and what the  *)
(* reads of the judge make of them.  A write may also be given up and      *)
(* commit at MESA afterwards; the facts learn of it only if a resumed run  *)
(* plays its event again.                                                  *)
(*                                                                         *)
(* apply_event is one transaction, and one step here.  A field stands for  *)
(* an entity with one of its fields.  The order of facts is the order of   *)
(* valid_from, which holds while the clock never steps back.               *)
(***************************************************************************)
EXTENDS Naturals, Sequences, FiniteSets

CONSTANTS
  Fields, Values,
  NoValue,      \* null
  Unknown, Forgotten,
  Suites,       \* the suites an operator may load
  MaxEpochs,
  MaxRewinds,   \* how often a resumed run plays events again
  MaxLate       \* how many writes commit after they were given up

WriteKinds == {"remember", "correct", "multi_fact", "forget"}

\* An event that writes values to fields; the others touch no table of the oracle.
\* duplicate, semantic_duplicate and idempotency are applied like remember,
\* conflict like correct.  Only a multi_fact names several fields, and only a forget
\* no value.
IsEvent(e) ==
  /\ e.kind \in WriteKinds
  /\ DOMAIN e.what \subseteq Fields /\ IsFiniteSet(DOMAIN e.what)
  /\ e.kind # "multi_fact" => \E f \in Fields : DOMAIN e.what = {f}
  /\ \A f \in DOMAIN e.what :
       IF e.kind = "forget" THEN e.what[f] = NoValue ELSE e.what[f] \in Values

IsSuite(s) ==
  /\ Len(s) \in Nat /\ DOMAIN s = 1..Len(s)
  /\ \A i \in DOMAIN s : IsEvent(s[i])

ASSUME OracleAssumption ==
  /\ NoValue \notin Values /\ Unknown \notin Values /\ Forgotten \notin Values
  /\ Unknown # Forgotten
  /\ MaxEpochs \in Nat \ {0} /\ MaxRewinds \in Nat /\ MaxLate \in Nat
  /\ \A s \in Suites : IsSuite(s)

VARIABLES
  suite,      \* the events loaded
  cursor, epoch,
  facts,      \* the table facts, by valid_from
  history,    \* the table fact_history
  events,     \* the table events: the ids applied
  mesa,       \* the plays MESA committed, in its order: epoch and position
  late,       \* those it committed after the run had given them up
  rewinds

tables == <<facts, history, events>>
vars == <<suite, cursor, epoch, tables, mesa, late, rewinds>>

Committed == {mesa[i] : i \in DOMAIN mesa}
Plays == (0..(MaxEpochs - 1)) \X (1..Len(suite))
Rows(f) == {j \in DOMAIN history : history[j].field = f}

TypeOK ==
  /\ suite \in Suites
  /\ cursor \in 0..Len(suite) /\ epoch \in 0..(MaxEpochs - 1)
  /\ facts \in Seq([field : Fields, value : Values,
                    status : {"CURRENT", "HISTORICAL", "FORGOTTEN"}])
  /\ history \in Seq([field : Fields, value : Values \cup {NoValue},
                      action : WriteKinds, event : Plays])
  /\ \A j \in DOMAIN history : history[j].action = "forget" <=> history[j].value = NoValue
  /\ events \subseteq Plays
  /\ mesa \in Seq(Plays) /\ Len(mesa) = Cardinality(Committed)
  /\ late \subseteq Committed
  /\ rewinds \in 0..MaxRewinds

Init ==
  /\ suite \in Suites
  /\ cursor = 0 /\ epoch = 0
  /\ facts = <<>> /\ history = <<>> /\ events = {}
  /\ mesa = <<>> /\ late = {} /\ rewinds = 0

-----------------------------------------------------------------------------
(* The reads of the judge.                                                 *)

Current(f) == {i \in DOMAIN facts : facts[i].field = f /\ facts[i].status = "CURRENT"}

OldestFact(f) ==      \* variant: valid_from in ascending order
  IF Current(f) = {} THEN NoValue
  ELSE facts[CHOOSE i \in Current(f) : \A j \in Current(f) : i <= j].value

\* get_current_fact: the latest of the current facts.
CurrentFact(f) ==
  IF Current(f) = {} THEN NoValue
  ELSE facts[CHOOSE i \in Current(f) : \A j \in Current(f) : j <= i].value

\* is_forgotten: no current fact, and the last thing that happened is a FORGET.
IsForgotten(f) ==
  /\ Current(f) = {}
  /\ \E j \in Rows(f) : history[j].action = "forget" /\ \A k \in Rows(f) : k <= j

\* The values a forgotten recall must not bring back: get_fact_history without nulls.
ForbiddenValues(f) == {history[j].value : j \in Rows(f)} \ {NoValue}

-----------------------------------------------------------------------------
(* apply_event.                                                            *)

AsCurrent(f, v) == [field |-> f, value |-> v, status |-> "CURRENT"]

\* The fields of an event in the order of its value.
InOrder(fs) == CHOOSE s \in [1..Cardinality(fs) -> fs] : \A f \in fs : \E i \in DOMAIN s : s[i] = f

FactsOf(what) == LET fs == InOrder(DOMAIN what)
                 IN  [i \in DOMAIN fs |-> AsCurrent(fs[i], what[fs[i]])]

\* The facts with the current ones of the fields given the status.
Closed(fs, status) ==
  [i \in DOMAIN facts |->
     IF facts[i].field \in fs /\ facts[i].status = "CURRENT"
     THEN [facts[i] EXCEPT !.status = status] ELSE facts[i]]

\* remember, duplicate, semantic_duplicate, idempotency: what is current stays.
Remembered(what) ==
  IF \E f \in DOMAIN what : Current(f) # {} THEN facts ELSE facts \o FactsOf(what)

FactsAfter(e) ==
  CASE e.kind = "remember"   -> Remembered(e.what)
    [] e.kind = "correct"    -> Closed(DOMAIN e.what, "HISTORICAL") \o FactsOf(e.what)
    [] e.kind = "multi_fact" -> facts \o FactsOf(e.what)
    [] e.kind = "forget"     -> Closed(DOMAIN e.what, "FORGOTTEN")

NoRow(e, id) ==      \* variant: what was corrected leaves no trace
  IF e.kind = "correct" THEN <<>>
  ELSE LET fs == InOrder(DOMAIN e.what)
       IN  [i \in DOMAIN fs |-> [field |-> fs[i], value |-> e.what[fs[i]],
                                 action |-> e.kind, event |-> id]]

ValueRows(e, id) ==      \* variant: a forget is logged like any other write
  LET fs == InOrder(DOMAIN e.what)
      v  == CHOOSE w \in Values : TRUE
  IN  [i \in DOMAIN fs |-> [field |-> fs[i], action |-> e.kind, event |-> id,
                            value |-> IF e.kind = "forget" THEN v ELSE e.what[fs[i]]]]

\* One row of history for each field, whatever became of the facts.
HistoryRows(e, id) ==
  LET fs == InOrder(DOMAIN e.what)
  IN  [i \in DOMAIN fs |-> [field |-> fs[i], value |-> e.what[fs[i]],
                            action |-> e.kind, event |-> id]]

ApplyAgain(e, id) ==      \* variant: no durable marker
  /\ facts' = FactsAfter(e)
  /\ history' = history \o HistoryRows(e, id)
  /\ events' = events \cup {id}

ApplyEvent(e, id) ==
  IF id \in events THEN UNCHANGED tables
  ELSE /\ facts' = FactsAfter(e)
       /\ history' = history \o HistoryRows(e, id)
       /\ events' = events \cup {id}

-----------------------------------------------------------------------------
(* The scenario engine and the run loop around it.                         *)

\* The id of the event at a position: in a later epoch it carries the epoch.
RuntimeId(i) == <<epoch, i>>

\* MESA commits a play; one it committed before it answers from its ledger.
Commits(p) == mesa' = IF p \in Committed THEN mesa ELSE Append(mesa, p)

\* next_event, of a write MESA commits in time: it is applied.
Play ==
  /\ cursor < Len(suite)
  /\ cursor' = cursor + 1
  /\ Commits(<<epoch, cursor'>>)
  /\ ApplyEvent(suite[cursor'], RuntimeId(cursor'))
  /\ UNCHANGED <<suite, epoch, late, rewinds>>

\* next_event, of a write that is refused, fails or runs into its timeout.
GiveUp ==
  /\ cursor < Len(suite)
  /\ cursor' = cursor + 1
  /\ UNCHANGED <<suite, epoch, tables, mesa, late, rewinds>>

\* next_event, of a write that runs into its timeout and commits before the next one.
\* After the last resume it could not be told from one given up.
CommitLate ==
  /\ cursor < Len(suite)
  /\ Cardinality(late) < MaxLate /\ rewinds < MaxRewinds
  /\ <<epoch, cursor + 1>> \notin Committed
  /\ cursor' = cursor + 1
  /\ Commits(<<epoch, cursor'>>)
  /\ late' = late \cup {<<epoch, cursor'>>}
  /\ UNCHANGED <<suite, epoch, tables, rewinds>>

\* run_loop at the end of the suite.
NextEpoch ==
  /\ cursor = Len(suite) /\ epoch < MaxEpochs - 1
  /\ cursor' = 0 /\ epoch' = epoch + 1
  /\ UNCHANGED <<suite, tables, mesa, late, rewinds>>

\* A crash, and a resume at an epoch and a cursor saved before: of this epoch or of an
\* earlier one, since run_loop saves nothing when it begins an epoch.
Rewind ==
  /\ rewinds < MaxRewinds
  /\ rewinds' = rewinds + 1
  /\ \/ epoch' = epoch /\ cursor' \in 0..(cursor - 1)
     \/ epoch' \in 0..(epoch - 1) /\ cursor' \in 0..Len(suite)
  /\ UNCHANGED <<suite, tables, mesa, late>>

Done ==
  /\ cursor = Len(suite) /\ epoch = MaxEpochs - 1
  /\ UNCHANGED vars

Next == Play \/ GiveUp \/ CommitLate \/ NextEpoch \/ Rewind \/ Done

Spec == Init /\ [][Next]_vars

-----------------------------------------------------------------------------
(* Properties.                                                             *)

\* Every write MESA committed in time is in the oracle, with exactly one row of history
\* per field, and nothing MESA did not commit is: an event played again adds nothing,
\* the same template in a later epoch is another event.  The oracle took the writes in
\* MESA's order; only one committed late may be behind writes MESA committed after it.
OncePerCommit ==
  /\ Committed \ late \subseteq events /\ events \subseteq Committed
  /\ \A p \in Plays, f \in Fields :
       Cardinality({j \in Rows(f) : history[j].event = p})
         = IF p \in events /\ f \in DOMAIN suite[p[2]].what THEN 1 ELSE 0
  /\ \A l \in DOMAIN mesa, i \in DOMAIN history : history[i].event = mesa[l] =>
       \A k \in 1..(l - 1) :
         (\E j \in DOMAIN history : i < j /\ history[j].event = mesa[k]) => mesa[k] \in late

\* The forgotten recall of the judge is sound: a forgotten field has no current fact,
\* and no value the facts ever held for it is missing from the values it forbids.
ForgottenIsForbidden ==
  \A f \in Fields : IsForgotten(f) =>
    /\ CurrentFact(f) = NoValue
    /\ {facts[i].value : i \in {j \in DOMAIN facts : facts[j].field = f}} \subseteq ForbiddenValues(f)

\* The tables implement the ground truth: the judge reads the latest correction, the
\* first of several remembers, and forgets with FORGET until told anew.
Truth == INSTANCE GroundTruth WITH
  truth <- [f \in Fields |-> IF Current(f) # {} THEN CurrentFact(f)
                             ELSE IF IsForgotten(f) THEN Forgotten ELSE Unknown],
  told  <- [f \in Fields |-> ForbiddenValues(f)]

ImplementsTruth == Truth!Spec
=============================================================================

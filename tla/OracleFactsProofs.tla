-------------------------- MODULE OracleFactsProofs --------------------------
(***************************************************************************)
(* Theorems about OracleFacts for every set of fields, values and suites,  *)
(* and any number of epochs, resumes and late commits: that the oracle     *)
(* takes in each committed write once and in MESA's order, what its reads  *)
(* forbid, and that its tables implement GroundTruth.                      *)
(***************************************************************************)
EXTENDS OracleFacts, NumberLemmas, FiniteSetTheorems, SequenceTheorems, TLAPS

(***************************************************************************)
(* The inductive invariant.                                                *)
(***************************************************************************)

\* MESA commits a play once.
CommittedInOrder ==
  /\ \A i, j \in DOMAIN mesa : mesa[i] = mesa[j] => i = j
  /\ IsFiniteSet(Committed)

AppliedIsCommitted == Committed \ late \subseteq events /\ events \subseteq Committed

\* The rows of history are those of the events applied: one for each field.
RowsOfEvents ==
  /\ \A j \in DOMAIN history : history[j].event \in events
  /\ \A i, j \in DOMAIN history :
       history[i].event = history[j].event /\ history[i].field = history[j].field => i = j
  /\ \A p \in Plays, f \in Fields :
       (\E j \in Rows(f) : history[j].event = p) <=> p \in events /\ f \in DOMAIN suite[p[2]].what

\* The oracle is behind MESA only with what was committed late.
InMesaOrder ==
  \A l \in DOMAIN mesa, i \in DOMAIN history : history[i].event = mesa[l] =>
    \A k \in 1..(l - 1) :
      (\E j \in DOMAIN history : i < j /\ history[j].event = mesa[k]) => mesa[k] \in late

\* Every fact was told.
FactsWereTold ==
  \A i \in DOMAIN facts : \E j \in Rows(facts[i].field) : history[j].value = facts[i].value

IInv == TypeOK /\ CommittedInOrder /\ AppliedIsCommitted /\ RowsOfEvents /\ InMesaOrder /\ FactsWereTold

-----------------------------------------------------------------------------
(***************************************************************************)
(* What apply_event adds to the tables.                                    *)
(***************************************************************************)

Fact == [field : Fields, value : Values, status : {"CURRENT", "HISTORICAL", "FORGOTTEN"}]
Row  == [field : Fields, value : Values \cup {NoValue}, action : WriteKinds, event : Plays]

\* The order of the fields names each of them once.
LEMMA InOrderOnce ==
  ASSUME NEW D, IsFiniteSet(D)
  PROVE  /\ Cardinality(D) \in Nat
         /\ InOrder(D) \in [1..Cardinality(D) -> D] /\ DOMAIN InOrder(D) = 1..Cardinality(D)
         /\ \A f \in D : \E i \in 1..Cardinality(D) : InOrder(D)[i] = f
         /\ \A i, j \in 1..Cardinality(D) : InOrder(D)[i] = InOrder(D)[j] => i = j
  <1> DEFINE n == Cardinality(D)
  <1>1. n \in Nat /\ ExistsBijection(1..n, D)
    BY FS_CardinalityType
  <1>2. \E s \in [1..n -> D] : \A f \in D : \E i \in DOMAIN s : s[i] = f
    BY <1>1 DEF ExistsBijection, Bijection, Surjection, Injection
  <1>3. InOrder(D) \in [1..n -> D] /\ \A f \in D : \E i \in DOMAIN InOrder(D) : InOrder(D)[i] = f
    BY <1>2 DEF InOrder
  <1>4. InOrder(D) \in Surjection(1..n, D)
    BY <1>3 DEF Surjection
  <1>5. IsFiniteSet(1..n) /\ Cardinality(1..n) = n
    BY <1>1, FS_Interval
  <1>6. InOrder(D) \in Injection(1..n, D)
    BY <1>4, <1>5, FS_SurjSameCardinalityImpliesInj
  <1> QED
    BY <1>1, <1>3, <1>6 DEF Injection, IsInjective

\* A sequence with another, given by its entries, appended.
LEMMA Appended ==
  ASSUME NEW S, NEW a \in Seq(S), NEW m \in Nat, NEW b \in [1..m -> S]
  PROVE  /\ Len(a) \in Nat /\ DOMAIN a = 1..Len(a)
         /\ a \o b \in Seq(S) /\ Len(a \o b) = Len(a) + m
         /\ DOMAIN (a \o b) = 1..(Len(a) + m)
         /\ \A i \in 1..(Len(a) + m) :
              (a \o b)[i] = IF i <= Len(a) THEN a[i] ELSE b[i - Len(a)]
  <1>1. b \in Seq(S) /\ Len(b) = m
    <2>1. b \in Seq(S)
      BY SeqDef
    <2> QED
      BY <2>1, LenProperties
  <1>2. Len(a) \in Nat /\ DOMAIN a = 1..Len(a)
    BY LenProperties
  <1>3. /\ a \o b \in Seq(S) /\ Len(a \o b) = Len(a) + m
        /\ \A i \in 1..(Len(a) + m) :
             (a \o b)[i] = IF i <= Len(a) THEN a[i] ELSE b[i - Len(a)]
    BY <1>1, ConcatProperties
  <1> QED
    BY <1>2, <1>3, LenProperties

LEMMA EventShape ==
  ASSUME NEW e, IsEvent(e)
  PROVE  /\ e.kind \in WriteKinds /\ DOMAIN e.what \subseteq Fields
         /\ IsFiniteSet(DOMAIN e.what)
         /\ \A f \in DOMAIN e.what : /\ e.kind = "forget" <=> e.what[f] = NoValue
                                     /\ e.kind # "forget" => e.what[f] \in Values
  BY OracleAssumption DEF IsEvent

\* history has a row more for every field of the event, and nothing else is new.
Logs(e, id) ==
  /\ Len(history) \in Nat /\ Len(history') \in Nat /\ Len(history) <= Len(history')
  /\ DOMAIN history = 1..Len(history) /\ DOMAIN history' = 1..Len(history')
  /\ \A j \in DOMAIN history : history'[j] = history[j]
  /\ \A j \in DOMAIN history' \ DOMAIN history :
       /\ history'[j].event = id /\ history'[j].action = e.kind
       /\ history'[j].field \in DOMAIN e.what
       /\ history'[j].value = e.what[history'[j].field]
  /\ \A f \in DOMAIN e.what : \E j \in DOMAIN history' \ DOMAIN history : history'[j].field = f
  /\ \A i, j \in DOMAIN history' \ DOMAIN history : history'[i].field = history'[j].field => i = j

LEMMA HistoryGrows ==
  ASSUME NEW e, IsEvent(e), NEW id \in Plays, history \in Seq(Row),
         history' = history \o HistoryRows(e, id)
  PROVE  history' \in Seq(Row) /\ Logs(e, id)
  <1> DEFINE D == DOMAIN e.what
             m == Cardinality(D)
             s == InOrder(D)
             new == [i \in 1..m |-> [field |-> s[i], value |-> e.what[s[i]],
                                     action |-> e.kind, event |-> id]]
             N == Len(history)
  <1>1. /\ m \in Nat /\ s \in [1..m -> D] /\ DOMAIN s = 1..m
        /\ \A f \in D : \E i \in 1..m : s[i] = f
        /\ \A i, j \in 1..m : s[i] = s[j] => i = j
    BY EventShape, InOrderOnce
  <1>2. HistoryRows(e, id) = new
    BY <1>1 DEF HistoryRows
  <1> HIDE DEF m, s
  <1>3. \A i \in 1..m : new[i] \in Row
    BY <1>1, EventShape DEF Row
  <1>4. new \in Seq(Row) /\ Len(new) = m
    BY <1>1, <1>3
  <1>5. /\ \A i \in 1..m : /\ new[i].field = s[i] /\ new[i].value = e.what[s[i]]
                           /\ new[i].action = e.kind /\ new[i].event = id
    OBVIOUS
  <1> HIDE DEF new
  <1>6. /\ N \in Nat /\ DOMAIN history = 1..N
        /\ history' \in Seq(Row) /\ Len(history') = N + m
        /\ \A i \in 1..(N + m) : history'[i] = IF i <= N THEN history[i] ELSE new[i - N]
    BY <1>2, <1>4, ConcatProperties, LenProperties
  <1>7. DOMAIN history' = 1..(N + m)
    BY <1>6, LenProperties
  <1>8. \A i \in 1..m : N + i \in DOMAIN history' \ DOMAIN history /\ history'[N + i] = new[i]
    BY <1>1, <1>6, <1>7
  <1>9. ASSUME NEW j \in DOMAIN history' \ DOMAIN history
        PROVE  j - N \in 1..m /\ j = N + (j - N) /\ history'[j] = new[j - N]
    BY <1>1, <1>6, <1>7
  <1>10. \A j \in DOMAIN history : history'[j] = history[j]
    BY <1>1, <1>6
  <1>11. \A j \in DOMAIN history' \ DOMAIN history :
           /\ history'[j].event = id /\ history'[j].action = e.kind
           /\ history'[j].field \in D /\ history'[j].value = e.what[history'[j].field]
    BY <1>1, <1>5, <1>9
  <1>12. \A f \in D : \E j \in DOMAIN history' \ DOMAIN history : history'[j].field = f
    <2> SUFFICES ASSUME NEW f \in D
                 PROVE  \E j \in DOMAIN history' \ DOMAIN history : history'[j].field = f
      OBVIOUS
    <2>1. PICK i \in 1..m : s[i] = f
      BY <1>1
    <2>2. N + i \in DOMAIN history' \ DOMAIN history /\ history'[N + i].field = f
      BY <1>5, <1>8, <2>1
    <2> QED
      BY <2>2
  <1>13. \A i, j \in DOMAIN history' \ DOMAIN history :
           history'[i].field = history'[j].field => i = j
    <2> SUFFICES ASSUME NEW i \in DOMAIN history' \ DOMAIN history,
                        NEW j \in DOMAIN history' \ DOMAIN history,
                        history'[i].field = history'[j].field
                 PROVE  i = j
      OBVIOUS
    <2>1. s[i - N] = s[j - N] /\ i - N \in 1..m /\ j - N \in 1..m
      BY <1>5, <1>9
    <2>2. i - N = j - N
      BY <1>1, <2>1
    <2> QED
      BY <1>9, <2>2
  <1> QED
    <2>1. /\ Len(history') \in Nat /\ N <= Len(history')
          /\ DOMAIN history = 1..N /\ DOMAIN history' = 1..Len(history')
      BY <1>1, <1>6, <1>7
    <2> QED
      BY <1>6, <1>10, <1>11, <1>12, <1>13, <2>1, Zenon DEF Logs

\* Whether the event leaves the facts of its field as they are, and whether it
\* closes the current ones.
Repeats(e) == e.kind = "remember" /\ \E f \in DOMAIN e.what : Current(f) # {}
Closes(e)  == e.kind \in {"correct", "forget"}
NewFacts   == DOMAIN facts' \ DOMAIN facts

\* The facts keep their places; the event's fields get one current fact each, unless
\* it forgets or repeats.
Updates(e) ==
  /\ Len(facts) \in Nat /\ Len(facts') \in Nat /\ Len(facts) <= Len(facts')
  /\ DOMAIN facts = 1..Len(facts) /\ DOMAIN facts' = 1..Len(facts')
  /\ \A i \in DOMAIN facts :
       /\ facts'[i].field = facts[i].field /\ facts'[i].value = facts[i].value
       /\ IF Closes(e) /\ facts[i].field \in DOMAIN e.what
          THEN facts'[i].status # "CURRENT" ELSE facts'[i].status = facts[i].status
  /\ \A i \in NewFacts :
       /\ facts'[i].field \in DOMAIN e.what
       /\ facts'[i].value = e.what[facts'[i].field]
       /\ facts'[i].status = "CURRENT"
  /\ \A f \in DOMAIN e.what :
       (\E i \in NewFacts : facts'[i].field = f) <=> e.kind # "forget" /\ ~Repeats(e)
  /\ \A i, j \in NewFacts : facts'[i].field = facts'[j].field => i = j

\* The current facts of the event's fields, closed or not, then its own.
LEMMA FactsAppended ==
  ASSUME NEW e, IsEvent(e), e.kind # "forget", ~Repeats(e), facts \in Seq(Fact),
         NEW old \in Seq(Fact), Len(old) = Len(facts),
         \A i \in 1..Len(facts) :
           /\ old[i].field = facts[i].field /\ old[i].value = facts[i].value
           /\ IF Closes(e) /\ facts[i].field \in DOMAIN e.what
              THEN old[i].status # "CURRENT" ELSE old[i].status = facts[i].status,
         facts' = old \o FactsOf(e.what)
  PROVE  facts' \in Seq(Fact) /\ Updates(e)
  <1> DEFINE D == DOMAIN e.what
             m == Cardinality(D)
             s == InOrder(D)
             new == [i \in 1..m |-> AsCurrent(s[i], e.what[s[i]])]
             N == Len(facts)
  <1>1. /\ m \in Nat /\ s \in [1..m -> D] /\ DOMAIN s = 1..m
        /\ \A f \in D : \E i \in 1..m : s[i] = f
        /\ \A i, j \in 1..m : s[i] = s[j] => i = j
    BY EventShape, InOrderOnce
  <1>2. FactsOf(e.what) = new
    BY <1>1 DEF FactsOf
  <1> HIDE DEF m, s
  <1>3. \A i \in 1..m : new[i] \in Fact
    BY <1>1, EventShape DEF Fact, AsCurrent
  <1>4. new \in [1..m -> Fact]
    BY <1>3
  <1>5. \A i \in 1..m : /\ new[i].field = s[i] /\ new[i].value = e.what[s[i]]
                        /\ new[i].status = "CURRENT"
    BY DEF AsCurrent
  <1> HIDE DEF new
  <1>6. /\ N \in Nat /\ DOMAIN facts = 1..N
        /\ facts' \in Seq(Fact) /\ Len(facts') = N + m
        /\ \A i \in 1..(N + m) : facts'[i] = IF i <= N THEN old[i] ELSE new[i - N]
    <2>1. N \in Nat /\ DOMAIN facts = 1..N /\ Len(old) = N
      BY LenProperties
    <2>2. facts' = old \o new
      BY <1>2
    <2> QED
      BY <1>1, <1>4, <2>1, <2>2, Appended
  <1>7. DOMAIN facts' = 1..(N + m)
    BY <1>6, LenProperties
  <1>8. \A i \in 1..m : N + i \in NewFacts /\ facts'[N + i] = new[i]
    BY <1>1, <1>6, <1>7 DEF NewFacts
  <1>9. ASSUME NEW j \in NewFacts
        PROVE  j - N \in 1..m /\ j = N + (j - N) /\ facts'[j] = new[j - N]
    BY <1>1, <1>6, <1>7 DEF NewFacts
  <1>10. \A i \in DOMAIN facts :
           /\ facts'[i].field = facts[i].field /\ facts'[i].value = facts[i].value
           /\ IF Closes(e) /\ facts[i].field \in D
              THEN facts'[i].status # "CURRENT" ELSE facts'[i].status = facts[i].status
    <2>1. \A i \in DOMAIN facts : i \in 1..N /\ facts'[i] = old[i]
      BY <1>1, <1>6
    <2> QED
      BY <2>1
  <1>11. \A j \in NewFacts :
           /\ facts'[j].field \in D /\ facts'[j].value = e.what[facts'[j].field]
           /\ facts'[j].status = "CURRENT"
    <2> SUFFICES ASSUME NEW j \in NewFacts
                 PROVE  /\ facts'[j].field \in D /\ facts'[j].value = e.what[facts'[j].field]
                        /\ facts'[j].status = "CURRENT"
      OBVIOUS
    <2>1. j - N \in 1..m /\ facts'[j] = new[j - N]
      BY <1>9
    <2>2. s[j - N] \in D
      BY <1>1, <2>1
    <2> QED
      BY <1>5, <2>1, <2>2
  <1>12. \A f \in D : \E j \in NewFacts : facts'[j].field = f
    <2> SUFFICES ASSUME NEW f \in D PROVE \E j \in NewFacts : facts'[j].field = f
      OBVIOUS
    <2>1. PICK i \in 1..m : s[i] = f
      BY <1>1
    <2>2. N + i \in NewFacts /\ facts'[N + i].field = f
      BY <1>5, <1>8, <2>1
    <2> QED
      BY <2>2
  <1>13. \A i, j \in NewFacts : facts'[i].field = facts'[j].field => i = j
    <2> SUFFICES ASSUME NEW i \in NewFacts, NEW j \in NewFacts, facts'[i].field = facts'[j].field
                 PROVE  i = j
      OBVIOUS
    <2>1. s[i - N] = s[j - N] /\ i - N \in 1..m /\ j - N \in 1..m
      BY <1>5, <1>9
    <2>2. i - N = j - N
      BY <1>1, <2>1
    <2> QED
      BY <1>9, <2>2
  <1> QED
    <2>1. /\ Len(facts') \in Nat /\ N <= Len(facts')
          /\ DOMAIN facts = 1..N /\ DOMAIN facts' = 1..Len(facts')
      BY <1>1, <1>6, <1>7
    <2> QED
      BY <1>6, <1>10, <1>11, <1>12, <1>13, <2>1, Zenon DEF Updates

\* The facts of the event's fields, closed.
LEMMA ClosedFacts ==
  ASSUME NEW D, NEW status \in {"HISTORICAL", "FORGOTTEN"}, facts \in Seq(Fact)
  PROVE  /\ Closed(D, status) \in Seq(Fact) /\ Len(Closed(D, status)) = Len(facts)
         /\ \A i \in 1..Len(facts) :
              /\ Closed(D, status)[i].field = facts[i].field
              /\ Closed(D, status)[i].value = facts[i].value
              /\ IF facts[i].field \in D THEN Closed(D, status)[i].status # "CURRENT"
                 ELSE Closed(D, status)[i].status = facts[i].status
  <1> DEFINE c(i) == IF facts[i].field \in D /\ facts[i].status = "CURRENT"
                     THEN [facts[i] EXCEPT !.status = status] ELSE facts[i]
  <1>1. Len(facts) \in Nat /\ DOMAIN facts = 1..Len(facts) /\ \A i \in 1..Len(facts) : facts[i] \in Fact
    BY LenProperties
  <1>2. \A i \in 1..Len(facts) :
          /\ c(i) \in Fact /\ c(i).field = facts[i].field /\ c(i).value = facts[i].value
          /\ IF facts[i].field \in D THEN c(i).status # "CURRENT" ELSE c(i).status = facts[i].status
    BY <1>1 DEF Fact
  <1>3. Closed(D, status) = [i \in 1..Len(facts) |-> c(i)]
    BY <1>1 DEF Closed
  <1> HIDE DEF c
  <1>4. Closed(D, status) \in Seq(Fact) /\ Len(Closed(D, status)) = Len(facts)
    BY <1>1, <1>2, <1>3
  <1> QED
    BY <1>2, <1>3, <1>4

LEMMA FactsGrow ==
  ASSUME NEW e, IsEvent(e), facts \in Seq(Fact), facts' = FactsAfter(e)
  PROVE  facts' \in Seq(Fact) /\ Updates(e)
  <1>0. /\ Len(facts) \in Nat /\ DOMAIN facts = 1..Len(facts)
        /\ e.kind \in {"remember", "correct", "multi_fact", "forget"}
    BY EventShape, LenProperties DEF WriteKinds
  <1>1. CASE Repeats(e)
    <2>1. facts' = facts
      BY <1>1 DEF Repeats, FactsAfter, Remembered
    <2> QED
      BY <1>0, <1>1, <2>1 DEF Updates, NewFacts, Closes, Repeats
  <1>2. CASE e.kind \in {"remember", "multi_fact"} /\ ~Repeats(e)
    <2>1. facts' = facts \o FactsOf(e.what)
      BY <1>2 DEF Repeats, FactsAfter, Remembered
    <2> QED
      BY <1>2, <2>1, FactsAppended DEF Closes
  <1>3. CASE e.kind = "correct"
    <2>1. facts' = Closed(DOMAIN e.what, "HISTORICAL") \o FactsOf(e.what)
      BY <1>3 DEF FactsAfter
    <2> DEFINE old == Closed(DOMAIN e.what, "HISTORICAL")
    <2>2. /\ old \in Seq(Fact) /\ Len(old) = Len(facts)
          /\ \A i \in 1..Len(facts) :
               /\ old[i].field = facts[i].field /\ old[i].value = facts[i].value
               /\ IF facts[i].field \in DOMAIN e.what THEN old[i].status # "CURRENT"
                  ELSE old[i].status = facts[i].status
      BY ClosedFacts
    <2> HIDE DEF old
    <2>3. Closes(e) /\ ~Repeats(e) /\ e.kind # "forget"
      BY <1>3 DEF Closes, Repeats
    <2> QED
      BY <2>1, <2>2, <2>3, FactsAppended DEF old
  <1>4. CASE e.kind = "forget"
    <2>1. facts' = Closed(DOMAIN e.what, "FORGOTTEN")
      BY <1>4 DEF FactsAfter
    <2>2. /\ facts' \in Seq(Fact) /\ Len(facts') = Len(facts)
          /\ \A i \in 1..Len(facts) :
               /\ facts'[i].field = facts[i].field /\ facts'[i].value = facts[i].value
               /\ IF facts[i].field \in DOMAIN e.what THEN facts'[i].status # "CURRENT"
                  ELSE facts'[i].status = facts[i].status
      BY <2>1, ClosedFacts
    <2>3. DOMAIN facts' = 1..Len(facts)
      BY <2>2, LenProperties
    <2>4. NewFacts = {}
      BY <1>0, <2>3 DEF NewFacts
    <2> QED
      BY <1>0, <1>4, <2>2, <2>3, <2>4 DEF Updates, Closes
  <1> QED
    BY <1>0, <1>1, <1>2, <1>3, <1>4

-----------------------------------------------------------------------------
(***************************************************************************)
(* The steps.                                                              *)
(***************************************************************************)

\* MESA commits a play after those it had, or had it already.
Records(p) ==
  /\ mesa' \in Seq(Plays) /\ Len(mesa') = Cardinality(Committed')
  /\ Committed' = Committed \cup {p} /\ IsFiniteSet(Committed')
  /\ Len(mesa) \in Nat /\ DOMAIN mesa = 1..Len(mesa)
  /\ Len(mesa') \in {Len(mesa), Len(mesa) + 1} /\ DOMAIN mesa' = 1..Len(mesa')
  /\ \A l \in 1..Len(mesa) : mesa'[l] = mesa[l]
  /\ Len(mesa') = Len(mesa) + 1 => p \notin Committed /\ mesa'[Len(mesa) + 1] = p

LEMMA MesaGrows ==
  ASSUME TypeOK, CommittedInOrder, NEW p \in Plays, Commits(p)
  PROVE  Records(p) /\ CommittedInOrder'
  <1> DEFINE n == Len(mesa)
  <1>1. n \in Nat /\ DOMAIN mesa = 1..n /\ mesa \in Seq(Plays) /\ n = Cardinality(Committed)
    BY LenProperties DEF TypeOK
  <1>2. CASE p \in Committed
    <2>1. mesa' = mesa
      BY <1>2 DEF Commits
    <2>2. Committed' = Committed
      BY <2>1 DEF Committed
    <2>3. Committed = Committed \cup {p}
      BY <1>2
    <2> QED
      BY <1>1, <1>2, <2>1, <2>2, <2>3 DEF CommittedInOrder, Records
  <1>3. CASE p \notin Committed
    <2>1. mesa' = Append(mesa, p)
      BY <1>3 DEF Commits
    <2>2. /\ mesa' \in Seq(Plays) /\ Len(mesa') = n + 1
          /\ \A l \in 1..n : mesa'[l] = mesa[l]
          /\ mesa'[n + 1] = p
      BY <1>1, <2>1, AppendProperties
    <2>3. DOMAIN mesa' = 1..(n + 1)
      BY <2>2, LenProperties
    <2>4. Committed = {mesa[l] : l \in 1..n} /\ Committed' = {mesa'[l] : l \in 1..(n + 1)}
      BY <1>1, <2>3 DEF Committed
    <2>5. 1..(n + 1) = (1..n) \cup {n + 1}
      BY <1>1
    <2>6. Committed' = Committed \cup {p}
      BY <2>2, <2>4, <2>5
    <2>7. IsFiniteSet(Committed') /\ Cardinality(Committed') = n + 1
      BY <1>1, <1>3, <2>6, FS_AddElement DEF CommittedInOrder
    <2>8. ASSUME NEW i \in 1..(n + 1), NEW j \in 1..(n + 1), mesa'[i] = mesa'[j]
          PROVE  i = j
      <3>1. \A l \in 1..n : mesa'[l] \in Committed
        BY <2>2, <2>4
      <3>2. CASE i = n + 1
        BY <1>1, <1>3, <2>2, <2>8, <3>1, <3>2
      <3>3. CASE j = n + 1
        BY <1>1, <1>3, <2>2, <2>8, <3>1, <3>3
      <3>4. CASE i \in 1..n /\ j \in 1..n
        BY <1>1, <2>2, <2>8, <3>4 DEF CommittedInOrder
      <3> QED
        BY <2>5, <3>2, <3>3, <3>4
    <2>9. CommittedInOrder'
      <3>1. \A i, j \in DOMAIN mesa' : mesa'[i] = mesa'[j] => i = j
        BY <2>3, <2>8
      <3> QED
        BY <2>7, <3>1 DEF CommittedInOrder
    <2> QED
      BY <1>1, <1>3, <2>2, <2>3, <2>6, <2>7, <2>9 DEF Records
  <1> QED
    BY <1>2, <1>3

\* A play is where it was, or is the new one behind all of them.
LEMMA Places ==
  ASSUME NEW p, Records(p), NEW l \in DOMAIN mesa'
  PROVE  /\ \/ l \in DOMAIN mesa /\ mesa'[l] = mesa[l]
            \/ l = Len(mesa) + 1 /\ mesa'[l] = p /\ p \notin Committed
         /\ \A k \in 1..(l - 1) : k \in DOMAIN mesa /\ mesa'[k] = mesa[k] /\ mesa[k] \in Committed
  <1> DEFINE n == Len(mesa)
             n2 == Len(mesa')
  <1>1. /\ n \in Nat /\ n2 \in {n, n + 1} /\ DOMAIN mesa = 1..n /\ DOMAIN mesa' = 1..n2
        /\ \A k \in 1..n : mesa'[k] = mesa[k]
        /\ n2 = n + 1 => p \notin Committed /\ mesa'[n + 1] = p
    BY DEF Records
  <1>2. \A k \in DOMAIN mesa : mesa[k] \in Committed
    BY DEF Committed
  <1> HIDE DEF n, n2
  <1>3. l \in 1..n \/ (l = n + 1 /\ n2 = n + 1)
    BY <1>1
  <1>4. \A k \in 1..(l - 1) : k \in 1..n
    BY <1>1, <1>3
  <1> QED
    BY <1>1, <1>2, <1>3, <1>4 DEF n

\* The step leaves MESA's commits and the tables alone.
Quiet ==
  /\ UNCHANGED <<suite, tables, mesa, late>>
  /\ cursor' \in 0..Len(suite) /\ epoch' \in 0..(MaxEpochs - 1) /\ rewinds' \in 0..MaxRewinds

\* MESA commits a play of an event, whose facts and rows the oracle takes in.
Takes(e, p) ==
  /\ e = suite[p[2]] /\ IsEvent(e) /\ p \in Plays /\ p \notin events
  /\ Commits(p)
  /\ facts' = FactsAfter(e) /\ history' = history \o HistoryRows(e, p) /\ events' = events \cup {p}
  /\ UNCHANGED <<suite, epoch, late, rewinds>> /\ cursor' \in 0..Len(suite)

\* MESA commits a play that the run has given up.
Lags(p) ==
  /\ p \in Plays /\ p \notin Committed
  /\ Commits(p) /\ late' = late \cup {p}
  /\ UNCHANGED <<suite, epoch, tables, rewinds>> /\ cursor' \in 0..Len(suite)

LEMMA NextPlay ==
  ASSUME TypeOK, cursor < Len(suite)
  PROVE  /\ Len(suite) \in Nat /\ cursor + 1 \in 0..Len(suite)
         /\ <<epoch, cursor + 1>> \in Plays /\ <<epoch, cursor + 1>>[2] = cursor + 1
         /\ IsEvent(suite[cursor + 1])
  <1>1. IsSuite(suite)
    BY OracleAssumption DEF TypeOK
  <1>2. Len(suite) \in Nat /\ cursor + 1 \in 1..Len(suite)
    BY <1>1 DEF TypeOK, IsSuite
  <1> QED
    BY <1>1, <1>2 DEF TypeOK, IsSuite, Plays

\* Every step is one of the three.
LEMMA StepKinds ==
  ASSUME TypeOK, AppliedIsCommitted, [Next]_vars
  PROVE  Quiet \/ (\E e, p : Takes(e, p)) \/ (\E p : Lags(p))
  <1>0. Len(suite) \in Nat /\ MaxRewinds \in Nat /\ MaxEpochs \in Nat \ {0}
    BY OracleAssumption DEF TypeOK, IsSuite
  <1>1. CASE Play
    <2> DEFINE p == <<epoch, cursor + 1>>
               e == suite[cursor + 1]
    <2>1. /\ cursor' = cursor + 1 /\ Commits(p) /\ UNCHANGED <<suite, epoch, late, rewinds>>
          /\ IF p \in events THEN UNCHANGED tables
             ELSE /\ facts' = FactsAfter(e) /\ history' = history \o HistoryRows(e, p)
                  /\ events' = events \cup {p}
      BY <1>1 DEF Play, ApplyEvent, RuntimeId
    <2>2. cursor' \in 0..Len(suite) /\ p \in Plays /\ e = suite[p[2]] /\ IsEvent(e)
      BY <1>1, <2>1, NextPlay DEF Play
    <2> HIDE DEF p, e
    <2>3. CASE p \in events
      <3>1. mesa' = mesa
        BY <2>1, <2>3 DEF AppliedIsCommitted, Commits
      <3> QED
        BY <2>1, <2>2, <2>3, <3>1 DEF Quiet, TypeOK
    <2>4. CASE p \notin events
      <3>1. Takes(e, p)
        BY <2>1, <2>2, <2>4 DEF Takes
      <3> QED
        BY <3>1
    <2> QED
      BY <2>3, <2>4
  <1>2. CASE GiveUp
    BY <1>2, NextPlay DEF GiveUp, Quiet, TypeOK
  <1>3. CASE CommitLate
    <2> DEFINE p == <<epoch, cursor + 1>>
    <2>1. /\ cursor' = cursor + 1 /\ Commits(p) /\ late' = late \cup {p} /\ p \notin Committed
          /\ UNCHANGED <<suite, epoch, tables, rewinds>>
      BY <1>3 DEF CommitLate
    <2>2. cursor' \in 0..Len(suite) /\ p \in Plays
      BY <1>3, <2>1, NextPlay DEF CommitLate
    <2>3. Lags(p)
      BY <2>1, <2>2 DEF Lags
    <2> QED
      BY <2>3
  <1>4. CASE NextEpoch
    BY <1>0, <1>4 DEF NextEpoch, Quiet, TypeOK
  <1>5. CASE Rewind
    BY <1>0, <1>5 DEF Rewind, Quiet, TypeOK
  <1>6. CASE Done
    BY <1>6 DEF Done, vars, Quiet, TypeOK
  <1>7. CASE UNCHANGED vars
    BY <1>7 DEF vars, Quiet, TypeOK
  <1> QED
    BY <1>1, <1>2, <1>3, <1>4, <1>5, <1>6, <1>7 DEF Next

LEMMA QuietKeeps ==
  ASSUME IInv, Quiet
  PROVE  IInv'
  <1> USE DEF IInv, Quiet, tables
  <1>1. Plays' = Plays /\ Committed' = Committed
    BY DEF Plays, Committed
  <1>2. TypeOK'
    BY <1>1 DEF TypeOK
  <1>3. CommittedInOrder' /\ AppliedIsCommitted'
    BY <1>1 DEF CommittedInOrder, AppliedIsCommitted
  <1>4. RowsOfEvents'
    BY <1>1 DEF RowsOfEvents, Rows
  <1>5. InMesaOrder'
    BY DEF InMesaOrder
  <1>6. FactsWereTold'
    BY DEF FactsWereTold, Rows
  <1> QED
    BY <1>2, <1>3, <1>4, <1>5, <1>6

LEMMA LagsKeeps ==
  ASSUME IInv, NEW p, Lags(p)
  PROVE  IInv'
  <1>1. Plays' = Plays
    BY DEF Lags, Plays
  <1>2. Records(p) /\ CommittedInOrder'
    BY MesaGrows DEF IInv, Lags
  <1>3. TypeOK'
    BY <1>1, <1>2 DEF TypeOK, IInv, Lags, Records, tables
  <1>4. AppliedIsCommitted'
    BY <1>2 DEF AppliedIsCommitted, IInv, Lags, Records, tables
  <1>5. RowsOfEvents'
    BY <1>1 DEF RowsOfEvents, IInv, Lags, tables, Rows
  <1>6. FactsWereTold'
    BY DEF FactsWereTold, IInv, Lags, tables, Rows
  <1>7. InMesaOrder'
    <2> SUFFICES ASSUME NEW l \in DOMAIN mesa', NEW i \in DOMAIN history, history[i].event = mesa'[l],
                        NEW k \in 1..(l - 1),
                        \E j \in DOMAIN history : i < j /\ history[j].event = mesa'[k]
                 PROVE  mesa'[k] \in late'
      BY DEF InMesaOrder, Lags, tables
    <2>1. history[i].event \in Committed
      BY DEF IInv, RowsOfEvents, AppliedIsCommitted
    <2>2. l \in DOMAIN mesa /\ mesa'[l] = mesa[l]
      BY <1>2, <2>1, Places
    <2>3. mesa'[k] = mesa[k]
      BY <1>2, Places
    <2> QED
      BY <2>2, <2>3 DEF IInv, InMesaOrder, Lags
  <1> QED
    BY <1>2, <1>3, <1>4, <1>5, <1>6, <1>7 DEF IInv

LEMMA TakesGrows ==
  ASSUME TypeOK, NEW e, NEW p, Takes(e, p)
  PROVE  /\ history' \in Seq(Row) /\ Logs(e, p)
         /\ facts' \in Seq(Fact) /\ Updates(e)
  <1>1. history \in Seq(Row) /\ facts \in Seq(Fact)
    BY DEF TypeOK, Row, Fact
  <1>2. IsEvent(e) /\ p \in Plays /\ facts' = FactsAfter(e) /\ history' = history \o HistoryRows(e, p)
    BY DEF Takes
  <1> QED
    BY <1>1, <1>2, HistoryGrows, FactsGrow

LEMMA TakesKeepsRows ==
  ASSUME IInv, NEW e, NEW p, Takes(e, p)
  PROVE  RowsOfEvents' /\ \A j \in DOMAIN history' : history'[j].action = "forget" <=> history'[j].value = NoValue
  <1>1. Plays' = Plays /\ suite' = suite /\ events' = events \cup {p} /\ p \notin events /\ p \in Plays
        /\ e = suite[p[2]]
    BY DEF Takes, Plays
  <1>2. Logs(e, p)
    BY TakesGrows DEF IInv
  <1> DEFINE New == DOMAIN history' \ DOMAIN history
  <1>3. /\ DOMAIN history \subseteq DOMAIN history'
        /\ \A j \in DOMAIN history : history'[j] = history[j] /\ history[j].event \in events
        /\ \A j \in New : history'[j].event = p /\ history'[j].field \in DOMAIN e.what
                          /\ history'[j].action = e.kind
                          /\ history'[j].value = e.what[history'[j].field]
    BY <1>2 DEF Logs, IInv, RowsOfEvents
  <1>4. \A f \in DOMAIN e.what : \E j \in New : history'[j].field = f
    BY <1>2 DEF Logs
  <1>5. \A i, j \in New : history'[i].field = history'[j].field => i = j
    BY <1>2 DEF Logs
  <1>6. \A j \in DOMAIN history' : j \in DOMAIN history \/ j \in New
    OBVIOUS
  <1> HIDE DEF New
  <1>7. \A j \in DOMAIN history' : history'[j].event \in events'
    BY <1>1, <1>3, <1>6
  <1>8. \A i, j \in DOMAIN history' :
          history'[i].event = history'[j].event /\ history'[i].field = history'[j].field => i = j
    BY <1>1, <1>3, <1>5, <1>6 DEF IInv, RowsOfEvents
  <1>9. ASSUME NEW q \in Plays, NEW f \in Fields
        PROVE  (\E j \in DOMAIN history' : history'[j].field = f /\ history'[j].event = q)
                 <=> q \in events' /\ f \in DOMAIN suite[q[2]].what
    <2>1. CASE q = p
      <3>1. (\E j \in New : history'[j].field = f) <=> f \in DOMAIN e.what
        BY <1>3, <1>4
      <3>2. New \subseteq DOMAIN history'
        BY DEF New
      <3>3. \A j \in DOMAIN history' : history'[j].event = p <=> j \in New
        BY <1>1, <1>3, <1>6
      <3> QED
        BY <1>1, <2>1, <3>1, <3>2, <3>3
    <2>2. CASE q # p
      <3>1. (\E j \in DOMAIN history : history[j].field = f /\ history[j].event = q)
              <=> q \in events /\ f \in DOMAIN suite[q[2]].what
        BY DEF IInv, RowsOfEvents, Rows
      <3>2. \A j \in DOMAIN history' : history'[j].event = q => j \in DOMAIN history
        BY <1>3, <1>6, <2>2
      <3>3. q \in events' <=> q \in events
        BY <1>1, <2>2
      <3> QED
        BY <1>3, <3>1, <3>2, <3>3
    <2> QED
      BY <2>1, <2>2
  <1>10. \A j \in DOMAIN history' : history'[j].action = "forget" <=> history'[j].value = NoValue
    <2>1. \A j \in DOMAIN history : history[j].action = "forget" <=> history[j].value = NoValue
      BY DEF IInv, TypeOK
    <2>2. \A f \in DOMAIN e.what : e.kind = "forget" <=> e.what[f] = NoValue
      BY EventShape DEF Takes
    <2> QED
      BY <1>3, <1>6, <2>1, <2>2
  <1>11. RowsOfEvents'
    BY <1>1, <1>7, <1>8, <1>9 DEF RowsOfEvents, Rows
  <1> QED
    BY <1>10, <1>11

LEMMA TakesKeepsOrder ==
  ASSUME IInv, NEW e, NEW p, Takes(e, p)
  PROVE  InMesaOrder'
  <1>1. Logs(e, p) /\ Records(p) /\ p \notin events /\ late' = late
    BY TakesGrows, MesaGrows DEF IInv, Takes
  <1>2. p \in Committed => p \in late
    BY <1>1 DEF IInv, AppliedIsCommitted
  <1>3. \A j \in DOMAIN history : history[j].event \in Committed
    BY DEF IInv, RowsOfEvents, AppliedIsCommitted
  <1> SUFFICES ASSUME NEW l \in DOMAIN mesa', NEW i \in DOMAIN history', history'[i].event = mesa'[l],
                      NEW k \in 1..(l - 1), NEW j \in DOMAIN history',
                      i < j, history'[j].event = mesa'[k]
               PROVE  mesa'[k] \in late
    BY <1>1 DEF InMesaOrder
  <1>4. /\ \/ l \in DOMAIN mesa /\ mesa'[l] = mesa[l]
           \/ mesa'[l] = p /\ p \notin Committed
        /\ mesa'[k] = mesa[k] /\ mesa[k] \in Committed
    BY <1>1, Places
  <1>5. CASE j \in DOMAIN history
    <2>1. i \in DOMAIN history
      BY <1>1, <1>5 DEF Logs
    <2>2. history'[i] = history[i] /\ history'[j] = history[j]
      BY <1>1, <1>5, <2>1 DEF Logs
    <2>3. l \in DOMAIN mesa /\ mesa'[l] = mesa[l]
      BY <1>3, <1>4, <2>1, <2>2
    <2> QED
      BY <1>4, <1>5, <2>1, <2>2, <2>3 DEF IInv, InMesaOrder
  <1>6. CASE j \notin DOMAIN history
    <2>1. history'[j].event = p
      BY <1>1, <1>6 DEF Logs
    <2> QED
      BY <1>2, <1>4, <2>1
  <1> QED
    BY <1>5, <1>6

LEMMA TakesKeeps ==
  ASSUME IInv, NEW e, NEW p, Takes(e, p)
  PROVE  IInv'
  <1>1. Plays' = Plays
    BY DEF Takes, Plays
  <1>2. Records(p) /\ CommittedInOrder'
    BY MesaGrows DEF IInv, Takes
  <1>3. /\ history' \in Seq(Row) /\ Logs(e, p) /\ facts' \in Seq(Fact) /\ Updates(e)
    BY TakesGrows DEF IInv
  <1>4. /\ RowsOfEvents'
        /\ \A j \in DOMAIN history' : history'[j].action = "forget" <=> history'[j].value = NoValue
    BY TakesKeepsRows
  <1>5. TypeOK'
    <2>1. suite' \in Suites /\ cursor' \in 0..Len(suite') /\ epoch' \in 0..(MaxEpochs - 1)
          /\ rewinds' \in 0..MaxRewinds /\ events' \subseteq Plays
      BY DEF TypeOK, IInv, Takes
    <2>2. mesa' \in Seq(Plays) /\ Len(mesa') = Cardinality(Committed') /\ late' \subseteq Committed'
      BY <1>2 DEF TypeOK, IInv, Takes, Records
    <2> QED
      BY <1>1, <1>3, <1>4, <2>1, <2>2 DEF TypeOK, Row, Fact
  <1>6. AppliedIsCommitted'
    BY <1>2 DEF AppliedIsCommitted, IInv, Takes, Records
  <1>7. InMesaOrder'
    BY TakesKeepsOrder
  <1>8. FactsWereTold'
    <2> SUFFICES ASSUME NEW i \in DOMAIN facts'
                 PROVE  \E j \in DOMAIN history' : /\ history'[j].field = facts'[i].field
                                                   /\ history'[j].value = facts'[i].value
      BY DEF FactsWereTold, Rows
    <2>1. CASE i \in DOMAIN facts
      <3>1. facts'[i].field = facts[i].field /\ facts'[i].value = facts[i].value
        BY <1>3, <2>1 DEF Updates
      <3>2. PICK j \in DOMAIN history : history[j].field = facts[i].field
                                        /\ history[j].value = facts[i].value
        BY <2>1 DEF IInv, FactsWereTold, Rows
      <3>3. j \in DOMAIN history' /\ history'[j] = history[j]
        BY <1>3 DEF Logs
      <3> QED
        BY <3>1, <3>2, <3>3
    <2>2. CASE i \notin DOMAIN facts
      <3>1. facts'[i].field \in DOMAIN e.what /\ facts'[i].value = e.what[facts'[i].field]
        BY <1>3, <2>2 DEF Updates, NewFacts
      <3>2. PICK j \in DOMAIN history' \ DOMAIN history : history'[j].field = facts'[i].field
        BY <1>3, <3>1 DEF Logs
      <3>3. history'[j].value = e.what[history'[j].field]
        BY <1>3, <3>2 DEF Logs
      <3> QED
        BY <3>1, <3>2, <3>3
    <2> QED
      BY <2>1, <2>2
  <1> QED
    BY <1>2, <1>4, <1>5, <1>6, <1>7, <1>8 DEF IInv

LEMMA InitInv == Init => IInv
  <1> SUFFICES ASSUME Init PROVE IInv
    OBVIOUS
  <1>1. IsSuite(suite) /\ suite \in Suites
    BY OracleAssumption DEF Init
  <1>2. 0 \in 0..Len(suite) /\ 0 \in 0..(MaxEpochs - 1) /\ 0 \in 0..MaxRewinds
    BY <1>1, OracleAssumption DEF IsSuite
  <1>3. DOMAIN history = {} /\ DOMAIN facts = {} /\ DOMAIN mesa = {} /\ Len(mesa) = 0
    BY DEF Init
  <1>4. Committed = {} /\ Cardinality(Committed) = 0 /\ IsFiniteSet(Committed)
    BY <1>3, FS_EmptySet DEF Committed
  <1>5. \A S : <<>> \in Seq(S)
    OBVIOUS
  <1>6. TypeOK
    BY <1>1, <1>2, <1>3, <1>4, <1>5 DEF Init, TypeOK
  <1> QED
    BY <1>3, <1>4, <1>6 DEF Init, IInv, CommittedInOrder, AppliedIsCommitted, RowsOfEvents,
       InMesaOrder, FactsWereTold, Rows

LEMMA NextInv == IInv /\ [Next]_vars => IInv'
  <1> SUFFICES ASSUME IInv, [Next]_vars PROVE IInv'
    OBVIOUS
  <1>1. Quiet \/ (\E e, p : Takes(e, p)) \/ (\E p : Lags(p))
    BY StepKinds DEF IInv
  <1> QED
    BY <1>1, QuietKeeps, TakesKeeps, LagsKeeps

-----------------------------------------------------------------------------
(***************************************************************************)
(* The theorems.                                                           *)
(***************************************************************************)

THEOREM Invariance == Spec => []IInv
  BY InitInv, NextInv, PTL DEF Spec

\* The types of the oracle's tables and of MESA's commits.
THEOREM TypeCorrect == Spec => []TypeOK
  <1>1. IInv => TypeOK
    BY DEF IInv
  <1> QED
    BY <1>1, Invariance, PTL

LEMMA OneRowEach ==
  ASSUME IInv, NEW p \in Plays, NEW f \in Fields
  PROVE  Cardinality({j \in Rows(f) : history[j].event = p})
           = IF p \in events /\ f \in DOMAIN suite[p[2]].what THEN 1 ELSE 0
  <1> DEFINE S == {j \in Rows(f) : history[j].event = p}
  <1>1. S # {} <=> p \in events /\ f \in DOMAIN suite[p[2]].what
    BY DEF IInv, RowsOfEvents
  <1>2. \A i, j \in S : i = j
    BY DEF IInv, RowsOfEvents, Rows
  <1> HIDE DEF S
  <1>3. CASE S = {}
    BY <1>1, <1>3, FS_EmptySet DEF S
  <1>4. CASE S # {}
    <2>1. PICK j \in S : TRUE
      BY <1>4
    <2>2. S = {j}
      BY <1>2
    <2>3. Cardinality(S) = 1
      BY <2>2, FS_Singleton
    <2> QED
      BY <1>1, <1>4, <2>3 DEF S
  <1> QED
    BY <1>3, <1>4

\* Every write MESA committed in time is in the oracle once, nothing else is, and the
\* oracle took them in MESA's order but for the late ones: whatever the suite, and
\* however often a resumed run plays it again.
THEOREM TakenOnce == Spec => []OncePerCommit
  <1>1. IInv => OncePerCommit
    <2> SUFFICES ASSUME IInv PROVE OncePerCommit
      OBVIOUS
    <2>1. \A p \in Plays, f \in Fields :
            Cardinality({j \in Rows(f) : history[j].event = p})
              = IF p \in events /\ f \in DOMAIN suite[p[2]].what THEN 1 ELSE 0
      BY OneRowEach
    <2>2. AppliedIsCommitted /\ InMesaOrder
      BY DEF IInv
    <2> QED
      BY <2>1, <2>2 DEF OncePerCommit, AppliedIsCommitted, InMesaOrder
  <1> QED
    BY <1>1, Invariance, PTL

LEMMA FactValues ==
  ASSUME TypeOK, NEW i \in DOMAIN facts
  PROVE  facts[i].value \in Values
  <1>1. facts \in Seq(Fact)
    BY DEF TypeOK, Fact
  <1>2. i \in 1..Len(facts)
    BY <1>1, LenProperties
  <1>3. facts[i] \in Fact
    BY <1>1, <1>2, ElementOfSeq
  <1> QED
    BY <1>3 DEF Fact

\* A forgotten field reads as null, and the judge forbids every value it ever had.
THEOREM ForgettingIsSound == Spec => []ForgottenIsForbidden
  <1>1. IInv => ForgottenIsForbidden
    <2> SUFFICES ASSUME IInv, NEW f \in Fields, IsForgotten(f)
                 PROVE  /\ CurrentFact(f) = NoValue
                        /\ {facts[i].value : i \in {j \in DOMAIN facts : facts[j].field = f}}
                             \subseteq ForbiddenValues(f)
      BY DEF ForgottenIsForbidden
    <2>1. CurrentFact(f) = NoValue
      BY DEF IsForgotten, CurrentFact
    <2>2. ASSUME NEW i \in DOMAIN facts, facts[i].field = f
          PROVE  facts[i].value \in ForbiddenValues(f)
      <3>1. facts[i].value \in Values
        BY FactValues DEF IInv
      <3>2. facts[i].value # NoValue
        BY <3>1, OracleAssumption
      <3>3. PICK j \in Rows(f) : history[j].value = facts[i].value
        BY <2>2 DEF IInv, FactsWereTold
      <3> QED
        BY <3>2, <3>3 DEF ForbiddenValues
    <2> QED
      BY <2>1, <2>2
  <1> QED
    BY <1>1, Invariance, PTL

-----------------------------------------------------------------------------
(***************************************************************************)
(* The tables implement the ground truth.                                  *)
(***************************************************************************)

\* What the tables hold to be true of a field.
TruthOf(f) == IF Current(f) # {} THEN CurrentFact(f)
              ELSE IF IsForgotten(f) THEN Forgotten ELSE Unknown

LEMMA LargestIs ==
  ASSUME NEW C \in SUBSET Nat, NEW m \in C, \A j \in C : j <= m
  PROVE  (CHOOSE i \in C : \A j \in C : j <= i) = m
  <1> DEFINE c == CHOOSE i \in C : \A j \in C : j <= i
  <1>1. c \in C /\ \A j \in C : j <= c
    OBVIOUS
  <1> HIDE DEF c
  <1>2. c = m
    BY <1>1
  <1> QED
    BY <1>2 DEF c

\* A field with a current fact is what its latest one says; without one it has no value.
LEMMA TruthIsValue ==
  ASSUME IInv, NEW f \in Fields
  PROVE  /\ Current(f) # {} <=> TruthOf(f) \in Values
         /\ TruthOf(f) \in Values \cup {Unknown, Forgotten}
  <1>1. CASE Current(f) # {}
    <2>1. Len(facts) \in Nat /\ Current(f) \in SUBSET (1..Len(facts))
      BY LenProperties DEF IInv, TypeOK, Current
    <2>2. PICK m \in Current(f) : \A j \in Current(f) : j <= m
      BY <1>1, <2>1, LargestNumber
    <2>3. Current(f) \in SUBSET Nat
      BY <2>1
    <2>4. CurrentFact(f) = facts[m].value
      BY <1>1, <2>2, <2>3, LargestIs DEF CurrentFact
    <2>5. facts[m].value \in Values
      BY FactValues DEF IInv, Current
    <2> QED
      BY <1>1, <2>4, <2>5 DEF TruthOf
  <1>2. CASE Current(f) = {}
    BY <1>2, OracleAssumption DEF TruthOf
  <1> QED
    BY <1>1, <1>2

\* What an event does not name stays true, and no value is added to what was told.
LEMMA OthersStay ==
  ASSUME IInv, NEW e, NEW p, Takes(e, p), NEW f \in Fields, f \notin DOMAIN e.what
  PROVE  TruthOf(f)' = TruthOf(f) /\ ForbiddenValues(f)' = ForbiddenValues(f)
  <1>1. Logs(e, p) /\ Updates(e)
    BY TakesGrows DEF IInv
  <1>2. Current(f)' = Current(f) /\ \A i \in Current(f) : facts'[i].value = facts[i].value
    <2>1. \A i \in DOMAIN facts' : facts'[i].field = f => i \in DOMAIN facts
      BY <1>1 DEF Updates, NewFacts
    <2>2. DOMAIN facts \subseteq DOMAIN facts'
      BY <1>1 DEF Updates
    <2>3. \A i \in DOMAIN facts : /\ facts'[i].field = facts[i].field
                                  /\ facts'[i].value = facts[i].value
                                  /\ facts[i].field = f => facts'[i].status = facts[i].status
      BY <1>1 DEF Updates
    <2> QED
      BY <2>1, <2>2, <2>3 DEF Current
  <1>3. CurrentFact(f)' = CurrentFact(f)
    <2>1. CASE Current(f) = {}
      BY <1>2, <2>1 DEF CurrentFact
    <2>2. CASE Current(f) # {}
      <3>1. Len(facts) \in Nat /\ Current(f) \in SUBSET (1..Len(facts))
        BY LenProperties DEF IInv, TypeOK, Current
      <3>2. PICK m \in Current(f) : \A j \in Current(f) : j <= m
        BY <2>2, <3>1, LargestNumber
      <3>3. Current(f) \in SUBSET Nat
        BY <3>1
      <3>4. (CHOOSE i \in Current(f) : \A j \in Current(f) : j <= i) = m
        BY <3>2, <3>3, LargestIs
      <3>5. CurrentFact(f) = facts[m].value
        BY <2>2, <3>4 DEF CurrentFact
      <3>6. CurrentFact(f)' = facts'[m].value
        BY <1>2, <2>2, <3>4 DEF CurrentFact
      <3> QED
        BY <1>2, <3>5, <3>6
    <2> QED
      BY <2>1, <2>2
  <1>4. Rows(f)' = Rows(f) /\ \A j \in Rows(f) : history'[j] = history[j]
    <2>1. \A j \in DOMAIN history' : history'[j].field = f => j \in DOMAIN history
      BY <1>1 DEF Logs
    <2>2. DOMAIN history \subseteq DOMAIN history' /\ \A j \in DOMAIN history : history'[j] = history[j]
      BY <1>1 DEF Logs
    <2> QED
      BY <2>1, <2>2 DEF Rows
  <1>5. IsForgotten(f)' <=> IsForgotten(f)
    BY <1>2, <1>4 DEF IsForgotten
  <1>6. ForbiddenValues(f)' = ForbiddenValues(f)
    BY <1>4 DEF ForbiddenValues
  <1> QED
    BY <1>2, <1>3, <1>5, <1>6 DEF TruthOf

\* What an event names takes its value, unless it is remembered over a current one.
LEMMA NamedChange ==
  ASSUME IInv, NEW e, NEW p, Takes(e, p), NEW f \in DOMAIN e.what, e.kind # "forget"
  PROVE  /\ TruthOf(f)' = IF e.kind = "remember" /\ Current(f) # {} THEN TruthOf(f) ELSE e.what[f]
         /\ ForbiddenValues(f)' = ForbiddenValues(f) \cup {e.what[f]}
  <1>1. Logs(e, p) /\ Updates(e) /\ IsEvent(e)
    BY TakesGrows DEF IInv, Takes
  <1>2. e.what[f] \in Values /\ e.what[f] # NoValue /\ f \in Fields
    BY <1>1, EventShape, OracleAssumption
  <1>3. ForbiddenValues(f)' = ForbiddenValues(f) \cup {e.what[f]}
    <2>1. PICK j \in DOMAIN history' \ DOMAIN history : history'[j].field = f
      BY <1>1 DEF Logs
    <2>2. \A i \in DOMAIN history' \ DOMAIN history :
            history'[i].field = f => history'[i].value = e.what[f]
      BY <1>1 DEF Logs
    <2>3. DOMAIN history \subseteq DOMAIN history' /\ \A i \in DOMAIN history : history'[i] = history[i]
      BY <1>1 DEF Logs
    <2> QED
      BY <1>2, <2>1, <2>2, <2>3 DEF ForbiddenValues, Rows
  <1>4. e.kind = "remember" => (Repeats(e) <=> Current(f) # {})
    <2>1. e.kind = "remember" => DOMAIN e.what = {f}
      BY <1>1 DEF IsEvent
    <2> QED
      BY <2>1 DEF Repeats
  <1>5. CASE Repeats(e)
    <2>1. e.kind = "remember" /\ facts' = facts
      BY <1>5 DEF Takes, Repeats, FactsAfter, Remembered
    <2>2. Current(f)' = Current(f) /\ CurrentFact(f)' = CurrentFact(f)
      BY <2>1 DEF Current, CurrentFact
    <2>3. Current(f) # {}
      BY <1>4, <1>5, <2>1
    <2> QED
      BY <1>3, <2>1, <2>2, <2>3 DEF TruthOf
  <1>6. CASE ~Repeats(e)
    <2>1. PICK m \in NewFacts : facts'[m].field = f
      BY <1>1, <1>6 DEF Updates
    <2>2. facts'[m].status = "CURRENT" /\ facts'[m].value = e.what[f]
      BY <1>1, <2>1 DEF Updates
    <2>3. m \in Current(f)'
      BY <2>1, <2>2 DEF Current, NewFacts
    <2>4. ASSUME NEW j \in Current(f)' PROVE j <= m
      <3>1. CASE j \in NewFacts
        BY <1>1, <2>1, <2>4, <3>1 DEF Updates, Current
      <3>2. CASE j \notin NewFacts
        BY <1>1, <2>4, <3>2 DEF Updates, Current, NewFacts
      <3> QED
        BY <3>1, <3>2
    <2>5. Current(f)' \in SUBSET Nat
      BY <1>1 DEF Updates, Current
    <2>6. (CHOOSE i \in Current(f)' : \A j \in Current(f)' : j <= i) = m
      BY <2>3, <2>4, <2>5, LargestIs
    <2>7. CurrentFact(f)' = e.what[f]
      BY <2>2, <2>3, <2>6 DEF CurrentFact
    <2> QED
      BY <1>3, <1>4, <1>6, <2>3, <2>7 DEF TruthOf
  <1> QED
    BY <1>5, <1>6

\* What an event forgets reads as forgotten, and nothing more is told.
LEMMA NamedForgotten ==
  ASSUME IInv, NEW e, NEW p, Takes(e, p), NEW f \in DOMAIN e.what, e.kind = "forget"
  PROVE  TruthOf(f)' = Forgotten /\ ForbiddenValues(f)' = ForbiddenValues(f)
  <1>1. Logs(e, p) /\ Updates(e) /\ IsEvent(e)
    BY TakesGrows DEF IInv, Takes
  <1>2. e.what[f] = NoValue
    BY <1>1, EventShape
  <1>3. PICK j \in DOMAIN history' \ DOMAIN history : history'[j].field = f
    BY <1>1 DEF Logs
  <1>4. \A i \in DOMAIN history' \ DOMAIN history :
          /\ history'[i].action = "forget"
          /\ history'[i].field = f => history'[i].value = NoValue /\ i = j
    BY <1>1, <1>2, <1>3 DEF Logs
  <1>5. DOMAIN history \subseteq DOMAIN history' /\ \A i \in DOMAIN history : history'[i] = history[i]
    BY <1>1 DEF Logs
  <1>6. Current(f)' = {}
    <2> SUFFICES ASSUME NEW i \in DOMAIN facts', facts'[i].field = f, facts'[i].status = "CURRENT"
                 PROVE  FALSE
      BY DEF Current
    <2>1. i \in NewFacts => FALSE
      BY <1>1 DEF Updates, NewFacts
    <2>2. i \in DOMAIN facts
      BY <2>1 DEF NewFacts
    <2> QED
      BY <1>1, <2>2 DEF Updates, Closes
  <1>7. \A k \in Rows(f)' : k <= j
    <2> SUFFICES ASSUME NEW k \in DOMAIN history', history'[k].field = f
                 PROVE  k <= j
      BY DEF Rows
    <2>1. CASE k \in DOMAIN history
      BY <1>1, <1>3, <2>1 DEF Logs
    <2>2. CASE k \notin DOMAIN history
      <3>1. k = j
        BY <1>4, <2>2
      <3> QED
        BY <1>1, <3>1 DEF Logs
    <2> QED
      BY <2>1, <2>2
  <1>8. IsForgotten(f)'
    <2>1. j \in Rows(f)' /\ history'[j].action = "forget"
      BY <1>3, <1>4 DEF Rows
    <2> QED
      BY <1>6, <1>7, <2>1 DEF IsForgotten
  <1>9. ForbiddenValues(f)' = ForbiddenValues(f)
    BY <1>4, <1>5 DEF ForbiddenValues, Rows
  <1> QED
    BY <1>6, <1>8, <1>9 DEF TruthOf

\* The refinement mapping, named.
TruthFn == [f \in Fields |-> TruthOf(f)]
ToldFn  == [f \in Fields |-> ForbiddenValues(f)]

LEMMA InitTruth == Init => Truth!Init
  <1> SUFFICES ASSUME Init, NEW f \in Fields
               PROVE  /\ (IF Current(f) # {} THEN CurrentFact(f)
                          ELSE IF IsForgotten(f) THEN Forgotten ELSE Unknown) = Unknown
                      /\ ForbiddenValues(f) = {}
    BY DEF Truth!Init
  <1>1. DOMAIN facts = {} /\ DOMAIN history = {}
    BY DEF Init
  <1>2. Current(f) = {} /\ Rows(f) = {}
    BY <1>1 DEF Current, Rows
  <1> QED
    BY <1>2 DEF IsForgotten, ForbiddenValues

\* What an applied event does to the truth.
LEMMA TakesTruth ==
  ASSUME IInv, NEW e, NEW p, Takes(e, p)
  PROVE  Truth!Next
  <1> DEFINE D == DOMAIN e.what
  <1>1. /\ IsEvent(e) /\ e.kind \in WriteKinds /\ D \subseteq Fields
        /\ \A f \in D : e.kind # "forget" => e.what[f] \in Values
    BY EventShape DEF Takes
  <1>2. \A f \in Fields \ D : TruthFn'[f] = TruthFn[f] /\ ToldFn'[f] = ToldFn[f]
    BY OthersStay DEF TruthFn, ToldFn
  <1>3. \A f \in D : e.kind # "forget" =>
          /\ TruthFn'[f] = IF e.kind = "remember" /\ TruthFn[f] \in Values THEN TruthFn[f] ELSE e.what[f]
          /\ ToldFn'[f] = ToldFn[f] \cup {e.what[f]}
    BY <1>1, NamedChange, TruthIsValue DEF TruthFn, ToldFn
  <1>4. \A f \in D : e.kind = "forget" => TruthFn'[f] = Forgotten /\ ToldFn'[f] = ToldFn[f]
    BY <1>1, NamedForgotten DEF TruthFn, ToldFn
  <1>5. /\ DOMAIN TruthFn = Fields /\ DOMAIN TruthFn' = Fields
        /\ DOMAIN ToldFn = Fields /\ DOMAIN ToldFn' = Fields
    BY DEF TruthFn, ToldFn
  <1>6. CASE e.kind = "remember"
    <2>1. PICK f \in Fields : D = {f}
      BY <1>1, <1>6 DEF IsEvent
    <2>2. e.what[f] \in Values
      BY <1>1, <1>6, <2>1
    <2>3. ToldFn' = [ToldFn EXCEPT ![f] = @ \cup {e.what[f]}]
      BY <1>2, <1>3, <1>5, <1>6, <2>1 DEF ToldFn
    <2>4. TruthFn' = [TruthFn EXCEPT ![f] = IF @ \in Values THEN @ ELSE e.what[f]]
      BY <1>2, <1>3, <1>5, <1>6, <2>1 DEF TruthFn
    <2>5. Truth!Remember(f, e.what[f])
      BY <2>3, <2>4 DEF Truth!Remember, Truth!Hear, TruthFn, ToldFn, TruthOf
    <2> QED
      BY <2>2, <2>5 DEF Truth!Next
  <1>7. CASE e.kind = "correct"
    <2>1. PICK f \in Fields : D = {f}
      BY <1>1, <1>7 DEF IsEvent
    <2>2. e.what[f] \in Values
      BY <1>1, <1>7, <2>1
    <2>3. ToldFn' = [ToldFn EXCEPT ![f] = @ \cup {e.what[f]}]
      BY <1>2, <1>3, <1>5, <1>7, <2>1 DEF ToldFn
    <2>4. TruthFn' = [TruthFn EXCEPT ![f] = e.what[f]]
      BY <1>2, <1>3, <1>5, <1>7, <2>1 DEF TruthFn
    <2>5. Truth!Correct(f, e.what[f])
      BY <2>3, <2>4 DEF Truth!Correct, Truth!Hear, TruthFn, ToldFn, TruthOf
    <2> QED
      BY <2>2, <2>5 DEF Truth!Next
  <1>8. CASE e.kind = "forget"
    <2>1. PICK f \in Fields : D = {f}
      BY <1>1, <1>8 DEF IsEvent
    <2>2. ToldFn' = ToldFn
      BY <1>2, <1>4, <1>5, <1>8, <2>1 DEF ToldFn
    <2>3. TruthFn' = [TruthFn EXCEPT ![f] = Forgotten]
      BY <1>2, <1>4, <1>5, <1>8, <2>1 DEF TruthFn
    <2>4. Truth!Forget(f)
      BY <2>2, <2>3 DEF Truth!Forget, TruthFn, ToldFn, TruthOf
    <2> QED
      BY <2>4 DEF Truth!Next
  <1>9. CASE e.kind = "multi_fact"
    <2> DEFINE given == [f \in D |-> e.what[f]]
    <2>1. given \in [D -> Values]
      BY <1>1, <1>9
    <2>2. ToldFn' = [f \in Fields |-> ToldFn[f] \cup IF f \in DOMAIN given THEN {given[f]} ELSE {}]
      BY <1>2, <1>3, <1>5, <1>9 DEF ToldFn
    <2>3. TruthFn' = [f \in Fields |-> IF f \in DOMAIN given THEN given[f] ELSE TruthFn[f]]
      BY <1>2, <1>3, <1>5, <1>9 DEF TruthFn
    <2> HIDE DEF given
    <2>4. Truth!RememberMany(given)
      BY <2>2, <2>3 DEF Truth!RememberMany, TruthFn, ToldFn, TruthOf
    <2> QED
      BY <1>1, <2>1, <2>4 DEF Truth!Next
  <1> QED
    BY <1>1, <1>6, <1>7, <1>8, <1>9 DEF WriteKinds

\* Every step changes what is true as an event applied does, or not at all.
LEMMA NextTruth == IInv /\ [Next]_vars => [Truth!Next]_(Truth!vars)
  <1> SUFFICES ASSUME IInv, [Next]_vars PROVE [Truth!Next]_(Truth!vars)
    OBVIOUS
  <1>1. Quiet \/ (\E e, p : Takes(e, p)) \/ (\E p : Lags(p))
    BY StepKinds DEF IInv
  <1>2. ASSUME UNCHANGED tables PROVE UNCHANGED Truth!vars
    BY <1>2 DEF tables, Truth!vars, Current, CurrentFact, IsForgotten, ForbiddenValues, Rows
  <1>3. Quiet => UNCHANGED tables
    BY DEF Quiet, tables
  <1>4. \A p : Lags(p) => UNCHANGED tables
    BY DEF Lags, tables
  <1> QED
    BY <1>1, <1>2, <1>3, <1>4, TakesTruth

\* The oracle's tables implement the ground truth: what the judge reads is what the
\* events applied make true, for every suite and every history of crashes and resumes.
THEOREM OracleImplementsTruth == Spec => ImplementsTruth
  BY InitTruth, NextTruth, Invariance, PTL DEF Spec, ImplementsTruth, Truth!Spec
=============================================================================

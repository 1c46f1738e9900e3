-------------------------- MODULE CrashResumeProofs --------------------------
(***************************************************************************)
(* Theorems about CrashResume for every number of controllers, bugs and    *)
(* commits: what a crash leaves in git, the row and the bugs table.        *)
(***************************************************************************)
EXTENDS CrashResume, FiniteSetTheorems, SequenceTheorems, TLAPS

(***************************************************************************)
(* The inductive invariant.                                                *)
(***************************************************************************)

AllSaved == \A c \in 1..Tip : commits[c].saved

\* Before the row is written nothing was done, and until the services are
\* started for the first time nothing is committed and the row names no worktree.
Beginning ==
  /\ ~row.written => pc = "off" /\ row = NoRow /\ mem = Blank
  /\ ~row.written \/ pc \in {"preflight", "created"} =>
       ~row.worktree /\ table = <<>> /\ commits = <<>>

\* Every controller past its preflight knows the worktree.
KnowsTree == pc \notin {"off", "preflight"} => mem.worktree

\* A row that names the worktree but no HEAD was written after the teardown.
HeadUnlessGone == row.worktree /\ row.head = NoHead => ~tree

\* The HEAD of the row is one whose commits are all saved; those of the branch
\* are, too, except between a commit and the next write of the row.
SavedUpToHead ==
  /\ serving # Down => serving <= Tip
  /\ row.head # NoHead => row.head <= Tip /\ \A c \in 1..row.head : commits[c].saved
  /\ pc \notin {"off", "committed", "recorded"} => AllSaved

\* The bug under repair is the last one, and its row waits for a verdict.
InRepair ==
  pc \in Repairing =>
    /\ inHand \in Anomalies
    /\ mem.bugs \in DOMAIN table /\ table[mem.bugs].status = "CONFIRMED"
    /\ mem.verified < mem.bugs

\* The verified rows of a bugs table, and those among the first n bugs.
AllVerified(t) == {id \in DOMAIN t : t[id].status = "VERIFIED"}
VerifiedUpTo(t, n) == {id \in AllVerified(t) : id <= n}

\* The row never counts more verified repairs than the controller that wrote it,
\* nor the controller more than the rows its own numbers have.
Counts ==
  /\ mem.verified <= mem.bugs
  /\ pc # "off" => row.verified <= mem.verified
                   /\ mem.verified <= Cardinality(VerifiedUpTo(table, mem.bugs))

\* Verdicts are on a HEAD there was; at the live recheck the row has the newest.
VerdictHeads ==
  /\ \A id \in DOMAIN table : table[id].on <= Tip
  /\ pc = "live" => row.head = Tip

\* What is in git and in the row, and what of it is served.
GitInv == Beginning /\ KnowsTree /\ HeadUnlessGone /\ SavedUpToHead /\ ServedIsSaved

\* What is in the bugs table.
BugsInv == InRepair /\ Counts /\ VerdictHeads /\ StoresAgree

IInv == TypeOK /\ GitInv /\ BugsInv

-----------------------------------------------------------------------------
(***************************************************************************)
(* The row, the table and the branch.                                      *)
(***************************************************************************)

\* A write of the row keeps it well-formed, and has the HEAD if there is one.
LEMMA SavesType ==
  ASSUME TypeOK, NEW known \in [worktree : BOOLEAN, bugs : 0..MaxBugs, verified : 0..MaxBugs],
         Saves(known)
  PROVE  /\ row' \in [written : BOOLEAN, worktree : BOOLEAN, head : Heads \cup {NoHead},
                      verified : 0..MaxBugs]
         /\ row'.written /\ row'.worktree = known.worktree
         /\ row'.head = (IF known.worktree /\ tree THEN Tip ELSE NoHead)
         /\ row'.verified = known.verified
  BY ResumeAssumption DEF TypeOK, Saves, HeadNow, Heads, Tip, NoHead

\* A new controller has counted nothing; a resumed one has its worktree.
LEMMA NewController ==
  /\ Blank \in [worktree : BOOLEAN, bugs : 0..MaxBugs, verified : 0..MaxBugs]
  /\ Restored \in [worktree : BOOLEAN, bugs : 0..MaxBugs, verified : 0..MaxBugs]
  /\ ~Blank.worktree /\ Blank.bugs = 0 /\ Blank.verified = 0
  /\ Restored.worktree /\ Restored.bugs = 0 /\ Restored.verified = 0
  <1>1. /\ Blank \in [worktree : BOOLEAN, bugs : 0..MaxBugs, verified : 0..MaxBugs]
        /\ ~Blank.worktree /\ Blank.bugs = 0 /\ Blank.verified = 0
    BY ResumeAssumption DEF Blank
  <1>2. Restored = [Blank EXCEPT !.worktree = TRUE]
    BY DEF Restored
  <1> QED
    BY <1>1, <1>2

\* record_bug leaves a well-formed table.
LEMMA RecordedType ==
  ASSUME TypeOK, NEW id \in Ids, NEW a \in Anomalies, NEW s \in Verdicts
  PROVE  /\ DOMAIN Recorded(id, a, s) \subseteq Ids
         /\ \A i \in DOMAIN Recorded(id, a, s) :
              Recorded(id, a, s)[i] \in [about : Anomalies, status : Verdicts, on : Heads]
  BY ResumeAssumption DEF TypeOK, Recorded, Heads, Tip

\* A function on 1..n is a sequence of length n.
LEMMA SequenceOfFunction ==
  ASSUME NEW S, NEW m \in Nat, NEW f \in [1..m -> S]
  PROVE  f \in Seq(S) /\ Len(f) = m
  OBVIOUS

\* The commits of a controller that has written the row are all saved.
LEMMA NotedCommits ==
  ASSUME TypeOK, commits' = Noted
  PROVE  /\ commits' \in Seq([repairs : Anomalies, saved : BOOLEAN])
         /\ Len(commits') = Tip /\ AllSaved'
  <1>1. DOMAIN commits = 1..Tip /\ Tip \in Nat
    BY DEF TypeOK, Tip
  <1>2. ASSUME NEW c \in 1..Tip
        PROVE  commits'[c] \in [repairs : Anomalies, saved : BOOLEAN] /\ commits'[c].saved
    <2>1. commits[c] \in [repairs : Anomalies, saved : BOOLEAN]
      BY <1>1, ElementOfSeq DEF TypeOK, Tip
    <2>2. commits'[c] = [commits[c] EXCEPT !.saved = TRUE]
      BY <1>1 DEF Noted
    <2> QED
      BY <2>1, <2>2
  <1>3. commits' \in [1..Tip -> [repairs : Anomalies, saved : BOOLEAN]]
    BY <1>1, <1>2 DEF Noted
  <1>4. commits' \in Seq([repairs : Anomalies, saved : BOOLEAN]) /\ Len(commits') = Tip
    BY <1>1, <1>3, SequenceOfFunction
  <1> QED
    BY <1>2, <1>4 DEF AllSaved, Tip

-----------------------------------------------------------------------------
(***************************************************************************)
(* The invariant is inductive.                                             *)
(***************************************************************************)

LEMMA InitInv == Init => IInv
  <1> SUFFICES ASSUME Init PROVE IInv
    OBVIOUS
  <1> USE ResumeAssumption DEF Init, NoRow, Blank, Tip, NoHead, Down
  <1>1. TypeOK
    <2>1. row \in [written : BOOLEAN, worktree : BOOLEAN, head : Heads \cup {NoHead},
                   verified : 0..MaxBugs]
      BY DEF Heads
    <2>2. mem \in [worktree : BOOLEAN, bugs : 0..MaxBugs, verified : 0..MaxBugs]
      OBVIOUS
    <2>3. DOMAIN table = {}
      OBVIOUS
    <2>4. commits \in Seq([repairs : Anomalies, saved : BOOLEAN]) /\ Tip <= MaxCommits
      BY EmptySeq
    <2>5. pc \in Positions /\ life \in 0..MaxLives /\ serving \in Heads \cup {Down}
      BY DEF Positions
    <2>6. inHand \in Anomalies \cup {None} /\ tree \in BOOLEAN /\ mainChanged \in BOOLEAN
      OBVIOUS
    <2>7. /\ DOMAIN table \subseteq Ids
          /\ \A id \in DOMAIN table : table[id] \in [about : Anomalies, status : Verdicts, on : Heads]
      BY <2>3
    <2> QED
      BY <2>1, <2>2, <2>4, <2>5, <2>6, <2>7 DEF TypeOK
  <1>2. GitInv
    BY DEF GitInv, Beginning, KnowsTree, HeadUnlessGone, SavedUpToHead, ServedIsSaved
  <1>3. InRepair /\ VerdictHeads /\ Counts
    BY DEF InRepair, VerdictHeads, Counts, Repairing
  <1>4. StoresAgree
    <2>1. {id \in DOMAIN table : table[id].status = "VERIFIED"} = {}
      OBVIOUS
    <2> QED
      BY <2>1, FS_EmptySet DEF StoresAgree
  <1> QED
    BY <1>1, <1>2, <1>3, <1>4 DEF IInv, BugsInv

\* Every step leaves every variable in its type.
LEMMA TypeStep == IInv /\ [Next]_vars => TypeOK'
  <1> SUFFICES ASSUME IInv, [Next]_vars PROVE TypeOK'
    OBVIOUS
  <1> USE ResumeAssumption DEF IInv, TypeOK, Positions, Repairing, disk
  <1>0. 0 \in 0..MaxBugs /\ Tip \in Heads /\ Tip \in Nat
    BY DEF Tip, Heads
  <1>1. ASSUME Initialize PROVE TypeOK'
    BY <1>1, NewController, SavesType DEF Initialize, Tip
  <1>2. ASSUME CreateCandidate \/ StartMesa PROVE TypeOK'
    BY <1>2, SavesType DEF CreateCandidate, StartMesa, Tip
  <1>3. ASSUME Resume \/ Refused PROVE TypeOK'
    BY <1>3, NewController, SavesType DEF Resume, Refused, Tip
  <1>4. ASSUME Running \/ End \/ Crash PROVE TypeOK'
    BY <1>0, <1>4, SavesType DEF Running, End, Crash, Tip, Down, None
  <1>5. ASSUME NEW a \in Anomalies, Confirm(a) PROVE TypeOK'
    <2>1. NextId \in Ids /\ "CONFIRMED" \in Verdicts
      BY <1>5 DEF Confirm, NextId, Ids, Verdicts
    <2>2. /\ DOMAIN table' \subseteq Ids
          /\ \A i \in DOMAIN table' :
               table'[i] \in [about : Anomalies, status : Verdicts, on : Heads]
      BY <1>5, <2>1, RecordedType DEF Confirm
    <2>3. mem' \in [worktree : BOOLEAN, bugs : 0..MaxBugs, verified : 0..MaxBugs]
      BY <1>5 DEF Confirm
    <2> QED
      BY <1>5, <2>2, <2>3, SavesType DEF Confirm, Tip
  <1>6. ASSUME Commit PROVE TypeOK'
    <2>1. inHand \in Anomalies
      BY <1>6 DEF Commit, BugsInv, InRepair
    <2>2. [repairs |-> inHand, saved |-> FALSE] \in [repairs : Anomalies, saved : BOOLEAN]
      BY <2>1
    <2>3. /\ commits' \in Seq([repairs : Anomalies, saved : BOOLEAN])
          /\ Len(commits') = Tip + 1
      BY <1>6, <2>2, AppendProperties DEF Commit, Tip
    <2> QED
      BY <1>0, <1>6, <2>3 DEF Commit, Tip
  <1>7. ASSUME Restarting PROVE TypeOK'
    BY <1>7, <1>0, SavesType, NotedCommits DEF Restarting, Tip
  <1>8. ASSUME LiveRecheck PROVE TypeOK'
    BY <1>8, <1>0, SavesType DEF LiveRecheck, Tip
  <1>9. ASSUME RepairFails \/ Verified PROVE TypeOK'
    <2>1. /\ inHand \in Anomalies /\ mem.bugs \in Ids
          /\ mem.verified + 1 \in 0..MaxBugs
      BY <1>9 DEF RepairFails, Verified, BugsInv, InRepair, Ids
    <2>2. PICK s \in Verdicts : table' = Recorded(mem.bugs, inHand, s)
      BY <1>9 DEF RepairFails, Verified, Verdicts
    <2>3. /\ DOMAIN table' \subseteq Ids
          /\ \A i \in DOMAIN table' :
               table'[i] \in [about : Anomalies, status : Verdicts, on : Heads]
      BY <2>1, <2>2, RecordedType
    <2>4. mem' \in [worktree : BOOLEAN, bugs : 0..MaxBugs, verified : 0..MaxBugs]
      BY <1>9, <2>1 DEF RepairFails, Verified
    <2> QED
      BY <1>9, <2>3, <2>4 DEF RepairFails, Verified, Tip
  <1>10. ASSUME Settle PROVE TypeOK'
    BY <1>10, SavesType, NotedCommits DEF Settle, Tip, None
  <1>11. ASSUME MainMoves \/ Teardown \/ UNCHANGED vars PROVE TypeOK'
    BY <1>11 DEF MainMoves, Teardown, vars, Tip
  <1> QED
    BY <1>1, <1>2, <1>3, <1>4, <1>5, <1>6, <1>7, <1>8, <1>9, <1>10, <1>11 DEF Next

\* No step serves, or lets a row name, a commit that is not saved.
LEMMA GitStep == IInv /\ [Next]_vars => GitInv'
  <1> SUFFICES ASSUME IInv, [Next]_vars PROVE GitInv'
    OBVIOUS
  <1> USE DEF IInv, GitInv, TypeOK, Beginning, KnowsTree, HeadUnlessGone, SavedUpToHead,
              ServedIsSaved, AllSaved, Repairing, NoHead, Down, disk
  <1>0. Tip \in Nat
    BY DEF Tip
  <1>1. ASSUME Initialize PROVE GitInv'
    BY <1>1, <1>0, NewController, SavesType DEF Initialize, Tip
  <1>2. ASSUME CreateCandidate PROVE GitInv'
    BY <1>2, <1>0 DEF CreateCandidate, Tip
  <1>3. ASSUME StartMesa \/ Running \/ LiveRecheck PROVE GitInv'
    BY <1>3, <1>0, SavesType DEF StartMesa, Running, LiveRecheck, Tip
  <1>4. ASSUME Resume PROVE GitInv'
    BY <1>4, <1>0, NewController, SavesType DEF Resume, Acceptable, HeadMatches, Tip
  <1>5. ASSUME Refused PROVE GitInv'
    BY <1>5, <1>0, NewController, SavesType DEF Refused, Tip
  <1>6. ASSUME End PROVE GitInv'
    BY <1>6, <1>0, SavesType DEF End, Tip
  <1>7. ASSUME Crash PROVE GitInv'
    BY <1>7, <1>0 DEF Crash, Tip
  <1>8. ASSUME NEW a \in Anomalies, Confirm(a) PROVE GitInv'
    BY <1>8, <1>0, SavesType DEF Confirm, Tip
  <1>9. ASSUME Commit PROVE GitInv'
    <2>1. [repairs |-> inHand, saved |-> FALSE] \in [repairs : Anomalies, saved : BOOLEAN]
      BY <1>9 DEF Commit, BugsInv, InRepair
    <2>2. Tip' = Tip + 1 /\ \A c \in 1..Tip : commits'[c] = commits[c]
      BY <1>9, <2>1, AppendProperties DEF Commit, Tip
    <2> QED
      BY <1>9, <1>0, <2>2 DEF Commit, Heads
  <1>10. ASSUME Restarting \/ Settle PROVE GitInv'
    <2>1. Tip' = Tip /\ AllSaved'
      BY <1>10, NotedCommits DEF Restarting, Settle, Tip
    <2>2. /\ row'.written /\ row'.worktree = mem.worktree
          /\ row'.head = (IF mem.worktree /\ tree THEN Tip ELSE NoHead)
      BY <1>10, SavesType DEF Restarting, Settle
    <2>3. /\ pc' \in {"restarting", "running"} /\ serving' \in {serving, Down}
          /\ UNCHANGED <<mem, tree>>
      BY <1>10 DEF Restarting, Settle
    <2>4. mem.worktree
      BY <1>10 DEF Restarting, Settle
    <2> QED
      BY <1>0, <2>1, <2>2, <2>3, <2>4 DEF Heads
  <1>11. ASSUME RepairFails \/ Verified PROVE GitInv'
    BY <1>11, <1>0 DEF RepairFails, Verified, Tip
  <1>12. ASSUME MainMoves \/ Teardown \/ UNCHANGED vars PROVE GitInv'
    BY <1>12, <1>0 DEF MainMoves, Teardown, vars, Tip
  <1> QED
    BY <1>1, <1>2, <1>3, <1>4, <1>5, <1>6, <1>7, <1>8, <1>9, <1>10, <1>11, <1>12 DEF Next

\* The verified rows below a number are finite, and fewer below a smaller one.
LEMMA VerifiedRowsFinite ==
  ASSUME NEW t, DOMAIN t \subseteq Ids, NEW n \in Nat
  PROVE  /\ IsFiniteSet(VerifiedUpTo(t, n)) /\ Cardinality(VerifiedUpTo(t, n)) \in Nat
         /\ Cardinality(AllVerified(t)) \in Nat
         /\ Cardinality(VerifiedUpTo(t, n)) <= Cardinality(AllVerified(t))
  <1>1. IsFiniteSet(Ids)
    BY ResumeAssumption, FS_Interval DEF Ids
  <1>2. AllVerified(t) \in SUBSET Ids /\ VerifiedUpTo(t, n) \in SUBSET AllVerified(t)
    BY DEF VerifiedUpTo, AllVerified
  <1>3. IsFiniteSet(AllVerified(t))
    BY <1>1, <1>2, FS_Subset
  <1>4. /\ IsFiniteSet(VerifiedUpTo(t, n))
        /\ Cardinality(VerifiedUpTo(t, n)) <= Cardinality(AllVerified(t))
    BY <1>2, <1>3, FS_Subset
  <1> QED
    BY <1>3, <1>4, FS_CardinalityType

\* A step that neither touches the table nor counts, and writes at most the row
\* of the controller in hand, keeps the table in agreement with it.
LEMMA QuietStep ==
  ASSUME IInv, UNCHANGED table, Tip' = Tip \/ Tip' = Tip + 1,
         mem'.bugs = mem.bugs, mem'.verified = mem.verified,
         \/ row' = row
         \/ row'.verified = mem.verified /\ row'.head \in {Tip, NoHead},
         pc = "off" => pc' = "off" /\ row' = row,
         pc' \in Repairing => pc \in Repairing /\ inHand' = inHand,
         pc' = "live" => row'.head = Tip'
  PROVE  BugsInv'
  <1> USE DEF IInv, BugsInv
  <1>0. Tip \in Nat
    BY DEF TypeOK, Tip
  <1>2. InRepair' /\ VerdictHeads'
    BY <1>0 DEF InRepair, VerdictHeads, TypeOK, Heads
  <1>3. Counts'
    BY DEF Counts, TypeOK
  <1>4. mem.bugs \in Nat /\ mem.verified \in Nat
    BY ResumeAssumption DEF TypeOK
  <1>5. pc = "off" \/ mem.verified <= Cardinality(AllVerified(table))
    BY <1>4, VerifiedRowsFinite DEF Counts, TypeOK
  <1>6. StoresAgree'
    <2>1. CASE row' = row
      BY <2>1 DEF StoresAgree
    <2>2. CASE row' # row
      BY <1>0, <1>5, <2>2 DEF StoresAgree, AllVerified, VerdictHeads, TypeOK, Heads
    <2> QED
      BY <2>1, <2>2
  <1> QED
    BY <1>2, <1>3, <1>6

\* A live controller whose row has the newest HEAD, or none, and whose counts
\* are right leaves the stores in agreement.
LEMMA AgreeingStep ==
  ASSUME TypeOK', Counts', VerdictHeads', pc' # "off", row'.head \in {Tip', NoHead}
  PROVE  StoresAgree'
  <1>1. /\ row'.verified <= mem'.verified
        /\ mem'.verified <= Cardinality(VerifiedUpTo(table', mem'.bugs))
    BY DEF Counts
  <1>2. /\ mem'.bugs \in Nat /\ mem'.verified \in Nat /\ row'.verified \in Nat
        /\ DOMAIN table' \subseteq Ids /\ Tip' \in Nat
    BY ResumeAssumption DEF TypeOK, Tip
  <1>3. row'.verified <= Cardinality(AllVerified(table'))
    BY <1>1, <1>2, VerifiedRowsFinite
  <1> QED
    BY <1>2, <1>3 DEF StoresAgree, AllVerified, VerdictHeads

\* No step lets the row count a repair the bugs table has not, or the table have
\* a verdict on a HEAD the row has not come to.
LEMMA BugsStep == IInv /\ [Next]_vars => BugsInv'
  <1> SUFFICES ASSUME IInv, [Next]_vars PROVE BugsInv'
    OBVIOUS
  <1> USE DEF IInv, disk
  <1>0. /\ Tip \in Nat /\ mem.bugs \in Nat /\ mem.verified \in Nat
        /\ table = <<>> => DOMAIN table = {}
    BY ResumeAssumption DEF TypeOK, Tip
  <1>a. TypeOK'
    BY TypeStep
  <1>b. mem \in [worktree : BOOLEAN, bugs : 0..MaxBugs, verified : 0..MaxBugs]
    BY DEF TypeOK
  <1>1. ASSUME Initialize \/ Resume \/ Refused PROVE BugsInv'
    <2>1. /\ row'.verified = 0 /\ mem'.verified = 0 /\ mem'.bugs = 0
          /\ row'.head \in {Tip, NoHead}
      BY <1>1, NewController, SavesType
        DEF Initialize, Resume, Refused, GitInv, Beginning
    <2>2. UNCHANGED <<table, commits>> /\ pc' \in {"off", "preflight", "starting"}
      BY <1>1 DEF Initialize, Resume, Refused
    <2>3. /\ Cardinality(VerifiedUpTo(table, 0)) \in Nat
          /\ Cardinality(AllVerified(table)) \in Nat
      BY VerifiedRowsFinite DEF TypeOK
    <2> QED
      BY <1>0, <2>1, <2>2, <2>3
        DEF BugsInv, InRepair, Repairing, Counts, VerdictHeads, StoresAgree,
            AllVerified, TypeOK, Heads, Tip
  <1>2. ASSUME CreateCandidate \/ Crash \/ MainMoves \/ Teardown \/ UNCHANGED vars
        PROVE  BugsInv'
    BY <1>0, <1>2, QuietStep
      DEF CreateCandidate, Crash, MainMoves, Teardown, vars, Repairing, Tip,
          BugsInv, VerdictHeads, TypeOK
  <1>3. ASSUME StartMesa \/ Running \/ End \/ LiveRecheck PROVE BugsInv'
    BY <1>0, <1>3, <1>b, SavesType, QuietStep
      DEF StartMesa, Running, End, LiveRecheck, Repairing, Tip, GitInv, KnowsTree
  <1>4. ASSUME Commit PROVE BugsInv'
    <2>1. [repairs |-> inHand, saved |-> FALSE] \in [repairs : Anomalies, saved : BOOLEAN]
      BY <1>4 DEF Commit, BugsInv, InRepair, Repairing
    <2>2. Tip' = Tip + 1
      BY <1>4, <2>1, AppendProperties DEF Commit, Tip, TypeOK
    <2> QED
      BY <1>4, <2>2, QuietStep DEF Commit, Repairing
  <1>5. ASSUME Restarting \/ Settle PROVE BugsInv'
    <2>1. Tip' = Tip
      BY <1>5, NotedCommits DEF Restarting, Settle, Tip
    <2> QED
      BY <1>5, <1>b, <2>1, SavesType, QuietStep DEF Restarting, Settle, Repairing
  <1>6. ASSUME NEW a \in Anomalies, Confirm(a) PROVE BugsInv'
    <2>1. NextId \in Ids /\ "CONFIRMED" \in Verdicts /\ NextId = mem.bugs + 1
      BY <1>0, <1>6, ResumeAssumption DEF Confirm, NextId, Ids, Verdicts
    <2>2. /\ DOMAIN table' = DOMAIN table \cup {NextId}
          /\ table'[NextId].status = "CONFIRMED" /\ table'[NextId].on = Tip
          /\ \A i \in DOMAIN table \ {NextId} : table'[i] = table[i]
      BY <1>6, <2>1 DEF Confirm, Recorded
    <2>3. /\ mem'.bugs = mem.bugs + 1 /\ mem'.verified = mem.verified
          /\ inHand' = a /\ commits' = commits /\ pc = "running" /\ pc' = "confirmed"
      BY <1>6, <1>b DEF Confirm
    <2>4. row'.verified = mem.verified /\ row'.head \in {Tip, NoHead}
      BY <1>6, <1>b, SavesType DEF Confirm
    <2>5. VerifiedUpTo(table', mem'.bugs) = VerifiedUpTo(table, mem.bugs)
      BY <1>0, <2>1, <2>2, <2>3 DEF VerifiedUpTo, AllVerified, TypeOK, Ids
    <2>6. Counts'
      BY <1>0, <2>3, <2>4, <2>5 DEF BugsInv, Counts, TypeOK
    <2>7. InRepair' /\ VerdictHeads'
      BY <1>0, <2>1, <2>2, <2>3 DEF InRepair, VerdictHeads, BugsInv, Counts, Tip
    <2>8. StoresAgree'
      BY <1>a, <2>3, <2>4, <2>6, <2>7, AgreeingStep DEF Tip
    <2> QED
      BY <2>6, <2>7, <2>8 DEF BugsInv
  <1>7. ASSUME RepairFails PROVE BugsInv'
    <2>1. /\ inHand \in Anomalies /\ mem.bugs \in Ids /\ "FAILED" \in Verdicts
          /\ mem.bugs \in DOMAIN table /\ table[mem.bugs].status = "CONFIRMED"
      BY <1>7 DEF RepairFails, BugsInv, InRepair, TypeOK, Verdicts
    <2>2. /\ DOMAIN table' = DOMAIN table
          /\ table'[mem.bugs].status = "FAILED" /\ table'[mem.bugs].on = Tip
          /\ \A i \in DOMAIN table \ {mem.bugs} : table'[i] = table[i]
      BY <1>7, <2>1 DEF RepairFails, Recorded
    <2>3. UNCHANGED <<row, mem, commits>> /\ pc # "off" /\ pc' = "recorded"
      BY <1>7 DEF RepairFails, Repairing
    <2>4. VerifiedUpTo(table', mem.bugs) = VerifiedUpTo(table, mem.bugs)
            /\ AllVerified(table') = AllVerified(table)
      BY <2>1, <2>2 DEF VerifiedUpTo, AllVerified
    <2>5. Counts'
      BY <2>3, <2>4 DEF BugsInv, Counts
    <2>6. InRepair' /\ VerdictHeads'
      BY <1>0, <2>2, <2>3 DEF InRepair, VerdictHeads, BugsInv, Repairing, Tip
    <2>7. StoresAgree'
      BY <2>1, <2>2, <2>3, <2>4 DEF StoresAgree, AllVerified, BugsInv
    <2> QED
      BY <2>5, <2>6, <2>7 DEF BugsInv
  <1>8. ASSUME Verified PROVE BugsInv'
    <2>1. /\ inHand \in Anomalies /\ mem.bugs \in Ids /\ "VERIFIED" \in Verdicts
          /\ mem.bugs \in DOMAIN table /\ table[mem.bugs].status = "CONFIRMED"
      BY <1>8 DEF Verified, BugsInv, InRepair, Repairing, TypeOK, Verdicts
    <2>2. /\ DOMAIN table' = DOMAIN table
          /\ table'[mem.bugs].status = "VERIFIED" /\ table'[mem.bugs].on = Tip
          /\ \A i \in DOMAIN table \ {mem.bugs} : table'[i] = table[i]
      BY <1>8, <2>1 DEF Verified, Recorded
    <2>3. /\ UNCHANGED <<row, commits>> /\ pc # "off" /\ pc' = "recorded"
          /\ mem'.bugs = mem.bugs /\ mem'.verified = mem.verified + 1
          /\ row.head = Tip
      BY <1>8, <1>b DEF Verified, BugsInv, VerdictHeads
    <2>4. /\ VerifiedUpTo(table', mem.bugs) = VerifiedUpTo(table, mem.bugs) \cup {mem.bugs}
          /\ mem.bugs \notin VerifiedUpTo(table, mem.bugs)
      BY <1>0, <2>1, <2>2 DEF VerifiedUpTo, AllVerified
    <2>5. IsFiniteSet(VerifiedUpTo(table, mem.bugs))
            /\ Cardinality(VerifiedUpTo(table, mem.bugs)) \in Nat
      BY <1>0, VerifiedRowsFinite DEF TypeOK
    <2>6. Cardinality(VerifiedUpTo(table', mem.bugs))
            = Cardinality(VerifiedUpTo(table, mem.bugs)) + 1
      BY <2>4, <2>5, FS_AddElement
    <2>7. Counts'
      BY <1>0, <1>8, <2>3, <2>5, <2>6 DEF Verified, BugsInv, InRepair, Counts, Repairing, TypeOK
    <2>8. InRepair' /\ VerdictHeads'
      BY <1>0, <2>2, <2>3 DEF InRepair, VerdictHeads, BugsInv, Repairing, Tip
    <2>9. StoresAgree'
      BY <1>a, <2>1, <2>3, <2>7, <2>8, AgreeingStep DEF Tip
    <2> QED
      BY <2>7, <2>8, <2>9 DEF BugsInv
  <1> QED
    BY <1>1, <1>2, <1>3, <1>4, <1>5, <1>6, <1>7, <1>8 DEF Next

LEMMA NextInv == IInv /\ [Next]_vars => IInv'
  BY TypeStep, GitStep, BugsStep DEF IInv

-----------------------------------------------------------------------------
(***************************************************************************)
(* The theorems.                                                           *)
(***************************************************************************)

\* The invariant holds in every state of every run.
THEOREM Invariance == Spec => []IInv
  BY InitInv, NextInv, PTL DEF Spec

\* Type correctness of what the process knows and of what outlives it.
THEOREM TypeCorrect == Spec => []TypeOK
  BY Invariance, PTL DEF IInv

\* However often a controller dies and is resumed, services are started only on
\* commits whose makers wrote the row after them.
THEOREM ServesWhatWasSaved == Spec => []ServedIsSaved
  BY Invariance, PTL DEF IInv, GitInv

\* Wherever a crash falls between the three writes of a repair, the row counts no
\* repair the bugs table has not, and no verdict is on a HEAD beyond the row's.
THEOREM CrashLeavesAgreement == Spec => []StoresAgree
  BY Invariance, PTL DEF IInv, BugsInv

\* Only a resume that was refused makes the row forget its worktree.
THEOREM ForgetsForCause == Spec => ForgetsOnlyWhenRefused
  <1> DEFINE Forgets == row.worktree /\ ~row'.worktree
                          => pc = "off" /\ (~tree \/ mainChanged \/ row.head # Tip)
  <1>1. ASSUME IInv, [Next]_vars PROVE Forgets
    <2> SUFFICES ASSUME row.worktree, ~row'.worktree
                 PROVE  Refused
      BY DEF Refused, Acceptable, HeadMatches, IInv, TypeOK
    <2> USE DEF IInv, GitInv
    <2>1. /\ mem \in [worktree : BOOLEAN, bugs : 0..MaxBugs, verified : 0..MaxBugs]
          /\ row.written /\ pc \notin {"preflight", "created"}
          /\ pc # "off" => mem.worktree
      BY <1>1 DEF TypeOK, Beginning, KnowsTree
    <2> QED
      BY <1>1, <2>1, NewController, SavesType
        DEF Next, Initialize, CreateCandidate, StartMesa, Resume, Running, End, Crash,
            Confirm, Commit, Restarting, LiveRecheck, RepairFails, Verified, Settle,
            MainMoves, Teardown, vars
  <1> QED
    BY <1>1, Invariance, PTL DEF Spec, ForgetsOnlyWhenRefused
=============================================================================

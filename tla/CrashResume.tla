----------------------------- MODULE CrashResume -----------------------------
(***************************************************************************)
(* What a run keeps when its controller dies: initialize, _persist_state   *)
(* and resume_from_crash of controller.py, with what a repair leaves in    *)
(* three places between them, the candidate's commits in git, the row of   *)
(* run_state and the bugs table, and in memory, which is lost.             *)
(*                                                                         *)
(* A step ends at an await, where the process may be killed.  What the run *)
(* does between two bugs is left out, as is the way to a repair's commit   *)
(* (see RepairPipeline); here the commit, the write of the row after it    *)
(* and that of the bugs table are three steps.                             *)
(***************************************************************************)
EXTENDS Integers, Sequences, FiniteSets

CONSTANTS
  Anomalies,    \* what can be wrong with the candidate
  MaxLives,     \* controllers: the first and its resumes
  MaxBugs,      \* bugs one controller confirms
  MaxCommits    \* repairs committed to the candidate

ASSUME ResumeAssumption ==
  MaxLives \in Nat \ {0} /\ MaxBugs \in Nat /\ MaxCommits \in Nat

NoHead == -1
Down   == -1
None   == "none"
Verdicts == {"CONFIRMED", "VERIFIED", "FAILED"}   \* the last: any other end of a repair

VARIABLES
  pc,        \* where the controller stands
  life,      \* which controller it is
  row,       \* the row of run_state
  mem,       \* what the controller knows: the worktree, len(_bugs), the VERIFIED of _repairs
  inHand,    \* the anomaly under repair, as bug len(_bugs)
  table,     \* the bugs table, by id: BUG-0001, ...
  commits,   \* the repairs in the candidate's branch, and whether their maker saved them
  tree,      \* whether the candidate worktree is there
  serving,   \* how many of the commits the services were started on
  mainChanged  \* whether the original checkout differs from the baseline

disk == <<commits, tree, mainChanged>>
vars == <<pc, life, row, mem, inHand, table, disk, serving>>

Repairing == {"confirmed", "committed", "restarting", "live"}
Positions == {"off", "preflight", "created", "starting", "recorded", "running"} \cup Repairing

Tip   == Len(commits)
Ids   == 1..MaxBugs
Heads == 0..MaxCommits

TypeOK ==
  /\ pc \in Positions
  /\ life \in 0..MaxLives
  /\ row \in [written : BOOLEAN, worktree : BOOLEAN, head : Heads \cup {NoHead},
             verified : 0..MaxBugs]
  /\ mem \in [worktree : BOOLEAN, bugs : 0..MaxBugs, verified : 0..MaxBugs]
  /\ inHand \in Anomalies \cup {None}
  /\ DOMAIN table \subseteq Ids
  /\ \A id \in DOMAIN table : table[id] \in [about : Anomalies, status : Verdicts, on : Heads]
  /\ commits \in Seq([repairs : Anomalies, saved : BOOLEAN]) /\ Tip <= MaxCommits
  /\ tree \in BOOLEAN /\ mainChanged \in BOOLEAN
  /\ serving \in Heads \cup {Down}

\* A new QAController: nothing is known but what it reads.
Blank == [worktree |-> FALSE, bugs |-> 0, verified |-> 0]
NoRow == [written |-> FALSE, worktree |-> FALSE, head |-> NoHead, verified |-> 0]

Init ==
  /\ pc = "off" /\ life = 0
  /\ row = NoRow /\ mem = Blank /\ inHand = None /\ table = <<>>
  /\ commits = <<>> /\ tree = FALSE /\ mainChanged = FALSE
  /\ serving = Down

-----------------------------------------------------------------------------
(* The row.                                                                *)

HeadKept(known) ==      \* variant: the head is read once, with the worktree
  IF row.head # NoHead THEN row.head
  ELSE IF known.worktree /\ tree THEN Tip ELSE NoHead

\* rev-parse HEAD in the worktree the controller knows, if it exists.
HeadNow(known) == IF known.worktree /\ tree THEN Tip ELSE NoHead

\* _persist_state writes what is in memory over all the row has.
Saves(known) ==
  row' = [written |-> TRUE, worktree |-> known.worktree, head |-> HeadNow(known),
          verified |-> known.verified]

-----------------------------------------------------------------------------
(* initialize.                                                             *)

\* The first write of the row; a run that has one is refused, and stays.
Initialize ==
  /\ pc = "off" /\ ~row.written /\ life < MaxLives
  /\ life' = life + 1
  /\ Saves(Blank)
  /\ pc' = "preflight"
  /\ UNCHANGED <<mem, inHand, table, disk, serving>>

\* The worktree is made; the row does not name it yet.
CreateCandidate ==
  /\ pc = "preflight" /\ ~tree
  /\ tree' = TRUE
  /\ mem' = [mem EXCEPT !.worktree = TRUE]
  /\ pc' = "created"
  /\ UNCHANGED <<life, row, inHand, table, commits, mainChanged, serving>>

StartMesa ==
  /\ pc = "created" /\ ~mainChanged
  /\ Saves(mem)
  /\ pc' = "starting"
  /\ UNCHANGED <<life, mem, inHand, table, disk, serving>>

-----------------------------------------------------------------------------
(* resume_from_crash, which asks nothing of the status.                    *)

AnyHead == TRUE      \* variant: the candidate HEAD is not compared

HeadMatches == row.head = NoHead \/ row.head = Tip

Acceptable == row.worktree /\ tree /\ ~mainChanged /\ HeadMatches

RestoredLate == Blank      \* variant: the worktree is restored once its services run

\* Of memory, the resume restores the worktree; bugs and repairs begin anew.
Restored == [Blank EXCEPT !.worktree = TRUE]

\* START_MESA is the first write of a resume that is accepted.
Resume ==
  /\ pc = "off" /\ row.written /\ life < MaxLives
  /\ Acceptable
  /\ life' = life + 1
  /\ mem' = Restored
  /\ Saves(mem')
  /\ pc' = "starting"
  /\ UNCHANGED <<inHand, table, disk, serving>>

\* The handler of a resume that is refused writes FAILED, and with it the row
\* of a controller that knows no worktree.
Refused ==
  /\ pc = "off" /\ row.written /\ life < MaxLives
  /\ ~Acceptable
  /\ life' = life + 1
  /\ mem' = Blank
  /\ Saves(mem')
  /\ UNCHANGED <<pc, inHand, table, disk, serving>>

-----------------------------------------------------------------------------
(* The run.                                                                *)

\* start_all has both services up, on what the worktree holds, and the original
\* checkout is still as it was.
Running ==
  /\ pc = "starting" /\ tree /\ ~mainChanged
  /\ serving' = Tip
  /\ Saves(mem)
  /\ pc' = "running"
  /\ UNCHANGED <<life, mem, inHand, table, disk>>

\* Any end that is written: COMPLETED, or FAILED by a handler.
End ==
  /\ pc \in {"preflight", "created", "starting", "running"}
  /\ Saves(mem)
  /\ pc' = "off" /\ inHand' = None /\ serving' = Down
  /\ UNCHANGED <<life, mem, table, disk>>

\* The process is killed, and nothing is written.
Crash ==
  /\ pc # "off"
  /\ pc' = "off" /\ inHand' = None /\ serving' = Down
  /\ UNCHANGED <<life, row, mem, table, disk>>

NumberBeforeAppend == mem.bugs      \* variant: BUG-0000 first

\* The number of the next bug: len(_bugs) + 1.
NextId == mem.bugs + 1

\* record_bug: a row that is there takes the status, and keeps the rest.
Recorded(id, anomaly, status) ==
  LET about == IF id \in DOMAIN table THEN table[id].about ELSE anomaly
  IN  [i \in DOMAIN table \cup {id} |->
         IF i = id THEN [about |-> about, status |-> status, on |-> Tip] ELSE table[i]]

\* CONFIRMED_BUG is written before the bug has its number.
Confirm(anomaly) ==
  /\ pc = "running" /\ mem.bugs < MaxBugs
  /\ Saves(mem)
  /\ mem' = [mem EXCEPT !.bugs = @ + 1]
  /\ inHand' = anomaly
  /\ table' = Recorded(NextId, anomaly, "CONFIRMED")
  /\ pc' = "confirmed"
  /\ UNCHANGED <<life, disk, serving>>

Commit ==
  /\ pc = "confirmed" /\ tree /\ Tip < MaxCommits
  /\ commits' = Append(commits, [repairs |-> inHand, saved |-> FALSE])
  /\ pc' = "committed"
  /\ UNCHANGED <<life, row, mem, inHand, table, tree, mainChanged, serving>>

\* The row is written while the maker of the last commit lives.
Noted == [c \in DOMAIN commits |-> [commits[c] EXCEPT !.saved = TRUE]]

\* RESTARTING is written, with the new HEAD, and the services are stopped.
Restarting ==
  /\ pc = "committed"
  /\ Saves(mem)
  /\ commits' = Noted
  /\ serving' = Down
  /\ pc' = "restarting"
  /\ UNCHANGED <<life, mem, inHand, table, tree, mainChanged>>

LiveRecheck ==
  /\ pc = "restarting" /\ tree
  /\ serving' = Tip
  /\ Saves(mem)
  /\ pc' = "live"
  /\ UNCHANGED <<life, mem, inHand, table, disk>>

\* A repair ends without its bug repaired: at a gate, by the live recheck, or
\* by an exception.
RepairFails ==
  /\ pc \in Repairing
  /\ table' = Recorded(mem.bugs, inHand, "FAILED")
  /\ pc' = "recorded"
  /\ UNCHANGED <<life, row, mem, inHand, disk, serving>>

Verified ==
  /\ pc = "live"
  /\ table' = Recorded(mem.bugs, inHand, "VERIFIED")
  /\ mem' = [mem EXCEPT !.verified = @ + 1]
  /\ pc' = "recorded"
  /\ UNCHANGED <<life, row, inHand, disk, serving>>

Settle ==
  /\ pc = "recorded"
  /\ Saves(mem)
  /\ commits' = Noted
  /\ pc' = "running" /\ inHand' = None
  /\ UNCHANGED <<life, mem, table, tree, mainChanged, serving>>

-----------------------------------------------------------------------------
(* Outside.                                                                *)

\* Somebody works in the original checkout, or puts it back as the baseline has it.
MainMoves ==
  /\ row.written
  /\ mainChanged' = ~mainChanged
  /\ UNCHANGED <<pc, life, row, mem, inHand, table, commits, tree, serving>>

\* A teardown removes the worktree and its branch.
Teardown ==
  /\ tree /\ tree' = FALSE
  /\ UNCHANGED <<pc, life, row, mem, inHand, table, commits, mainChanged, serving>>

Next ==
  \/ Initialize \/ CreateCandidate \/ StartMesa
  \/ Resume \/ Refused
  \/ Running \/ End \/ Crash
  \/ \E a \in Anomalies : Confirm(a)
  \/ Commit \/ Restarting \/ LiveRecheck \/ RepairFails \/ Verified \/ Settle
  \/ MainMoves \/ Teardown

Spec == Init /\ [][Next]_vars

-----------------------------------------------------------------------------
(* Properties.                                                             *)

\* No controller starts services on a commit whose maker died before it had
\* written the row: the window between commit_repair and RESTARTING ends in a
\* resume that is refused, and no other write of the row lets it through.
ServedIsSaved ==
  serving # Down => \A c \in 1..serving : commits[c].saved

\* What a crash leaves in git, the row and the bugs table fits together.  The
\* bugs table is written first, so that the row counts no verified repair the
\* table has not, even where a resumed controller numbers over old bugs; and a
\* bug is VERIFIED on a HEAD the row came to before, so that no verdict is on
\* code a resume would refuse.
StoresAgree ==
  LET verified == {id \in DOMAIN table : table[id].status = "VERIFIED"} IN
    /\ row.verified <= Cardinality(verified)
    /\ row.head # NoHead => \A id \in verified : table[id].on <= row.head

\* Once the row names the worktree only a resume that was refused for cause
\* loses it, and with it the run: no crash, failed start or end does.
ForgetsOnlyWhenRefused ==
  [][row.worktree /\ ~row'.worktree
       => pc = "off" /\ (~tree \/ mainChanged \/ row.head # Tip)]_vars

\* The row of a VERIFIED bug describes what a commit of the candidate repairs:
\* "Complete run state recovered from SQLite DB"
\* (.audit/current/FRESH_INDEPENDENT_AUDIT.md, A22).  A resume starts the
\* numbers again, and the row of an older bug takes the verdicts of a new one.
VerifiedIsRepaired ==
  \A id \in DOMAIN table :
    table[id].status = "VERIFIED" => \E c \in 1..Tip : commits[c].repairs = table[id].about
=============================================================================

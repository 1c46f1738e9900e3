----------------------- MODULE CandidateServicesProofs -----------------------
(***************************************************************************)
(* Theorems about CandidateServices for every number of controllers,       *)
(* processes and repairs: which of the processes of a run are alive when.  *)
(***************************************************************************)
EXTENDS CandidateServices, SequenceTheorems, TLAPS

(***************************************************************************)
(* The inductive invariant.                                                *)
(***************************************************************************)

\* The processes of the controller at work.
Own(p) == Alive(p) /\ procs[p].life = life

\* Controllers are numbered from one on, and no process is of a later one.
LivesInOrder ==
  /\ pc # "none" => life >= 1
  /\ \A p \in Started : procs[p].life <= life

\* A port is held by a process of its service that is alive.
PortsHeld ==
  \A s \in Services : port[s] # NoPid => port[s] \in Started /\ Alive(port[s])
                                           /\ procs[port[s]].role = s

\* Every process of this controller is the one of its runtime object: none is
\* replaced there alive.
OwnAreHandled == \A p \in Started : Own(p) => handle[procs[p].role] = p

\* stop_all and the start of a controller leave none of them, the gateway first.
StopsDone ==
  \A p \in Started : Own(p) =>
    /\ pc \notin {"startMesa", "completed", "failed"}
    /\ procs[p].role = "gateway" => pc \notin {"stopMesa", "awaitMesa", "startGateway"}

\* From start_all on they run the committed code, until the next repair.
OwnAreCurrent ==
  pc \in Starting \cup Working => \A p \in Started : Own(p) => procs[p].code = code

Kept == LivesInOrder /\ PortsHeld /\ OwnAreHandled /\ StopsDone /\ OwnAreCurrent

IInv == TypeOK /\ Kept /\ SavedOrSince

-----------------------------------------------------------------------------
(***************************************************************************)
(* The processes.                                                          *)
(***************************************************************************)

Proc == [role : Services, life : 1..MaxLives, code : 0..MaxRepairs, alive : BOOLEAN]

\* The type invariant, as it is about the processes and about the controller.
WorldOK ==
  /\ procs \in Seq(Proc) /\ Len(procs) <= MaxProcs
  /\ port \in [Services -> Pids \cup {NoPid}]
  /\ \A s \in Services : port[s] # NoPid => procs[port[s]].alive /\ procs[port[s]].role = s

Positions == {"startMesa", "startGateway", "awaitMesa", "awaitGateway",
              "stopMesa", "stopGateway", "none", "crashed", "completed", "failed",
              "running", "live"}

SavedOK ==
  /\ row \in [Services -> Pids \cup {NoPid}]
  /\ unsaved \subseteq Pids

ControllerOK ==
  /\ pc \in Positions
  /\ why \in Reasons
  /\ life \in 0..MaxLives
  /\ handle \in [Services -> Pids \cup {NoPid}]
  /\ code \in 0..MaxRepairs
  /\ worktree \in BOOLEAN

\* Where start_all and stop_all stand.
LEMMA Places ==
  /\ StartAt["mesa"] = "startMesa" /\ StartAt["gateway"] = "startGateway"
  /\ AwaitAt["mesa"] = "awaitMesa" /\ AwaitAt["gateway"] = "awaitGateway"
  /\ StopAt["mesa"] = "stopMesa" /\ StopAt["gateway"] = "stopGateway"
  /\ Starting = {"startMesa", "startGateway", "awaitMesa", "awaitGateway"}
  /\ Range(AwaitAt) = {"awaitMesa", "awaitGateway"}
  /\ Stopping = {"stopMesa", "stopGateway"}
  /\ Starting \cup Stopping \cup Off \cup Working = Positions
  <1>1. /\ Range(StartAt) = {"startMesa", "startGateway"}
        /\ Range(AwaitAt) = {"awaitMesa", "awaitGateway"}
        /\ Range(StopAt) = {"stopMesa", "stopGateway"}
    BY DEF Range, StartAt, AwaitAt, StopAt
  <1> QED
    BY <1>1 DEF StartAt, AwaitAt, StopAt, Starting, Stopping, Off,
                Working, Positions

LEMMA TypeParts ==
  TypeOK <=> WorldOK /\ ControllerOK /\ SavedOK
  BY Places DEF TypeOK, WorldOK, ControllerOK, SavedOK, Proc

\* A process in the table is one that was started.
LEMMA ProcType ==
  ASSUME TypeOK
  PROVE  /\ Len(procs) \in Nat /\ Started \subseteq Pids
         /\ DOMAIN procs = Started
         /\ \A p \in Started : procs[p] \in Proc
  <1>1. procs \in Seq(Proc) /\ Len(procs) <= MaxProcs
    BY DEF TypeOK, Proc
  <1>2. \A p \in 1..Len(procs) : procs[p] \in Proc
    BY <1>1, ElementOfSeq
  <1> QED
    BY <1>1, <1>2, ServicesAssumption, LenProperties DEF Started, Pids

\* A function on 1..n is a sequence of length n.
LEMMA SequenceOfFunction ==
  ASSUME NEW S, NEW m \in Nat, NEW f \in [1..m -> S]
  PROVE  f \in Seq(S) /\ Len(f) = m
  OBVIOUS

\* What may happen to the processes besides a start: some end, and nothing else
\* about them changes.
Fade ==
  /\ procs' \in Seq(Proc) /\ Len(procs') = Len(procs)
  /\ \A p \in Started : /\ procs'[p].role = procs[p].role
                        /\ procs'[p].life = procs[p].life
                        /\ procs'[p].code = procs[p].code
                        /\ procs'[p].alive => procs[p].alive

LEMMA SameFade ==
  ASSUME TypeOK, UNCHANGED procs
  PROVE  Fade
  BY DEF Fade, TypeOK, Proc

\* The processes in ps end, the others do not, and the ports stay consistent.
LEMMA EndedFade ==
  ASSUME TypeOK, PortsHeld, NEW ps, Ended(ps)
  PROVE  /\ Fade
         /\ \A p \in Started : procs'[p].alive <=> procs[p].alive /\ p \notin ps
         /\ port' \in [Services -> Pids \cup {NoPid}]
         /\ PortsHeld'
  <1>1. /\ Len(procs) \in Nat /\ DOMAIN procs = Started
        /\ \A p \in Started : procs[p] \in Proc
    BY ProcType
  <1>2. ASSUME NEW p \in Started
        PROVE  /\ procs'[p] \in Proc
               /\ procs'[p].role = procs[p].role /\ procs'[p].life = procs[p].life
               /\ procs'[p].code = procs[p].code
               /\ procs'[p].alive = (procs[p].alive /\ p \notin ps)
    <2>1. procs'[p] = [procs[p] EXCEPT !.alive = procs[p].alive /\ p \notin ps]
      BY DEF Ended
    <2> QED
      BY <1>1, <2>1 DEF Proc
  <1>3. procs' \in [1..Len(procs) -> Proc]
    BY <1>2 DEF Ended, Started
  <1>4. procs' \in Seq(Proc) /\ Len(procs') = Len(procs)
    BY <1>1, <1>3, SequenceOfFunction
  <1>5. port' \in [Services -> Pids \cup {NoPid}]
    BY DEF Ended, TypeOK
  <1>6. PortsHeld'
    BY <1>2, <1>4 DEF Ended, PortsHeld, Alive, Started, TypeOK
  <1> QED
    BY <1>2, <1>4, <1>5, <1>6 DEF Fade

-----------------------------------------------------------------------------
(***************************************************************************)
(* The invariant is inductive.                                             *)
(***************************************************************************)

LEMMA InitInv == Init => IInv
  <1> SUFFICES ASSUME Init PROVE IInv
    OBVIOUS
  <1> USE ServicesAssumption DEF Init, Nobody, NoPid
  <1>1. procs \in Seq(Proc) /\ Len(procs) = 0
    BY EmptySeq
  <1>2. Started = {}
    BY <1>1 DEF Started
  <1>3. TypeOK
    BY <1>1 DEF TypeOK, Proc, Off, Reasons
  <1>4. Kept /\ SavedOrSince
    BY <1>2, Places
      DEF Kept, LivesInOrder, PortsHeld, OwnAreHandled, StopsDone, OwnAreCurrent,
          SavedOrSince, Working
  <1> QED
    BY <1>3, <1>4 DEF IInv

\* A step by which processes end and the row keeps what it has.
LEMMA FadeSaved ==
  ASSUME IInv, Fade, UNCHANGED <<life, row, unsaved>>
  PROVE  SavedOrSince'
  BY DEF IInv, Fade, SavedOrSince, Alive, Started

\* A step that writes the row with the pids at hand.
LEMMA SavesSaved ==
  ASSUME TypeOK', OwnAreHandled', SavesPids
  PROVE  SavedOrSince'
  <1> SUFFICES ASSUME NEW p \in Started', Own(p)'
               PROVE  p \in Range(row')
    BY DEF SavedOrSince, Own
  <1>1. procs'[p].role \in Services /\ handle' \in [Services -> Pids \cup {NoPid}]
    <2>1. procs' \in Seq(Proc) /\ p \in 1..Len(procs')
      BY DEF TypeOK, Proc, Started
    <2>2. procs'[p] \in Proc
      BY <2>1, ElementOfSeq
    <2> QED
      BY <2>2 DEF TypeOK, Proc
  <1>2. handle'[procs'[p].role] = p
    BY DEF OwnAreHandled
  <1> QED
    BY <1>1, <1>2 DEF SavesPids, Range

\* A step of the world keeps what the controller counts on.
LEMMA WorldKept ==
  ASSUME IInv, Fade, PortsHeld', UNCHANGED <<pc, life, handle, code>>
  PROVE  Kept'
  BY DEF IInv, Kept, Fade, LivesInOrder, OwnAreHandled, StopsDone, OwnAreCurrent, Own,
         Alive, Started

\* The world by itself: a service binds its port or exits, or ends; a teardown.
LEMMA WorldInv ==
  ASSUME IInv, Bind \/ Dies \/ Teardown
  PROVE  IInv'
  <1> USE DEF IInv, ControllerStays, NoPid
  <1>0. TypeOK /\ PortsHeld
    BY DEF Kept
  <1>1. Fade /\ PortsHeld' /\ port' \in [Services -> Pids \cup {NoPid}]
    <2>1. CASE Bind
      <3>1. PICK p \in Started :
              /\ Alive(p) /\ p \notin Range(port)
              /\ \/ /\ port[procs[p].role] = NoPid
                    /\ port' = [port EXCEPT ![procs[p].role] = p] /\ UNCHANGED procs
                 \/ Ended({p})
        BY <2>1 DEF Bind
      <3>2. CASE Ended({p})
        BY <1>0, <3>2, EndedFade
      <3>3. CASE port' = [port EXCEPT ![procs[p].role] = p] /\ UNCHANGED procs
        <4>1. procs[p] \in Proc /\ p \in Pids /\ Fade
          BY <3>3, ProcType, SameFade
        <4> QED
          BY <1>0, <3>1, <3>3, <4>1 DEF TypeOK, PortsHeld, Alive, Started, Proc
      <3> QED
        BY <3>1, <3>2, <3>3
    <2>2. CASE Dies
      BY <1>0, <2>2, EndedFade DEF Dies
    <2>3. CASE Teardown
      BY <1>0, <2>3, EndedFade DEF Teardown
    <2> QED
      BY <2>1, <2>2, <2>3
  <1>2. UNCHANGED <<pc, why, life, handle, row, unsaved, code>> /\ worktree' \in BOOLEAN
    BY <1>0 DEF Bind, Dies, Teardown, TypeOK
  <1>3. TypeOK'
    BY <1>0, <1>1, <1>2 DEF TypeOK, Fade, Proc, PortsHeld, Alive
  <1>4. Kept' /\ SavedOrSince'
    BY <1>1, <1>2, WorldKept, FadeSaved
  <1> QED
    BY <1>3, <1>4

\* A step of the controller that leaves the processes alone.
LEMMA StillInv ==
  ASSUME IInv,
         \/ Launch \/ StartFails \/ (\E s \in Services : Ready(s)) \/ RestartRuntime
         \/ Repair \/ ChangeState \/ End \/ Fail \/ Crash \/ UNCHANGED vars
  PROVE  IInv'
  <1> USE ServicesAssumption DEF IInv, world, NoPid
  <1>0. /\ TypeOK /\ Kept /\ ControllerOK /\ SavedOK /\ Fade /\ PortsHeld' /\ WorldOK'
        /\ Started' = Started /\ procs' = procs
    <2>1. UNCHANGED <<procs, port>>
      BY DEF Launch, StartFails, Ready, RestartRuntime, Repair, ChangeState, End, Fail,
             Crash, vars
    <2> QED
      BY <2>1, SameFade, TypeParts DEF Kept, PortsHeld, Alive, Started, WorldOK
  <1>t. ControllerOK' /\ (SavesPids \/ NoSave) => TypeOK'
    <2>1. WorldOK' /\ ControllerOK' /\ SavedOK' => TypeOK'
      BY TypeParts, PTL
    <2>2. ControllerOK' /\ (SavesPids \/ NoSave) => SavedOK'
      BY <1>0 DEF SavesPids, NoSave, SavedOK, ControllerOK
    <2> QED
      BY <1>0, <2>1, <2>2
  <1>1. \A p \in Started : procs[p].role \in Services /\ procs[p].life \in 1..MaxLives
    BY <1>0, ProcType DEF Proc
  <1> USE DEF Kept, LivesInOrder, OwnAreHandled, StopsDone, OwnAreCurrent, Own, Alive
  <1>2. ASSUME Launch PROVE IInv'
    <2>1. life' = life + 1 /\ \A p \in Started : ~Own(p)'
      BY <1>0, <1>1, <1>2 DEF Launch, TypeOK
    <2>2. pc' \in {"startMesa", "failed"} /\ handle' = Nobody /\ SavesPids
      BY <1>2, Places DEF Launch
    <2>3. ControllerOK'
      BY <1>2, <2>2, <1>0 DEF Launch, ControllerOK, Nobody, Positions, Reasons
    <2>4. Kept'
      BY <1>0, <1>1, <2>1, <2>2 DEF TypeOK
    <2> QED
      BY <1>0, <1>t, <2>1, <2>2, <2>3, <2>4 DEF SavedOrSince
  <1>3. ASSUME StartFails PROVE IInv'
    <2>a. /\ UNCHANGED <<life, code, worktree>> /\ SavesPids
          /\ \/ why = "repair" /\ pc' = "running" /\ UNCHANGED why
             \/ pc' = "stopGateway" /\ why' = "fail"
      BY <1>3, Places DEF StartFails, StopsAll
    <2>b. \/ pc = "startMesa" /\ UNCHANGED handle
          \/ pc \in {"awaitMesa", "awaitGateway"} /\ UNCHANGED handle
          \/ /\ pc \in {"startMesa", "startGateway"}
             /\ \E s \in Services : handle' = [handle EXCEPT ![s] = NoPid]
      BY <1>3, Places DEF StartFails, Services
    <2>c. pc \in Starting /\ handle' \in [Services -> Pids \cup {NoPid}]
      BY <1>0, <2>b, Places DEF ControllerOK
    <2>d. ControllerOK'
      BY <1>0, <2>a, <2>c DEF ControllerOK, Positions, Reasons
    <2>1. /\ UNCHANGED <<life, code>> /\ SavesPids /\ ControllerOK'
          /\ pc' \in {"running", "stopGateway"}
          /\ pc \in Starting
      BY <2>a, <2>c, <2>d
    <2>2. OwnAreHandled'
      <3>1. CASE handle' = handle
        BY <1>0, <2>1, <3>1
      <3>2. CASE pc = StartAt["mesa"] /\ handle' = [handle EXCEPT !["mesa"] = NoPid]
        BY <1>0, <2>1, <3>2, Places
      <3>3. CASE pc = StartAt["gateway"] /\ handle' = [handle EXCEPT !["gateway"] = NoPid]
        BY <1>0, <1>1, <2>1, <3>3, Places DEF ControllerOK
      <3> QED
        BY <1>3, <3>1, <3>2, <3>3 DEF StartFails, Services
    <2>3. Kept'
      BY <1>0, <2>1, <2>2, Places DEF Working
    <2> QED
      BY <1>t, <2>1, <2>2, <2>3, SavesSaved
  <1>4. ASSUME NEW s \in Services, Ready(s) PROVE IInv'
    <2>1. /\ UNCHANGED <<life, code, handle>> /\ ControllerOK' /\ (SavesPids \/ NoSave)
          /\ \/ pc = "awaitMesa" /\ pc' = "startGateway"
             \/ pc = "awaitGateway" /\ pc' \in Working
      BY <1>0, <1>4, Places DEF Ready, ControllerOK, Positions, Working, Services
    <2>2. Kept'
      BY <1>0, <2>1, Places DEF Working
    <2> QED
      BY <1>0, <1>t, <2>1, <2>2, SavesSaved, FadeSaved DEF NoSave
  <1>5. ASSUME RestartRuntime \/ Repair \/ End \/ Fail PROVE IInv'
    <2>1. /\ UNCHANGED <<life, handle>> /\ pc' = "stopGateway" /\ ControllerOK'
          /\ SavesPids \/ NoSave
          /\ pc \notin {"none"}
      BY <1>0, <1>5, Places
        DEF RestartRuntime, Repair, End, Fail, Restarts, StopsAll, ControllerOK, NoSave,
            Positions, Reasons, Working
    <2>2. Kept'
      BY <1>0, <2>1, Places DEF Working
    <2> QED
      BY <1>0, <1>t, <2>1, <2>2, SavesSaved, FadeSaved DEF NoSave
  <1>6. ASSUME ChangeState \/ Crash \/ UNCHANGED vars PROVE IInv'
    <2>1. /\ UNCHANGED <<life, handle, code>> /\ ControllerOK'
          /\ SavesPids \/ NoSave
          /\ \/ pc \in Working /\ pc' = "running"
             \/ pc # "none" /\ pc' = "crashed"
             \/ pc' = pc
      BY <1>0, <1>6, Places
        DEF ChangeState, Crash, vars, ControllerOK, NoSave, Positions, Working, Off
    <2>2. Kept'
      BY <1>0, <2>1, Places DEF Working
    <2> QED
      BY <1>0, <1>t, <2>1, <2>2, SavesSaved, FadeSaved DEF NoSave
  <1> QED
    BY <1>2, <1>3, <1>4, <1>5, <1>6

\* start() of a service: none of this controller's own was alive in its role.
LEMMA SpawnInv ==
  ASSUME IInv, NEW s \in Services, Spawn(s)
  PROVE  IInv'
  <1> USE ServicesAssumption DEF IInv, NoPid
  <1> DEFINE new == [role |-> s, life |-> life, code |-> code, alive |-> TRUE]
             n   == Len(procs) + 1
  <1>0. TypeOK /\ Kept /\ ControllerOK /\ SavedOK /\ WorldOK
    BY TypeParts
  <1>1. /\ Len(procs) \in Nat /\ Started \subseteq Pids
        /\ \A p \in Started : procs[p] \in Proc
    BY <1>0, ProcType
  <1>2. /\ procs' = Append(procs, new) /\ Len(procs) < MaxProcs
        /\ UNCHANGED <<why, life, port, row, code, worktree>>
    BY DEF Spawn
  <1>3. \/ s = "mesa" /\ pc = "startMesa" /\ pc' = "awaitMesa"
        \/ s = "gateway" /\ pc = "startGateway" /\ pc' = "awaitGateway"
    BY Places DEF Spawn, Services
  <1>4. new \in Proc
    BY <1>0, <1>3 DEF Proc, Kept, LivesInOrder, ControllerOK
  <1>5. procs \in Seq(Proc)
    BY <1>0 DEF WorldOK
  <1>6. /\ procs' \in Seq(Proc) /\ Len(procs') = n
        /\ procs'[n] = new
        /\ \A p \in Started : procs'[p] = procs[p]
    <2>1. /\ Append(procs, new) \in Seq(Proc)
          /\ Len(Append(procs, new)) = Len(procs) + 1
          /\ \A i \in 1..Len(procs) : Append(procs, new)[i] = procs[i]
          /\ Append(procs, new)[Len(procs) + 1] = new
      BY <1>4, <1>5, AppendProperties
    <2> QED
      BY <1>2, <2>1 DEF Started
  <1>7. Started' = Started \cup {n} /\ n \notin Started /\ n \in Pids /\ n # NoPid
    BY <1>1, <1>2, <1>6 DEF Started, Pids
  <1>8. handle' = [handle EXCEPT ![s] = n] /\ unsaved' = unsaved \cup {n}
    BY <1>6 DEF Spawn
  <1>9. ControllerOK' /\ SavedOK'
    BY <1>0, <1>2, <1>3, <1>7, <1>8 DEF ControllerOK, SavedOK, Positions
  <1>10. \A q \in Services : port[q] # NoPid => port[q] \in Started
    BY <1>0 DEF Kept, PortsHeld
  <1>11. WorldOK'
    <2>1. Len(procs') <= MaxProcs
      BY <1>1, <1>2, <1>6
    <2>2. ASSUME NEW q \in Services, port'[q] # NoPid
          PROVE  procs'[port'[q]].alive /\ procs'[port'[q]].role = q
      BY <1>0, <1>2, <1>6, <1>10, <2>2 DEF WorldOK
    <2> QED
      BY <1>0, <1>2, <1>6, <2>1, <2>2 DEF WorldOK
  <1>a. procs'[n].role = s /\ procs'[n].life = life /\ procs'[n].code = code
    BY <1>6
  <1>12. TypeOK'
    <2>1. WorldOK' /\ ControllerOK' /\ SavedOK' => TypeOK'
      BY TypeParts, PTL
    <2> QED
      BY <1>9, <1>11, <2>1
  <1>13. \A p \in Started : Own(p)' <=> Own(p)
    BY <1>2, <1>6, <1>7 DEF Own, Alive
  <1>14. \A p \in Started : Own(p) => procs[p].role # s
    BY <1>0, <1>1, <1>3 DEF Kept, StopsDone, Proc, Services
  <1>15. Kept'
    <2>1. LivesInOrder'
      <3>1. life >= 1 /\ life <= life
        BY <1>0, <1>3 DEF LivesInOrder, Kept, ControllerOK
      <3>2. \A p \in Started : procs'[p].life <= life
        BY <1>0, <1>6 DEF LivesInOrder, Kept
      <3> QED
        BY <1>2, <1>7, <1>a, <3>1, <3>2 DEF LivesInOrder
    <2>2. PortsHeld'
      BY <1>0, <1>2, <1>6, <1>7, <1>10 DEF PortsHeld, Kept, Alive
    <2>3. OwnAreHandled'
      BY <1>0, <1>6, <1>7, <1>8, <1>13, <1>14 DEF OwnAreHandled, Kept, ControllerOK
    <2>4. StopsDone'
      BY <1>0, <1>3, <1>6, <1>7, <1>13, <1>14 DEF StopsDone, Kept
    <2>5. OwnAreCurrent'
      <3>1. \A p \in Started : Own(p)' => procs'[p].code = code
        BY <1>0, <1>3, <1>6, <1>13, Places DEF OwnAreCurrent, Kept
      <3> QED
        BY <1>2, <1>7, <1>a, <3>1 DEF OwnAreCurrent
    <2> QED
      BY <2>1, <2>2, <2>3, <2>4, <2>5 DEF Kept
  <1>16. SavedOrSince'
    BY <1>2, <1>7, <1>8, <1>13 DEF SavedOrSince, Own
  <1> QED
    BY <1>12, <1>15, <1>16

\* stop() of a service: none of this controller's own is left in its role.
LEMMA StopInv ==
  ASSUME IInv, NEW s \in Services, Stop(s)
  PROVE  IInv'
  <1> USE ServicesAssumption DEF IInv, NoPid
  <1>0. TypeOK /\ Kept /\ ControllerOK /\ SavedOK /\ WorldOK /\ PortsHeld
    BY TypeParts DEF Kept
  <1>1. UNCHANGED <<handle, why, life, code, worktree>> /\ (SavesPids \/ NoSave)
    BY DEF Stop
  <1>2. \/ s = "gateway" /\ pc = "stopGateway" /\ pc' = "stopMesa"
        \/ s = "mesa" /\ pc = "stopMesa" /\ pc' \in {"startMesa", "completed", "failed"}
    BY Places DEF Stop, Services
  <1>3. /\ Fade /\ PortsHeld' /\ port' \in [Services -> Pids \cup {NoPid}]
        /\ \A p \in Started : p = handle[s] => ~procs'[p].alive
    <2>1. CASE Alive(handle[s])
      <3>1. Ended({handle[s]})
        BY <2>1 DEF Stop, StopsOwn
      <3> QED
        BY <1>0, <3>1, EndedFade
    <2>2. CASE ~Alive(handle[s])
      <3>1. UNCHANGED <<procs, port>>
        BY <2>2 DEF Stop, StopsOwn, world
      <3>2. Fade /\ \A p \in Started : p = handle[s] => ~procs'[p].alive
        BY <1>0, <2>2, <3>1, SameFade DEF Alive
      <3> QED
        BY <1>0, <3>1, <3>2 DEF PortsHeld, Alive, Started, WorldOK
    <2> QED
      BY <2>1, <2>2
  <1>4. ControllerOK'
    BY <1>0, <1>1, <1>2 DEF ControllerOK, Positions
  <1>5. SavedOK'
    BY <1>0, <1>1, <1>4 DEF SavesPids, NoSave, SavedOK, ControllerOK
  <1>6. WorldOK'
    BY <1>0, <1>3 DEF WorldOK, Fade, PortsHeld, Alive
  <1>7. TypeOK'
    <2>1. WorldOK' /\ ControllerOK' /\ SavedOK' => TypeOK'
      BY TypeParts, PTL
    <2> QED
      BY <1>4, <1>5, <1>6, <2>1
  <1>8. Started' = Started /\ \A p \in Started : /\ Own(p)' => Own(p) /\ p # handle[s]
                                                 /\ procs'[p].role = procs[p].role
                                                 /\ procs'[p].life = procs[p].life
                                                 /\ procs'[p].code = procs[p].code
    BY <1>1, <1>3 DEF Own, Alive, Fade, Started
  <1>9. \A p \in Started : Own(p)' => procs[p].role # s
    BY <1>0, <1>8 DEF Kept, OwnAreHandled
  <1>10. \A p \in Started : procs[p].role \in Services
    BY <1>0, ProcType DEF Proc
  <1>11. Kept'
    <2>1. LivesInOrder'
      BY <1>0, <1>1, <1>2, <1>8 DEF LivesInOrder, Kept
    <2>2. OwnAreHandled'
      BY <1>0, <1>1, <1>8 DEF OwnAreHandled, Kept
    <2>3. StopsDone'
      BY <1>0, <1>2, <1>8, <1>9, <1>10 DEF StopsDone, Kept, Services
    <2>4. OwnAreCurrent'
      BY <1>0, <1>2, <1>8, <1>9, <1>10, <2>3, Places DEF OwnAreCurrent, StopsDone, Working
    <2> QED
      BY <1>3, <2>1, <2>2, <2>3, <2>4 DEF Kept
  <1>12. SavedOrSince'
    BY <1>1, <1>3, <1>7, <1>11, SavesSaved, FadeSaved DEF NoSave, Kept
  <1> QED
    BY <1>7, <1>11, <1>12

LEMMA NextInv == IInv /\ [Next]_vars => IInv'
  <1> SUFFICES ASSUME IInv, [Next]_vars PROVE IInv'
    OBVIOUS
  <1> QED
    BY WorldInv, StillInv, SpawnInv, StopInv DEF Next

-----------------------------------------------------------------------------
(***************************************************************************)
(* The theorems.                                                           *)
(***************************************************************************)

\* The invariant that all the others follow from.
THEOREM Invariance == Spec => []IInv
  BY InitInv, NextInv, PTL DEF Spec

\* Every variable keeps its type (process_manager.py; mesa_pid and mcp_gateway_pid
\* of run_state).
THEOREM TypeCorrect == Spec => []TypeOK
  <1>1. IInv => TypeOK
    BY DEF IInv
  <1> QED
    BY <1>1, Invariance, PTL

\* While the run works, whoever holds a service's port is this controller's own
\* child on the committed code, or was left by an earlier controller: restart_all
\* and the repair stop both services before they start either.
THEOREM ServesItsOwn == Spec => []OwnOrOrphan
  <1>1. IInv => OwnOrOrphan
    <2> SUFFICES ASSUME IInv, pc \in Working, NEW s \in Services, port[s] # NoPid
                 PROVE  \/ port[s] = handle[s] /\ procs[port[s]].code = code
                        \/ procs[port[s]].life < life
      BY DEF OwnOrOrphan
    <2>1. port[s] \in Started /\ Alive(port[s]) /\ procs[port[s]].role = s
      BY DEF IInv, Kept, PortsHeld
    <2>2. procs[port[s]].life <= life /\ life \in Nat /\ procs[port[s]].life \in Nat
      BY <2>1, ProcType, ServicesAssumption DEF IInv, Kept, LivesInOrder, Proc, TypeOK
    <2>3. CASE procs[port[s]].life = life
      BY <2>1, <2>3, Places DEF IInv, Kept, OwnAreHandled, OwnAreCurrent, Own
    <2> QED
      BY <2>2, <2>3
  <1> QED
    BY <1>1, Invariance, PTL

\* A teardown misses only what earlier controllers left and what was started
\* since the row was written last (cli.py teardown; _save_run).
THEOREM RowNamesTheRest == Spec => []SavedOrSince
  <1>1. IInv => SavedOrSince
    BY DEF IInv
  <1> QED
    BY <1>1, Invariance, PTL

\* A run that is COMPLETED or FAILED has no child of its own controller alive.
THEOREM EndsWithoutChildren == Spec => []EndLeavesOrphansOnly
  <1>1. IInv => EndLeavesOrphansOnly
    <2> SUFFICES ASSUME IInv, pc \in {"completed", "failed"}, NEW p \in Started, Alive(p)
                 PROVE  procs[p].life < life
      BY DEF EndLeavesOrphansOnly
    <2>1. procs[p].life <= life /\ life \in Nat /\ procs[p].life \in Nat
      BY ProcType, ServicesAssumption DEF IInv, Kept, LivesInOrder, Proc, TypeOK
    <2>2. ~Own(p)
      BY DEF IInv, Kept, StopsDone
    <2> QED
      BY <2>1, <2>2 DEF Own
  <1> QED
    BY <1>1, Invariance, PTL
=============================================================================

-------------------------- MODULE CandidateServices --------------------------
(***************************************************************************)
(* The two child processes of a run, over several controllers: start,      *)
(* readiness and stop of mesa_runtime.py and mcp_gateway.py, start_all,    *)
(* restart_all and stop_all of process_manager.py, the pids the row holds, *)
(* and the teardown of cli.py, which knows the processes by these only.    *)
(*                                                                         *)
(* The services are ordinary children: a controller that is killed leaves  *)
(* them running, on the ports the next one will use.  A process stands for *)
(* its pid, and no pid is given out twice.                                 *)
(***************************************************************************)
EXTENDS Naturals, Sequences, Functions

CONSTANTS
  MaxProcs,     \* processes ever started for the run
  MaxLives,     \* controllers: the first and its resumes
  MaxRepairs    \* commits to the candidate

ASSUME ServicesAssumption ==
  MaxProcs \in Nat /\ MaxLives \in Nat \ {0} /\ MaxRepairs \in Nat

Services == {"mesa", "gateway"}
Pids     == 1..MaxProcs
NoPid    == 0
Nobody   == [s \in Services |-> NoPid]

VARIABLES
  pc,         \* where the controller stands
  why,        \* what start_all and stop_all are called for
  life,       \* which controller it is
  procs,      \* the processes, in the order they were started
  port,       \* per service, the process that holds its port
  handle,     \* per service, the process of the runtime object
  row,        \* mesa_pid and mcp_gateway_pid of run_state
  unsaved,    \* the processes started since the row was written last
  code,       \* commits in the candidate worktree
  worktree    \* whether the worktree is there

world == <<procs, port>>
vars  == <<pc, why, life, world, handle, row, unsaved, code, worktree>>

StartAt  == [mesa |-> "startMesa", gateway |-> "startGateway"]
AwaitAt  == [mesa |-> "awaitMesa", gateway |-> "awaitGateway"]
StopAt   == [mesa |-> "stopMesa", gateway |-> "stopGateway"]
Starting == Range(StartAt) \cup Range(AwaitAt)
Stopping == Range(StopAt)
Off      == {"none", "crashed", "completed", "failed"}
Working  == {"running", "live"}
Reasons  == {"launch", "restart", "repair", "end", "fail"}

TypeOK ==
  /\ pc \in Starting \cup Stopping \cup Off \cup Working
  /\ why \in Reasons
  /\ life \in 0..MaxLives
  /\ procs \in Seq([role : Services, life : 1..MaxLives, code : 0..MaxRepairs,
                    alive : BOOLEAN])
  /\ Len(procs) <= MaxProcs
  /\ port \in [Services -> Pids \cup {NoPid}]
  /\ \A s \in Services : port[s] # NoPid => procs[port[s]].alive /\ procs[port[s]].role = s
  /\ handle \in [Services -> Pids \cup {NoPid}]
  /\ row \in [Services -> Pids \cup {NoPid}]
  /\ unsaved \subseteq Pids
  /\ code \in 0..MaxRepairs
  /\ worktree \in BOOLEAN

Init ==
  /\ pc = "none" /\ why = "launch" /\ life = 0
  /\ procs = <<>> /\ port = Nobody /\ handle = Nobody /\ row = Nobody
  /\ unsaved = {}
  /\ code = 0 /\ worktree = TRUE

-----------------------------------------------------------------------------
(* The processes.                                                          *)

Started  == 1..Len(procs)
Alive(p) == p \in Started /\ procs[p].alive

EndedHoldingPort(ps) ==      \* variant: a child of the service keeps the listening socket
  /\ procs' = [p \in Started |-> [procs[p] EXCEPT !.alive = @ /\ p \notin ps]]
  /\ UNCHANGED port

\* These processes end, and give up their ports.
Ended(ps) ==
  /\ procs' = [p \in Started |-> [procs[p] EXCEPT !.alive = @ /\ p \notin ps]]
  /\ port' = [s \in Services |-> IF port[s] \in ps THEN NoPid ELSE port[s]]

ControllerStays == UNCHANGED <<pc, why, life, handle, row, unsaved, code, worktree>>

\* A service that has come up takes its port, or finds it taken and exits.
Bind ==
  \E p \in Started :
    /\ Alive(p) /\ p \notin Range(port)
    /\ LET s == procs[p].role IN
         IF port[s] = NoPid THEN port' = [port EXCEPT ![s] = p] /\ UNCHANGED procs
                            ELSE Ended({p})
    /\ ControllerStays

\* A service ends by itself, or with the terminal it shares with the controller.
Dies ==
  /\ \E p \in Started : Alive(p) /\ Ended({p})
  /\ ControllerStays

-----------------------------------------------------------------------------
(* What a step of the controller is made of.                               *)

SavesFirstPids ==      \* variant: the upsert keeps a pid the row has already
  /\ row' = [s \in Services |-> IF row[s] = NoPid THEN handle'[s] ELSE row[s]]
  /\ unsaved' = {}

\* A state change writes the row with the pids of the runtime objects.
SavesPids ==
  /\ row' = handle'
  /\ unsaved' = {}

NoSave == UNCHANGED <<row, unsaved>>

\* stop_all begins: the gateway first.
StopsAll(reason) == pc' = StopAt["gateway"] /\ why' = reason

RestartsAtOnce(reason) ==      \* variant: restart_all trusts start() to stop the old ones
  pc' = StartAt["mesa"] /\ why' = reason

\* restart_all is stop_all and start_all.
Restarts(reason) == StopsAll(reason)

-----------------------------------------------------------------------------
(* start_all.                                                              *)

\* `mesa-qa run` and `run --resume`.  A new controller knows no process, and
\* says so in the row before it starts any; without the worktree it fails.
Launch ==
  /\ pc \in Off /\ life < MaxLives
  /\ life' = life + 1
  /\ handle' = Nobody
  /\ SavesPids
  /\ why' = "launch"
  /\ pc' = IF worktree THEN StartAt["mesa"] ELSE "failed"
  /\ UNCHANGED <<world, code, worktree>>

Spawn(s) ==
  /\ pc = StartAt[s] /\ worktree /\ Len(procs) < MaxProcs
  /\ procs' = Append(procs, [role |-> s, life |-> life, code |-> code, alive |-> TRUE])
  /\ handle' = [handle EXCEPT ![s] = Len(procs')]
  /\ unsaved' = unsaved \cup {Len(procs')}
  /\ pc' = AwaitAt[s]
  /\ UNCHANGED <<why, life, port, row, code, worktree>>

\* The child has not exited, and something at its port answers.  A restart for
\* an event ends here, without a state change.
Ready(s) ==
  /\ pc = AwaitAt[s] /\ Alive(handle[s]) /\ port[s] # NoPid
  /\ UNCHANGED handle
  /\ IF s = "mesa" THEN pc' = StartAt["gateway"] /\ NoSave
     ELSE /\ pc' = IF why = "repair" THEN "live" ELSE "running"
          /\ IF why = "restart" THEN NoSave ELSE SavesPids
  /\ UNCHANGED <<why, life, world, code, worktree>>

\* No interpreter or no worktree to start from, a child that exited, or no
\* healthy answer in time.  A repair goes on without its services.
StartFails ==
  /\ \/ pc = StartAt["mesa"] /\ UNCHANGED handle
     \/ pc \in Range(AwaitAt) /\ UNCHANGED handle
     \/ \E s \in Services : pc = StartAt[s] /\ ~worktree /\ handle' = [handle EXCEPT ![s] = NoPid]
  /\ SavesPids
  /\ IF why = "repair" THEN pc' = "running" /\ UNCHANGED why
                       ELSE StopsAll("fail")
  /\ UNCHANGED <<life, world, code, worktree>>

-----------------------------------------------------------------------------
(* stop_all.                                                               *)

StopsBound(s) ==      \* variant: only a service that answers at its port is stopped
  IF handle[s] = port[s] /\ port[s] # NoPid THEN Ended({handle[s]}) ELSE UNCHANGED world

\* stop() signals the child of its object, if that has not ended.
StopsOwn(s) == IF Alive(handle[s]) THEN Ended({handle[s]}) ELSE UNCHANGED world

\* Once both are stopped a restart starts them again, an ended run is
\* COMPLETED with the pids of the dead, and a failed one is FAILED already.
Stop(s) ==
  /\ pc = StopAt[s]
  /\ StopsOwn(s)
  /\ UNCHANGED handle
  /\ IF s = "gateway" THEN pc' = StopAt["mesa"] /\ NoSave
     ELSE CASE why = "end"  -> pc' = "completed" /\ SavesPids
            [] why = "fail" -> pc' = "failed" /\ NoSave
            [] OTHER        -> pc' = StartAt["mesa"] /\ NoSave
  /\ UNCHANGED <<why, life, code, worktree>>

-----------------------------------------------------------------------------
(* The run.                                                                *)

\* A restart_runtime event.
RestartRuntime ==
  /\ pc = "running"
  /\ Restarts("restart")
  /\ UNCHANGED <<life, world, handle, row, unsaved, code, worktree>>

\* A repair is committed; the row is written with the old pids.
Repair ==
  /\ pc = "running" /\ worktree /\ code < MaxRepairs
  /\ code' = code + 1
  /\ Restarts("repair")
  /\ UNCHANGED handle /\ SavesPids
  /\ UNCHANGED <<life, world, worktree>>

\* Any other change of state, the one after the live recheck among them.
ChangeState ==
  /\ pc \in Working
  /\ pc' = "running"
  /\ UNCHANGED handle /\ SavesPids
  /\ UNCHANGED <<why, life, world, code, worktree>>

\* The end of the run or a stop; the latter cancels a restart where it stands.
End ==
  /\ pc \in Working \/ (pc \in Starting \cup Stopping /\ why \in {"restart", "repair"})
  /\ StopsAll("end")
  /\ UNCHANGED handle /\ SavesPids
  /\ UNCHANGED <<life, world, code, worktree>>

\* An error that reaches the handler of the loop.
Fail ==
  /\ pc = "running"
  /\ StopsAll("fail")
  /\ UNCHANGED handle /\ SavesPids
  /\ UNCHANGED <<life, world, code, worktree>>

\* The controller is killed; its children are not.
Crash ==
  /\ pc \notin Off
  /\ pc' = "crashed"
  /\ UNCHANGED <<why, life, world, handle, row, unsaved, code, worktree>>

\* `mesa-qa teardown`, at any time: kills what the row names and removes the
\* worktree, without asking whether a controller works on the run.
Teardown ==
  /\ Ended(Range(row))
  /\ worktree' = FALSE
  /\ UNCHANGED <<pc, why, life, handle, row, unsaved, code>>

Next ==
  \/ Bind \/ Dies
  \/ Launch \/ StartFails
  \/ \E s \in Services : Spawn(s) \/ Ready(s) \/ Stop(s)
  \/ RestartRuntime \/ Repair \/ ChangeState \/ End \/ Fail \/ Crash
  \/ Teardown

Spec == Init /\ [][Next]_vars

-----------------------------------------------------------------------------
(* Properties.                                                             *)

\* While the run works, whoever holds a service's port is the child of the
\* runtime object and runs the committed code, or was left by an earlier
\* controller: stop_all before every start_all leaves no other (restart_all,
\* _handle_repair_pipeline; mesa_runtime.start makes no such check itself).
OwnOrOrphan ==
  pc \in Working =>
    \A s \in Services : port[s] # NoPid =>
      \/ port[s] = handle[s] /\ procs[port[s]].code = code
      \/ procs[port[s]].life < life

\* What a teardown can miss: processes of earlier controllers, whose pids the
\* next one wiped from the row, and those started since the row was written,
\* which after a restart_runtime event is any time until the next change of
\* state.  Every other process alive is named by the row.
SavedOrSince ==
  \A p \in Started : Alive(p) /\ procs[p].life = life => p \in Range(row) \/ p \in unsaved

\* A run that has come to COMPLETED or FAILED has no child alive, whatever was
\* restarting when the end came; an earlier controller's may be.
EndLeavesOrphansOnly ==
  pc \in {"completed", "failed"} =>
    \A p \in Started : Alive(p) => procs[p].life < life

\* The live recheck of a repair is answered by the repaired code, as the audit
\* has it (.audit/current/FRESH_INDEPENDENT_AUDIT.md, A38 and A39).  It is not after a resume:
\* a service the dead controller left answers at the port of the new one.
LiveRecheckOnRepair ==
  pc = "live" => \A s \in Services : port[s] # NoPid => procs[port[s]].code = code
=============================================================================

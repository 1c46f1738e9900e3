---------------------------- MODULE StateMachine ----------------------------
(***************************************************************************)
(* The run state machine of mesa_qa/state_machine.py: the states of a run  *)
(* and the transitions StateMachine.transition_to accepts.  There are no   *)
(* variables here: the modules that move a run's status do it by these.    *)
(***************************************************************************)

States ==
  {"INIT", "PREFLIGHT", "CREATE_CANDIDATE", "START_MESA", "START_MCP",
   "RUNNING", "ANOMALY", "RECHECKING", "REPRODUCING", "CONFIRMED_BUG",
   "REPAIRING", "VERIFYING", "RESTARTING", "LIVE_RECHECK",
   "WAITING_FOR_CODEX", "PAUSED", "STOPPING", "COMPLETED", "FAILED"}

\* The states no transition leads out of.
Final == {"COMPLETED", "FAILED"}

\* Both emergency paths leave a status alone that is in one of these.
Closing == Final \cup {"STOPPING"}

\* Every state that is not final may be stopped or may fail.
Exits == {"STOPPING", "FAILED"}

ValidTransitions ==
  [INIT              |-> Exits \cup {"PREFLIGHT", "START_MESA"},
   PREFLIGHT         |-> Exits \cup {"CREATE_CANDIDATE"},
   CREATE_CANDIDATE  |-> Exits \cup {"START_MESA"},
   START_MESA        |-> Exits \cup {"START_MCP"},
   START_MCP         |-> Exits \cup {"RUNNING"},
   RUNNING           |-> Exits \cup {"ANOMALY", "RESTARTING", "PAUSED",
                                     "WAITING_FOR_CODEX", "COMPLETED"},
   ANOMALY           |-> Exits \cup {"RECHECKING", "RUNNING"},
   RECHECKING        |-> Exits \cup {"REPRODUCING", "RUNNING"},
   REPRODUCING       |-> Exits \cup {"CONFIRMED_BUG", "RUNNING"},
   CONFIRMED_BUG     |-> Exits \cup {"REPAIRING", "RUNNING", "PAUSED"},
   REPAIRING         |-> Exits \cup {"VERIFYING", "RUNNING"},
   VERIFYING         |-> Exits \cup {"RESTARTING", "RUNNING"},
   RESTARTING        |-> Exits \cup {"LIVE_RECHECK", "RUNNING"},
   LIVE_RECHECK      |-> Exits \cup {"RUNNING", "CONFIRMED_BUG"},
   WAITING_FOR_CODEX |-> Exits \cup {"RUNNING", "PAUSED"},
   PAUSED            |-> Exits \cup {"RUNNING"},
   STOPPING          |-> Final,
   COMPLETED         |-> {},
   FAILED            |-> {}]

CanMoveStrictly(from, to) == to \in ValidTransitions[from]   \* variant: no no-op

\* transition_to: moving to the state one is in is accepted and does nothing;
\* anything else outside the table raises ValueError.
CanMove(from, to) == to = from \/ to \in ValidTransitions[from]
=============================================================================

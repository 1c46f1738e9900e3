---------------------------- MODULE RunLifecycle ----------------------------
(***************************************************************************)
(* What a run promises whoever started it, with no word on how: while it   *)
(* is live it works its services as it likes, at some moment it begins to  *)
(* close, and it is closed only once none of its services runs and no      *)
(* action is in flight, and then stays so.  RunLoop implements it.         *)
(***************************************************************************)
CONSTANT Services

VARIABLES phase,      \* "live", "closing" or "closed"
          running,    \* the services that run
          busy        \* whether an action is in flight

lcVars == <<phase, running, busy>>

LCTypeOK ==
  /\ phase \in {"live", "closing", "closed"}
  /\ running \subseteq Services
  /\ busy \in BOOLEAN

LCInit ==
  /\ phase = "live"
  /\ running = {}
  /\ busy = FALSE

\* A live run starts and stops services, begins and ends actions.
Work ==
  /\ phase = "live"
  /\ phase' = "live"
  /\ running' \in SUBSET Services
  /\ busy' \in BOOLEAN

\* Closing begins when no action is in flight, and none begins after that.  A
\* start that failed half-way may be what makes the run close.
BeginClosing ==
  /\ phase = "live"
  /\ ~busy
  /\ phase' = "closing"
  /\ running' \in SUBSET Services
  /\ UNCHANGED busy

\* While it closes a run only ever takes services down.
TakeDown ==
  /\ phase = "closing"
  /\ running' \in SUBSET running
  /\ UNCHANGED <<phase, busy>>

Close ==
  /\ phase = "closing"
  /\ running = {}
  /\ phase' = "closed"
  /\ UNCHANGED <<running, busy>>

LCNext == Work \/ BeginClosing \/ TakeDown \/ Close

LCSpec == LCInit /\ [][LCNext]_lcVars
=============================================================================

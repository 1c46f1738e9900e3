----------------------------- MODULE GroundTruth -----------------------------
(***************************************************************************)
(* What the oracle promises its judge: for every field of an entity, what  *)
(* is true of it now, and every value it was ever given.                   *)
(***************************************************************************)
CONSTANTS Fields, Values, Unknown, Forgotten

VARIABLES
  truth,   \* per field: a value, Unknown, or Forgotten
  told     \* per field: the values it was ever given

vars == <<truth, told>>

TypeOK ==
  /\ truth \in [Fields -> Values \cup {Unknown, Forgotten}]
  /\ told \in [Fields -> SUBSET Values]

Init ==
  /\ truth = [f \in Fields |-> Unknown]
  /\ told = [f \in Fields |-> {}]

Hear(f, v) == told' = [told EXCEPT ![f] = @ \cup {v}]

\* To remember is no correction: what is true already stays true.
Remember(f, v) ==
  /\ Hear(f, v)
  /\ truth' = [truth EXCEPT ![f] = IF @ \in Values THEN @ ELSE v]

Correct(f, v) ==
  /\ Hear(f, v)
  /\ truth' = [truth EXCEPT ![f] = v]

\* Several fields at once, each taking its new value.
RememberMany(facts) ==
  /\ told' = [f \in Fields |-> told[f] \cup IF f \in DOMAIN facts THEN {facts[f]} ELSE {}]
  /\ truth' = [f \in Fields |-> IF f \in DOMAIN facts THEN facts[f] ELSE truth[f]]

Forget(f) ==
  /\ truth' = [truth EXCEPT ![f] = Forgotten]
  /\ UNCHANGED told

Next ==
  \/ \E f \in Fields, v \in Values : Remember(f, v) \/ Correct(f, v)
  \/ \E fs \in SUBSET Fields : \E facts \in [fs -> Values] : RememberMany(facts)
  \/ \E f \in Fields : Forget(f)

Spec == Init /\ [][Next]_vars
=============================================================================

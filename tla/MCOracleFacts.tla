---------------------------- MODULE MCOracleFacts ----------------------------
(***************************************************************************)
(* Suites for OracleFacts: every suite of three writes, in which a         *)
(* multi_fact names all fields.                                            *)
(***************************************************************************)
EXTENDS OracleFacts, TLC

Write(kind, what) == [kind |-> kind, what |-> what]

Writes ==
  {Write(k, f :> v) : k \in {"remember", "correct"}, f \in Fields, v \in Values}
    \cup {Write("multi_fact", [f \in Fields |-> v]) : v \in Values}
    \cup {Write("forget", f :> NoValue) : f \in Fields}

\* Which field the first write is to makes no difference.  A forget of what was never
\* known is the second write behind a first one given up.
FirstField == CHOOSE f \in Fields : TRUE
AnySuite == {s \in [1..3 -> Writes] : FirstField \in DOMAIN s[1].what /\ s[1].kind # "forget"}

\* Fields are not symmetric: the fields of an event have an order.
Symmetry == Permutations(Values)
=============================================================================

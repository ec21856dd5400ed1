------------------------------ MODULE HsmChart ------------------------------
(***************************************************************************)
(* The charts that Hsm and HsmAbs speak of: trees of states in hsm_top.    *)
(* The handlers are the user's; lib/hsm knows a chart only by their        *)
(* answers.                                                                *)
(***************************************************************************)
EXTENDS Naturals, FiniteSets

CONSTANTS
  N,                    \* number of states of the charts
  MaxDepth              \* depth of the deepest chart

States  == 1..N
hsm_top == 0
Nodes   == {hsm_top} \cup States

\* Each state has its parent; a parent has a smaller number.
Trees == {chart \in [States -> Nodes] : \A s \in States : chart[s] < s}

\* A state and those around it.
AroundIn(chart) ==
  LET around[s \in Nodes] ==
        IF s = hsm_top THEN {} ELSE {s} \cup around[chart[s]]
  IN  around

Charts ==
  {chart \in Trees :
     \A s \in States : Cardinality(AroundIn(chart)[s]) <= MaxDepth}

\* What a transition neither leaves nor enters: what contains source and
\* target.  A transition to itself leaves and enters the source.
KeptIn(chart, source, target) ==
  LET around == AroundIn(chart) IN
  IF source = target THEN around[source] \ {source}
                     ELSE around[source] \cap around[target]
=============================================================================

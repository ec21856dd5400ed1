------------------------------- MODULE MCSlab -------------------------------
(***************************************************************************)
(* Slab for model checking: a small wave.  A ticker drives a waver, whose  *)
(* colours reach a converter directly and through a delay.                *)
(***************************************************************************)
EXTENDS Slab, TLC

CONSTANTS t, w, c, d

MCTypeOf  == (t :> "TICKER") @@ (w :> "WAVER") @@ (c :> "HSV2RGB")
             @@ (d :> "DELAY")
MCLength  == [x \in {d} |-> 2]
MCEdges   == {<<t, w>>, <<w, c>>, <<w, d>>, <<d, c>>}
MCStimuli == {<<t, "RESET">>, <<c, "HSV">>}
=============================================================================

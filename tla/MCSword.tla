------------------------------- MODULE MCSword -------------------------------
(***************************************************************************)
(* Instance for TLC: an LED that glow forgets, and one behind five delays. *)
(***************************************************************************)
EXTENDS Sword

MCViews == {<<"sq", 2>>, <<"lt", 0>>}
=============================================================================

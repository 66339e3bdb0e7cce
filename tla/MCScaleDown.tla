---------------------------- MODULE MCScaleDown ----------------------------
(* Small instances of ScaleDown. *)
EXTENDS ScaleDown, TLC

CONSTANTS main, workers

TwoPools == {main, workers}
OnePool == {main}
TwoAndOne == main :> 2 @@ workers :> 1
Two == main :> 2

=============================================================================

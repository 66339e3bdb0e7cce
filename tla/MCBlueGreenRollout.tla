------------------------- MODULE MCBlueGreenRollout -------------------------
(* Small instances of BlueGreenRollout: one inbound and one outbound boundary. *)
EXTENDS BlueGreenRollout

CONSTANTS in1, out1, d1, d2, d3

MCBoundaries == {in1, out1}
MCInbound == {in1}
TwoDigests == {d1, d2}
ThreeDigests == {d1, d2, d3}

\* Every flow exposes both ports.
PortsMatch == [d \in Digests |-> Boundaries]

\* Flow d2 lacks the output port.
PortsDiffer == [d \in Digests |-> IF d = d2 THEN {in1} ELSE Boundaries]

\* The calls whose failure the rollout recovers from.
HandledFaults == Calls \ {"ports", "create", "getGreen", "restart"}
NoFaults == {}
AllFaults == Calls
PortFaults == {"ports"}
CreateFaults == {"create"}
RenameFaults == {"rename"}
GetGreenFaults == {"getGreen"}

=============================================================================

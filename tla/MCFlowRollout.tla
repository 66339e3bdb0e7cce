--------------------------- MODULE MCFlowRollout ---------------------------
(* Small instances of FlowRollout. *)
EXTENDS FlowRollout, TLC

CONSTANTS d1, d2, d3

TwoDigests == {d1, d2}
ThreeDigests == {d1, d2, d3}
\* No digest is special: used where no liveness property is checked.
AnyDigest == Permutations(ThreeDigests)

AllFaults == Calls
NoFaults == {}

\* Requests are deleted when asked for, and NiFi keeps them until then ...
HandledFaults == Calls \ {"forget", "nifi"}
\* ... or forgets them when it restarts.
ForgettingFaults == Calls \ {"forget"}
RestartFaults == {"nifi"}

=============================================================================

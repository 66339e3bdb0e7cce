--------------------------- MODULE TrafficSwitch ---------------------------
(***************************************************************************)
(* What a BlueGreen rollout promises about traffic, without its mechanism: *)
(* boundaries move one at a time from the live group to a candidate and    *)
(* back, the candidate becomes live only when every boundary is on it, and *)
(* a rollout ends only when every boundary is on the live group.           *)
(***************************************************************************)
CONSTANT Boundaries

VARIABLES
  route,  \* where each boundary leads: "live", "candidate" or, in between, "none"
  open    \* a rollout is in progress

switchVars == <<route, open>>

AllOn(side) == \A b \in Boundaries : route[b] = side

Init == route = [b \in Boundaries |-> "live"] /\ open = FALSE

Begin == ~open /\ open' = TRUE /\ UNCHANGED route

Move(b) ==
  /\ open /\ route[b] = "live"
  /\ route' = [route EXCEPT ![b] = "candidate"]
  /\ UNCHANGED open

\* A boundary may be unattached for a while on its way back.
Unplug(b) ==
  /\ open /\ route[b] = "candidate"
  /\ route' = [route EXCEPT ![b] = "none"]
  /\ UNCHANGED open

Return(b) ==
  /\ open /\ route[b] \in {"candidate", "none"}
  /\ route' = [route EXCEPT ![b] = "live"]
  /\ UNCHANGED open

\* The candidate becomes the live group; the rollout may need more steps to end.
Commit ==
  /\ open /\ AllOn("candidate")
  /\ route' = [b \in Boundaries |-> "live"]
  /\ open' \in BOOLEAN

End == open /\ AllOn("live") /\ open' = FALSE /\ UNCHANGED route

Next ==
  \/ Begin \/ Commit \/ End
  \/ \E b \in Boundaries : Move(b) \/ Unplug(b) \/ Return(b)

Spec == Init /\ [][Next]_switchVars

=============================================================================

------------------------------- MODULE MCAccess -------------------------------
(* Small instances of Access: two policies for one access policy with a tenant *)
(* in common.                                                                  *)
EXTENDS Access, TLC

SharedRefs == ("group" :> {"u1"}) @@ ("p1" :> {"u1", "group"}) @@ ("p2" :> {"u1"})
MCRefs == {SharedRefs}
OneRefs == {("group" :> {"u1"}) @@ ("p1" :> {"u1", "group"})}

=============================================================================

------------------------ MODULE MCManagedComponent ------------------------
(* Small instances of ManagedComponent. *)
EXTENDS ManagedComponent

=============================================================================

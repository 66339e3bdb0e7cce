-------------------------- MODULE MCParameterContext --------------------------
(* Small instances of ParameterContext. *)
EXTENDS ParameterContext

=============================================================================

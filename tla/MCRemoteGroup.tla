----------------------------- MODULE MCRemoteGroup -----------------------------
(* Small instances of RemoteGroup. *)
EXTENDS RemoteGroup

================================================================================

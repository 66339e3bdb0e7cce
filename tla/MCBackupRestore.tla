---------------------------- MODULE MCBackupRestore ----------------------------
(* Small instances of BackupRestore. *)
EXTENDS BackupRestore

CONSTANTS b1, b2, r1, s1, s2

MCBackups == {b1, b2}
MCRestores == {r1}
MCStores == {s1, s2}
MCGiven == {s2}

\* The backups want the same store or different ones; the restore wants the first backup
\* (an edit may make it want the other, or a store).
MCTargets == {[b \in Backups |-> s1], [b \in Backups |-> IF b = b1 THEN s1 ELSE s2]}
MCSources == {[r \in Restores |-> [backup |-> b1]]}

================================================================================

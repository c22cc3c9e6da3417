------------------------- MODULE ConfigRefinesStore -------------------------
(***************************************************************************)
(* One command at a time, vayume-config implements ConfigStore: while a    *)
(* command validates, the stored configuration is the backup it can go     *)
(* back to; the rm of the backup is what commits the edit.                 *)
(***************************************************************************)
EXTENDS ConfigEdit

Pending == \E p \in Proc : pc[p] \in {"validate", "keep", "revert"}

Stored == IF Pending THEN bak ELSE config

Store == INSTANCE ConfigStore WITH stored <- Stored

(* Each command replaces the stored configuration by its own edit of it, or *)
(* leaves it and its time exactly as they were (apply_edit's revert).       *)
StoreSpec == Store!StoreSpec
=============================================================================

------------------------------ MODULE MCUpdate ------------------------------
(***************************************************************************)
(* Values for the runs of AutoUpdate.                                      *)
(***************************************************************************)
EXTENDS AutoUpdate, TLC

CONSTANTS timer, manual

(* The timer with both parts on, and with the plugins only.                 *)
Both == [r \in Runner |-> {"flake", "plugins"}]
TimerPluginsOnly == (timer :> {"plugins"}) @@ (manual :> {"flake", "plugins"})
=============================================================================

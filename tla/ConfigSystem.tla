---------------------------- MODULE ConfigSystem ----------------------------
(***************************************************************************)
(* One configuration file and everybody around it: vayume-config-edit and  *)
(* the owner who write it (ConfigEdit), the menus that read it through     *)
(* vayume-config-eval (ConfigCache) and the rebuild that turns it into the *)
(* running system (ConfigRebuild).                                         *)
(***************************************************************************)
EXTENDS ConfigCache, ConfigRebuild

SystemInit == CacheInit /\ RebuildInit

(* A shutdown has ended the listing commands too (Kill) when it is over.    *)
SystemNext ==
    \/ /\ RebuildNext /\ UNCHANGED cvars
       /\ Reboot => \A r \in Reader : rpc[r] = "idle"
    \/ (\E r \in Reader : Read(r)) /\ UNCHANGED rvars

SystemSpec == SystemInit /\ [][SystemNext]_<<vars, cvars, rvars>>

-----------------------------------------------------------------------------
(* The types of all three.                                                  *)
SystemTypeOK == CacheTypeOK /\ RebuildTypeOK
=============================================================================

--------------------------- MODULE ConfigRebuild ---------------------------
(***************************************************************************)
(* Rebuilding from _config.nix while it is edited, and the question        *)
(* vayume-config repo answers by comparing two modification times: has the *)
(* file changed since the running system was built.  vayume-rebuild asks   *)
(* nobody and takes no lock: commands run on beside it and a second one    *)
(* may be started.  nixos-rebuild and the boot are external: the script    *)
(* runs the one, the other makes the /run/current-system link anew.        *)
(***************************************************************************)
EXTENDS ConfigEdit

VARIABLES
    gen,     \* the running system: what it was built from, the link's time
    builds,  \* the versions that running rebuilds have copied to the store
    had      \* (history) the files there were when the link was made

rvars == <<gen, builds, had>>

RebuildTypeOK ==
    /\ TypeOK
    /\ gen \in File
    /\ builds \subseteq Content
    /\ had \subseteq File

(* _config.nix, its backup and the temporary files of running commands.     *)
Files == ({config, bak} \cup {tmp[p] : p \in Proc}) \ {NoFile}

RebuildInit ==
    /\ Init
    /\ gen = config
    /\ builds = {}
    /\ had = {config}

(* cmd_repo: [ "$cfgMtime" -gt "$genMtime" ]                                *)
RebuildPending == Seconds(config.t) > Seconds(gen.t)

-----------------------------------------------------------------------------
(* vayume-rebuild: nixos-rebuild takes the flake's files as they are now;   *)
(* one that does not evaluate ends it there.                                *)
StartRebuild ==
    /\ Evaluates(config.c)
    /\ builds' = builds \cup {config.c}
    /\ UNCHANGED <<vars, gen, had>>

(* The build or the switch fails, or the panel's terminal is closed.        *)
AbandonRebuild(c) ==
    /\ builds' = builds \ {c}
    /\ UNCHANGED <<vars, gen, had>>

(* /run/current-system becomes a link to the system built from c.           *)
Link(c) ==
    /\ CanWrite
    /\ gen' = [c |-> c, t |-> WriteTime]
    /\ now' = WriteTime
    /\ had' = Files

(* The switch makes the link, even to an identical system.                  *)
Activate(c) ==
    /\ Link(c)
    /\ builds' = builds \ {c}
    /\ UNCHANGED <<config, bak, tmp, pc, cmd, snap, result, seen, guarded>>

(* A shutdown ends every command and rebuild, wherever they are; the boot   *)
(* brings up the same system and links it again: /run is empty then.        *)
Reboot ==
    /\ Link(gen.c)
    /\ builds' = {}
    /\ pc' = [p \in Proc |-> "idle"]
    /\ tmp' = [p \in Proc |-> NoFile]
    /\ result' = [p \in Proc |-> IF pc[p] = "idle" THEN result[p] ELSE "interrupted"]
    /\ UNCHANGED <<config, bak, cmd, snap, seen, guarded>>

(* vayume-config and the text editor go on as in ConfigEdit.                *)
EditStep == Next /\ UNCHANGED rvars

RebuildNext ==
    \/ StartRebuild \/ Reboot \/ EditStep
    \/ \E c \in builds : Activate(c) \/ AbandonRebuild(c)

RebuildSpec == RebuildInit /\ [][RebuildNext]_<<vars, rvars>>

-----------------------------------------------------------------------------
(* What repo's comparison of two times is worth, at any moment and however  *)
(* commands, reverts, rebuilds and boots overlap: a file that says          *)
(* something else than what the running system was built from is reported,  *)
(* unless this very file was already there when the link was made (as       *)
(* _config.nix, as a backup or as a command's temporary file), or it was    *)
(* written in the second in which the link was made (cmd_repo).             *)
PendingIsTold ==
    config.c # gen.c =>
        RebuildPending \/ config \in had \/ Seconds(config.t) = Seconds(gen.t)
=============================================================================

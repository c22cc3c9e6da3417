----------------------------- MODULE ConfigEdit -----------------------------
(***************************************************************************)
(* The editing half of the vayume-config command line                      *)
(* (modules/vayume/Config.nix): processes that run one command after the   *)
(* other against the same _config.nix, one action per system call or       *)
(* nix evaluation that another process can come between.  No command takes *)
(* a lock.  A file is its content and its modification time; a rename      *)
(* carries both, cp -p copies both.                                        *)
(***************************************************************************)
EXTENDS ConfigFile

CONSTANTS
    Proc,           \* terminals and panel slots that run vayume-config
    Edits,          \* the commands they may run
    Guards,         \* may --if-unmodified-since be absent (FALSE), present (TRUE)
    HandEdits,      \* changes the owner may save from a text editor
    Faults,         \* what may go wrong under a command: "interrupt", "copy"
    TicksPerSecond, \* file systems stamp finer than stat -c %Y shows
    MaxTime,        \* bound on the clock; 0 when times do not matter
    InitialContents,\* versions of the file the owner may begin with
    NoFile

(* A working file: it evaluates, and both Self and an admin have a block.   *)
Working(c) ==
    /\ Evaluates(c)
    /\ Self \in c.users
    /\ Admins(c) # {}

File == [c : Content, t : Nat]

ASSUME EditAssumption ==
    /\ Edits \subseteq AllEdits
    /\ HandEdits \subseteq AllEdits
    /\ Guards \subseteq BOOLEAN
    /\ Faults \subseteq {"interrupt", "copy"}
    /\ TicksPerSecond \in Nat \ {0}
    /\ MaxTime \in Nat
    /\ InitialContents \subseteq Content
    /\ \A c \in InitialContents : Working(c)
    /\ NoFile \notin File

VARIABLES
    config,  \* _config.nix
    bak,     \* _config.nix.bak
    tmp,     \* tmp[p]: the mktemp file of p's command
    pc,      \* where p's command is; "idle" before and after it
    cmd,     \* p's command, the last one when idle
    snap,    \* what p's nix eval said about the field it merges into
    result,  \* how p's last command ended
    seen,    \* the file as p's caller last read it
    guarded, \* p's command came with --if-unmodified-since
    now      \* the clock

vars == <<config, bak, tmp, pc, cmd, snap, result, seen, guarded, now>>

NoEdit == [op |-> "none"]

Steps == {"idle", "evaluate", "admins", "write", "backup", "swap",
          "validate", "keep", "revert"}
Results == {"none", "ok", "failed", "refused", "stale", "interrupted"}

TypeOK ==
    /\ config \in File
    /\ bak \in File \cup {NoFile}
    /\ tmp \in [Proc -> File \cup {NoFile}]
    /\ pc \in [Proc -> Steps]
    /\ cmd \in [Proc -> AllEdits \cup {NoEdit}]
    /\ snap \in [Proc -> SUBSET Item]
    /\ result \in [Proc -> Results]
    /\ seen \in [Proc -> File]
    /\ guarded \in [Proc -> BOOLEAN]
    /\ now \in Nat

(* stat -c %Y                                                               *)
Seconds(t) == t \div TicksPerSecond

(* A write stamps the file with a later time than the one before, up to     *)
(* MaxTime; with MaxTime = 0 every file has the same time.                  *)
CanWrite == MaxTime = 0 \/ now < MaxTime
WriteTime == IF MaxTime = 0 THEN now ELSE now + 1

(* The editors of users.<u>.<a> replace what is there when they read.       *)
AttrOf(e, c) == IF e.op = "merge" THEN c.attrs[e.user][e.attr] ELSE {}

Init ==
    /\ \E c \in InitialContents : config = [c |-> c, t |-> 0]
    /\ bak = NoFile
    /\ tmp = [p \in Proc |-> NoFile]
    /\ pc = [p \in Proc |-> "idle"]
    /\ cmd = [p \in Proc |-> NoEdit]
    /\ snap = [p \in Proc |-> {}]
    /\ result = [p \in Proc |-> "none"]
    /\ seen = [p \in Proc |-> config]
    /\ guarded = [p \in Proc |-> FALSE]
    /\ now = 0

-----------------------------------------------------------------------------
(* p's command is over: what it printed, and no temporary file of it.       *)
Exit(p, how) ==
    /\ pc' = [pc EXCEPT ![p] = "idle"]
    /\ result' = [result EXCEPT ![p] = how]

(* The caller looks at the file and remembers its modification time.        *)
CallerReads(p) ==
    /\ TRUE \in Guards
    /\ pc[p] = "idle"
    /\ seen' = [seen EXCEPT ![p] = config]
    /\ UNCHANGED <<config, bak, tmp, pc, cmd, snap, result, guarded, now>>

(* The owner saves a change from a text editor.                             *)
HandEdit(e) ==
    /\ CanWrite
    /\ Finds(e, config.c)
    /\ config' = [c |-> Apply(e, config.c, AttrOf(e, config.c)), t |-> WriteTime]
    /\ now' = WriteTime
    /\ UNCHANGED <<bak, tmp, pc, cmd, snap, result, seen, guarded>>

(* p takes a command: cmd_* once its arguments are checked.                *)
Start(p, e, g) ==
    /\ pc[p] = "idle"
    /\ cmd' = [cmd EXCEPT ![p] = e]
    /\ snap' = [snap EXCEPT ![p] = {}]
    /\ result' = [result EXCEPT ![p] = "none"]
    /\ pc' = [pc EXCEPT ![p] = IF Evaluating(e) THEN "evaluate"
                                ELSE IF DropsAdmin(e) THEN "admins"
                                ELSE "write"]
    /\ guarded' = [guarded EXCEPT ![p] = g]
    /\ UNCHANGED <<config, bak, tmp, seen, now>>

(* Mutant: Begin without the id -un guard.                                  *)
BeginAnyRemove(p, e, g) == (g => Seconds(seen[p].t) = Seconds(config.t)) /\ Start(p, e, g)

(* Arguments and check_since pass.                                          *)
Begin(p, e, g) ==
    /\ g => Seconds(seen[p].t) = Seconds(config.t)
    /\ ~(e.op = "remove" /\ e.user = Self)
    /\ Start(p, e, g)

(* check_since exits 3: the file's time is not the one the caller passed.   *)
RefuseStale(p, e) ==
    /\ TRUE \in Guards
    /\ pc[p] = "idle"
    /\ Seconds(seen[p].t) # Seconds(config.t)
    /\ cmd' = [cmd EXCEPT ![p] = e]
    /\ result' = [result EXCEPT ![p] = "stale"]
    /\ UNCHANGED <<config, bak, tmp, pc, snap, seen, guarded, now>>

(* users remove of the account that runs it.                                *)
RefuseSelf(p, e) ==
    /\ pc[p] = "idle"
    /\ e.op = "remove" /\ e.user = Self
    /\ cmd' = [cmd EXCEPT ![p] = e]
    /\ result' = [result EXCEPT ![p] = "refused"]
    /\ UNCHANGED <<config, bak, tmp, pc, snap, seen, guarded, now>>

(* nix eval of the user's field, of the user's existence or of the choices  *)
(* for a field; under set -e a failing evaluation ends the command.         *)
Evaluate(p) ==
    LET e == cmd[p] IN
    /\ pc[p] = "evaluate"
    /\ \/ /\ \/ ~Evaluates(config.c)
             \/ e.op = "merge" /\ e.user \notin config.c.users
          /\ Exit(p, "failed")
          /\ UNCHANGED snap
       \/ /\ Evaluates(config.c)
          /\ e.op = "add" /\ e.user \in config.c.users
          /\ Exit(p, "refused")
          /\ UNCHANGED snap
       \/ /\ Evaluates(config.c)
          /\ e.op = "merge" => e.user \in config.c.users
          /\ e.op = "add" => e.user \notin config.c.users
          /\ snap' = [snap EXCEPT ![p] = AttrOf(e, config.c)]
          /\ pc' = [pc EXCEPT ![p] = IF DropsAdmin(e) THEN "admins" ELSE "write"]
          /\ UNCHANGED result
    /\ UNCHANGED <<config, bak, tmp, cmd, seen, guarded, now>>

(* Mutant: the admins counted with the one about to go.                     *)
CountingEverybody(p) ==
    /\ pc[p] = "admins"
    /\ IF Evaluates(config.c) /\ Admins(config.c) # {}
       THEN pc' = [pc EXCEPT ![p] = "write"] /\ UNCHANGED result
       ELSE Exit(p, "refused")
    /\ UNCHANGED <<config, bak, tmp, cmd, snap, seen, guarded, now>>

(* refuse_last_admin: another nix eval, for the users in wheel.             *)
CheckAdmins(p) ==
    /\ pc[p] = "admins"
    /\ \/ ~Evaluates(config.c) /\ Exit(p, "failed")
       \/ /\ Evaluates(config.c)
          /\ Admins(config.c) \ {cmd[p].user} = {}
          /\ Exit(p, "refused")
       \/ /\ Evaluates(config.c)
          /\ Admins(config.c) \ {cmd[p].user} # {}
          /\ pc' = [pc EXCEPT ![p] = "write"]
          /\ UNCHANGED result
    /\ UNCHANGED <<config, bak, tmp, cmd, snap, seen, guarded, now>>

(* Mutant: the editor's output carries the time of its input (touch -r).    *)
WriteTmpSameTime(p) ==
    /\ pc[p] = "write"
    /\ Finds(cmd[p], config.c)
    /\ tmp' = [tmp EXCEPT ![p] = [c |-> Apply(cmd[p], config.c, snap[p]), t |-> config.t]]
    /\ pc' = [pc EXCEPT ![p] = IF cmd[p].op = "setting" THEN "swap" ELSE "backup"]
    /\ UNCHANGED <<config, bak, cmd, snap, result, seen, guarded, now>>

(* new_tmp and the awk editor, which opens the file once and reads it whole.*)
(* An editor that does not find its block fails and the temporary file goes.*)
WriteTmp(p) ==
    /\ pc[p] = "write"
    /\ CanWrite
    /\ \/ /\ Finds(cmd[p], config.c)
          /\ tmp' = [tmp EXCEPT ![p] = [c |-> Apply(cmd[p], config.c, snap[p]),
                                        t |-> WriteTime]]
          /\ now' = WriteTime
          /\ pc' = [pc EXCEPT ![p] = IF cmd[p].op = "setting" THEN "swap" ELSE "backup"]
          /\ UNCHANGED result
       \/ /\ ~Finds(cmd[p], config.c)
          /\ Exit(p, "failed")
          /\ UNCHANGED <<tmp, now>>
    /\ UNCHANGED <<config, bak, cmd, snap, seen, guarded>>

(* Mutant: mv in place of cp -p.                                            *)
BackupByMove(p) ==
    /\ pc[p] = "backup"
    /\ bak' = config
    /\ config' = NoFile
    /\ pc' = [pc EXCEPT ![p] = "swap"]
    /\ UNCHANGED <<tmp, cmd, snap, result, seen, guarded, now>>

(* Mutant: cp without -p.                                                   *)
BackupRestamped(p) ==
    /\ pc[p] = "backup"
    /\ CanWrite
    /\ bak' = [config EXCEPT !.t = WriteTime]
    /\ now' = WriteTime
    /\ pc' = [pc EXCEPT ![p] = "swap"]
    /\ UNCHANGED <<config, tmp, cmd, snap, result, seen, guarded>>

(* apply_edit: cp -p "$config_file" "$config_file.bak"; errexit is off in   *)
(* there, so a copy that fails (a full disk) stops nothing.                 *)
Backup(p) ==
    /\ pc[p] = "backup"
    /\ \/ bak' = config
       \/ "copy" \in Faults /\ UNCHANGED bak
    /\ pc' = [pc EXCEPT ![p] = "swap"]
    /\ UNCHANGED <<config, tmp, cmd, snap, result, seen, guarded, now>>

(* mv "$tmp" "$config_file"; a settings edit is done with that.             *)
Swap(p) ==
    /\ pc[p] = "swap"
    /\ config' = tmp[p]
    /\ tmp' = [tmp EXCEPT ![p] = NoFile]
    /\ IF cmd[p].op = "setting"
       THEN Exit(p, "ok")
       ELSE pc' = [pc EXCEPT ![p] = "validate"] /\ UNCHANGED result
    /\ UNCHANGED <<bak, cmd, snap, seen, guarded, now>>

(* validate_config_file evaluates whatever the file says by then.           *)
Validate(p) ==
    /\ pc[p] = "validate"
    /\ pc' = [pc EXCEPT ![p] = IF Evaluates(config.c) THEN "keep" ELSE "revert"]
    /\ UNCHANGED <<config, bak, tmp, cmd, snap, result, seen, guarded, now>>

(* Mutant: an edit that is kept leaves its backup.                          *)
KeepPiling(p) ==
    /\ pc[p] = "keep"
    /\ Exit(p, "ok")
    /\ UNCHANGED <<config, bak, tmp, cmd, snap, seen, guarded, now>>

(* rm -f "$config_file.bak"                                                 *)
Keep(p) ==
    /\ pc[p] = "keep"
    /\ bak' = NoFile
    /\ Exit(p, "ok")
    /\ UNCHANGED <<config, tmp, cmd, snap, seen, guarded, now>>

(* Mutant: apply_edit reverts and returns 0.                                *)
RevertAndSayOk(p) ==
    /\ pc[p] = "revert"
    /\ config' = IF bak = NoFile THEN config ELSE bak
    /\ bak' = NoFile
    /\ Exit(p, "ok")
    /\ UNCHANGED <<tmp, cmd, snap, seen, guarded, now>>

(* mv "$config_file.bak" "$config_file"; when the backup is gone mv fails,  *)
(* and errexit is off inside the if that called apply_edit.                 *)
Revert(p) ==
    /\ pc[p] = "revert"
    /\ config' = IF bak = NoFile THEN config ELSE bak
    /\ bak' = NoFile
    /\ Exit(p, "failed")
    /\ UNCHANGED <<tmp, cmd, snap, seen, guarded, now>>

(* The command is interrupted; its EXIT trap removes the temporary file.    *)
Interrupt(p) ==
    /\ "interrupt" \in Faults
    /\ pc[p] # "idle"
    /\ tmp' = [tmp EXCEPT ![p] = NoFile]
    /\ Exit(p, "interrupted")
    /\ UNCHANGED <<config, bak, cmd, snap, seen, guarded, now>>

Step(p) ==
    \/ Evaluate(p) \/ CheckAdmins(p) \/ WriteTmp(p) \/ Backup(p)
    \/ Swap(p) \/ Validate(p) \/ Keep(p) \/ Revert(p)

Next ==
    \/ \E p \in Proc :
          \/ CallerReads(p)
          \/ \E e \in Edits :
                \/ \E g \in Guards : Begin(p, e, g)
                \/ RefuseStale(p, e)
                \/ RefuseSelf(p, e)
          \/ Step(p)
          \/ Interrupt(p)
    \/ \E e \in HandEdits : HandEdit(e)

Spec == Init /\ [][Next]_vars

-----------------------------------------------------------------------------
(* Properties.                                                              *)

(* The account that runs vayume-config keeps its block in every version of  *)
(* the file that any interleaving, interruption or revert can bring back    *)
(* (the id -un guard of cmd_users_remove).                                  *)
SelfStays == Self \in config.c.users

(* A backup lies next to the file only while some command is between its cp *)
(* and its rm or mv: backups never outlive the commands that made them      *)
(* (apply_edit, "not an accumulating pile").                                *)
Validating(p) == pc[p] \in {"swap", "validate", "keep", "revert"} /\ cmd[p].op # "setting"
BackupOwned == bak # NoFile => \E p \in Proc : Validating(p)

(* With no command running the file evaluates: apply_edit never leaves a    *)
(* broken file behind.                                                      *)
NeverLeftBroken == (\A p \in Proc : pc[p] = "idle") => Evaluates(config.c)

(* At every moment somebody may sudo after a rebuild (refuse_last_admin).   *)
SomeAdmin == Admins(config.c) # {}

(* A command that printed ok has its edit in the file, and if it is one     *)
(* that validates, the file evaluates (apply_edit's return value).          *)
OkIsTrue ==
    \A p \in Proc : pc[p] = "idle" /\ result[p] = "ok" =>
        /\ Holds(cmd[p], config.c)
        /\ cmd[p].op # "setting" => Evaluates(config.c)

(* --if-unmodified-since refuses to write over a file that changed since it *)
(* was last read: the version a guarded command replaces is the one read.   *)
GuardedSwap ==
    [][\A p \in Proc : pc[p] = "swap" /\ config' = tmp[p] /\ config' # config /\ guarded[p]
          => config.c = seen[p].c]_vars
=============================================================================

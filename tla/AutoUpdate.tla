----------------------------- MODULE AutoUpdate -----------------------------
(***************************************************************************)
(* vayume-update-run (modules/core/AutoUpdate.nix): what the timer and     *)
(* "vayume update" run over the checkout, one action per command of the    *)
(* script that something else can come between: the owner's editor and     *)
(* git, a vayume-rebuild by hand (which knows nothing of this script's     *)
(* lock), the other starter, a stop or a power cut.                        *)
(***************************************************************************)
EXTENDS Naturals, FiniteSets

CONSTANTS
    Runner,    \* the timer's service and a terminal
    Parts,     \* Parts[r]: what r updates, of "flake" and "plugins"
    Plugin,    \* the plugins pinned by hand
    MaxRev,    \* bound on the releases upstream
    Apply,     \* vayume.updates.apply: "boot" or "switch"
    Faults,    \* "network", "build", "activation", "checker", "kill"
    Edits,     \* what the owner may do: "lock", "module", "rebuild"
    Meanwhile, \* the owner may edit files while a run works
    Mine,      \* a flake.lock the owner edited
    NoRebuild  \* no vayume-rebuild by hand is running

Rev == 0..MaxRev

(* flake.lock, and per plugin the module file that pins it: the version and *)
(* whether the owner changed anything else in it.                           *)
Repo == [lock : Rev \cup {Mine}, pin : [Plugin -> Rev], own : [Plugin -> BOOLEAN]]

(* A rebuild by hand: the checkout as it copied it, and (history) whether   *)
(* no update run has worked beside it.                                      *)
Rebuilding == [copy : Repo, alone : BOOLEAN]

ASSUME UpdateAssumption ==
    /\ Parts \in [Runner -> SUBSET {"flake", "plugins"}]
    /\ MaxRev \in Nat
    /\ Apply \in {"boot", "switch"}
    /\ Faults \subseteq {"network", "build", "activation", "checker", "kill"}
    /\ Edits \subseteq {"lock", "module", "rebuild"}
    /\ Meanwhile \in BOOLEAN
    /\ Mine \notin Nat
    /\ "inputs" \notin Plugin
    /\ NoRebuild \notin Rebuilding

VARIABLES
    upstream, \* newest release of the inputs and of each plugin
    repo,     \* the checkout
    index,    \* flake.lock in git's index
    running,  \* what the running system was built from
    boot,     \* and the one that starts next
    hand,     \* a vayume-rebuild by hand
    job,      \* the run of each starter
    cut,      \* (history) what is installed since was cut short, see below
    status    \* status.json's result

vars == <<upstream, repo, index, running, boot, hand, job, cut, status>>
world == <<upstream, repo, index, running, boot, hand>>

Fresh == [lock |-> 0, pin |-> [p \in Plugin |-> 0], own |-> [p \in Plugin |-> FALSE]]

(* Where a run is, its files.tar, the pins it still has to bump, each with  *)
(* the version the running system had and the release found, the parts it   *)
(* will report, the checkout as its build copied it; and (history) the      *)
(* checkout when it began, with the running and the next system as others   *)
(* have left them since.                                                    *)
Begun == [repo : Repo, running : Repo, boot : Repo]

NoJob == [at |-> "idle", kept |-> Fresh, todo |-> {}, summary |-> {}, taken |-> Fresh,
          began |-> [repo |-> Fresh, running |-> Fresh, boot |-> Fresh]]

Steps == {"idle", "save", "inputs", "update", "plugins", "bump", "decide",
          "build", "building", "switch", "undo", "recall"}

Job == [at : Steps, kept : Repo, todo : SUBSET (Plugin \X Rev \X Rev),
        summary : SUBSET {"flake", "plugins"}, taken : Repo, began : Begun]

TypeOK ==
    /\ upstream \in [{"inputs"} \cup Plugin -> Rev]
    /\ repo \in Repo /\ index \in Rev \cup {Mine}
    /\ running \in Repo /\ boot \in Repo
    /\ hand \in Rebuilding \cup {NoRebuild}
    /\ job \in [Runner -> Job]
    /\ \A r \in Runner : /\ job[r].summary \subseteq Parts[r]
                         /\ job[r].at = "idle" => job[r] = NoJob
    /\ cut \in BOOLEAN
    /\ status \in {"none", "current", "failed", "installed"}

Init ==
    /\ upstream = [x \in {"inputs"} \cup Plugin |-> 0]
    /\ repo = Fresh /\ index = 0
    /\ running = Fresh /\ boot = Fresh
    /\ hand = NoRebuild
    /\ job = [r \in Runner |-> NoJob]
    /\ cut = FALSE
    /\ status = "none"

Quiet == \A r \in Runner : job[r].at = "idle"
Goto(r, step) == job' = [job EXCEPT ![r].at = step]
Exit(r, how) ==
    /\ job' = [job EXCEPT ![r] = NoJob]
    /\ status' = how

Started(r) ==
    /\ job' = [job EXCEPT ![r].at = "save",
                          ![r].began = [repo |-> repo, running |-> running, boot |-> boot]]
    /\ hand' = IF hand = NoRebuild THEN hand ELSE [hand EXCEPT !.alone = FALSE]
    /\ UNCHANGED <<upstream, repo, index, running, boot, cut, status>>

-----------------------------------------------------------------------------
(* Mutant: no lock.                                                         *)
BeginAnyway(r) == job[r].at = "idle" /\ Started(r)

(* flock -n: a second run exits at once.                                    *)
Begin(r) == Quiet /\ Started(r)

(* tar -cf of flake.lock and the modules that pin a hash.                   *)
Save(r) ==
    /\ job[r].at = "save"
    /\ job' = [job EXCEPT ![r].at = "inputs", ![r].kept = repo]
    /\ UNCHANGED <<world, cut, status>>

(* Mutant: git is not asked.                                                *)
LookNowhere(r) ==
    /\ job[r].at = "inputs"
    /\ Goto(r, IF "flake" \in Parts[r] THEN "update" ELSE "plugins")
    /\ UNCHANGED <<world, cut, status>>

(* Mutant: the flake step whatever the flags say.                           *)
LookAlways(r) ==
    /\ job[r].at = "inputs"
    /\ Goto(r, IF repo.lock = index THEN "update" ELSE "plugins")
    /\ UNCHANGED <<world, cut, status>>

(* Mutant: the test without its "!".                                        *)
LookBackwards(r) ==
    /\ job[r].at = "inputs"
    /\ Goto(r, IF "flake" \in Parts[r] /\ repo.lock # index THEN "update" ELSE "plugins")
    /\ UNCHANGED <<world, cut, status>>

(* git diff --quiet -- flake.lock: a lock with unsaved edits is left alone. *)
LookAtLock(r) ==
    /\ job[r].at = "inputs"
    /\ Goto(r, IF "flake" \in Parts[r] /\ repo.lock = index THEN "update" ELSE "plugins")
    /\ UNCHANGED <<world, cut, status>>

(* nix flake update writes the lock at its end, or fails.                   *)
UpdateInputs(r) ==
    /\ job[r].at = "update"
    /\ \/ /\ repo' = [repo EXCEPT !.lock = upstream["inputs"]]
          /\ job' = [job EXCEPT ![r].at = "plugins",
                                ![r].summary = @ \cup IF repo' = repo THEN {} ELSE {"flake"}]
       \/ /\ "network" \in Faults
          /\ Goto(r, "undo")
          /\ UNCHANGED repo
    /\ UNCHANGED <<upstream, index, running, boot, hand, cut, status>>

(* apply_updates reads the pins of the running system (/etc) and compares   *)
(* them with upstream; a pin whose hash cannot be fetched is left out, and  *)
(* with no network the checker exits 1.                                     *)
Outdated == {<<p, running.pin[p], upstream[p]>> :
                p \in {q \in Plugin : running.pin[q] # upstream[q]}}

CheckPlugins(r) ==
    /\ job[r].at = "plugins"
    /\ \/ /\ "plugins" \in Parts[r]
          /\ \E some \in IF "network" \in Faults THEN SUBSET Outdated ELSE {Outdated} :
                job' = [job EXCEPT ![r].at = "bump", ![r].todo = some]
       \/ /\ "plugins" \notin Parts[r] \/ "network" \in Faults
          /\ Goto(r, "decide")
    /\ UNCHANGED <<world, cut, status>>

(* bump_pin: the version the running system had then becomes the one found, *)
(* in the file that still pins it.                                          *)
Bump(r) ==
    /\ job[r].at = "bump"
    /\ \E new \in job[r].todo :
          IF repo.pin[new[1]] = new[2]
          THEN /\ repo' = [repo EXCEPT !.pin[new[1]] = new[3]]
               /\ job' = [job EXCEPT ![r].todo = @ \ {new}, ![r].summary = @ \cup {"plugins"}]
          ELSE /\ job' = [job EXCEPT ![r].todo = @ \ {new}]
               /\ UNCHANGED repo
    /\ UNCHANGED <<upstream, index, running, boot, hand, cut, status>>

Bumped(r) ==
    /\ job[r].at = "bump"
    /\ job[r].todo = {}
    /\ Goto(r, "decide")
    /\ UNCHANGED <<world, cut, status>>

(* The checker dies at a write, of a pin or of its cache: "skipping         *)
(* plugins", and what it wrote stays.                                       *)
CheckerDies(r) ==
    /\ "checker" \in Faults
    /\ job[r].at = "bump"
    /\ job' = [job EXCEPT ![r].at = "decide", ![r].todo = {}, ![r].summary = @ \ {"plugins"}]
    /\ cut' = TRUE
    /\ UNCHANGED <<world, status>>

(* Nothing in the summary: record current and exit.                         *)
Decide(r) ==
    /\ job[r].at = "decide"
    /\ IF job[r].summary = {}
       THEN Exit(r, "current")
       ELSE Goto(r, "build") /\ UNCHANGED status
    /\ UNCHANGED <<world, cut>>

(* Mutant: the build takes the saved files.                                 *)
BuildKept(r) ==
    /\ job[r].at = "build"
    /\ job' = [job EXCEPT ![r].at = "building", ![r].taken = job[r].kept]
    /\ UNCHANGED <<world, cut, status>>

(* nixos-rebuild copies the checkout (path:$repo) and builds it.            *)
Build(r) ==
    /\ job[r].at = "build"
    /\ job' = [job EXCEPT ![r].at = "building", ![r].taken = repo]
    /\ UNCHANGED <<world, cut, status>>

(* A system that builds becomes the one that starts next, and with switch   *)
(* is activated.                                                            *)
Built(r) ==
    /\ job[r].at = "building"
    /\ \/ /\ boot' = job[r].taken
          /\ cut' = FALSE
          /\ IF Apply = "boot"
             THEN Exit(r, "installed")
             ELSE Goto(r, "switch") /\ UNCHANGED status
       \/ /\ "build" \in Faults
          /\ Goto(r, "undo")
          /\ UNCHANGED <<boot, cut, status>>
    /\ UNCHANGED <<upstream, repo, index, running, hand>>

(* nixos-rebuild switch fails too when a unit of the new system does; the   *)
(* script cannot tell that from a build that failed.                        *)
Switch(r) ==
    /\ job[r].at = "switch"
    /\ running' = job[r].taken
    /\ \/ Exit(r, "installed")
       \/ "activation" \in Faults /\ Goto(r, "recall") /\ UNCHANGED status
    /\ UNCHANGED <<upstream, repo, index, boot, hand, cut>>

(* Mutant: only flake.lock comes back.                                      *)
UndoLock(r) ==
    /\ job[r].at \in {"undo", "recall"}
    /\ repo' = [repo EXCEPT !.lock = job[r].kept.lock]
    /\ Exit(r, "failed")
    /\ cut' = (cut \/ job[r].at = "recall")
    /\ UNCHANGED <<upstream, index, running, boot, hand>>

(* restore, record failed, exit 1: the checkout comes back, a system that   *)
(* was installed by then does not.                                          *)
Undo(r) ==
    /\ job[r].at \in {"undo", "recall"}
    /\ repo' = job[r].kept
    /\ Exit(r, "failed")
    /\ cut' = (cut \/ job[r].at = "recall")
    /\ UNCHANGED <<upstream, index, running, boot, hand>>

(* The service is stopped, or the power goes: the trap or the boot deletes  *)
(* the saved files.                                                         *)
Kill(r) ==
    /\ "kill" \in Faults
    /\ job[r].at # "idle"
    /\ Exit(r, status)
    /\ cut' = TRUE
    /\ UNCHANGED world

Run(r) ==
    \/ Save(r) \/ LookAtLock(r) \/ UpdateInputs(r)
    \/ CheckPlugins(r) \/ Bump(r) \/ Bumped(r) \/ CheckerDies(r)
    \/ Decide(r) \/ Build(r) \/ Built(r) \/ Switch(r) \/ Undo(r)

-----------------------------------------------------------------------------
(* Everything else (external): upstream, the owner, the machine.            *)
Release(x) ==
    /\ upstream[x] < MaxRev
    /\ upstream' = [upstream EXCEPT ![x] = @ + 1]
    /\ UNCHANGED <<repo, index, running, boot, hand, job, cut, status>>

EditLock ==
    /\ "lock" \in Edits
    /\ Meanwhile \/ Quiet
    /\ repo' = [repo EXCEPT !.lock = Mine]
    /\ UNCHANGED <<upstream, index, running, boot, hand, job, cut, status>>

EditModule(p) ==
    /\ "module" \in Edits
    /\ Meanwhile \/ Quiet
    /\ repo' = [repo EXCEPT !.own[p] = TRUE]
    /\ UNCHANGED <<upstream, index, running, boot, hand, job, cut, status>>

Commit ==
    /\ Meanwhile \/ Quiet
    /\ index # repo.lock
    /\ index' = repo.lock
    /\ UNCHANGED <<upstream, repo, running, boot, hand, job, cut, status>>

(* vayume-rebuild by hand, at any moment: it copies the checkout as it is,  *)
(* in the middle of an update too.                                          *)
RebuildBegins ==
    /\ "rebuild" \in Edits
    /\ hand = NoRebuild
    /\ hand' = [copy |-> repo, alone |-> Quiet]
    /\ UNCHANGED <<upstream, repo, index, running, boot, job, cut, status>>

(* A run that is at work, told what somebody else has installed (history).  *)
Told(system) ==
    [r \in Runner |->
        IF job[r].at = "idle"
        THEN job[r]
        ELSE [job[r] EXCEPT !.began.running = system, !.began.boot = system]]

(* It installs what it copied, or fails to build it.                        *)
RebuildEnds ==
    /\ hand # NoRebuild
    /\ hand' = NoRebuild
    /\ \/ /\ running' = hand.copy
          /\ boot' = hand.copy
          /\ job' = Told(hand.copy)
          /\ cut' = ~hand.alone
       \/ UNCHANGED <<running, boot, job, cut>>
    /\ UNCHANGED <<upstream, repo, index, status>>

Reboot ==
    /\ Quiet
    /\ running' = boot
    /\ hand' = NoRebuild
    /\ UNCHANGED <<upstream, repo, index, boot, job, cut, status>>

Next ==
    \/ \E r \in Runner : Begin(r) \/ Run(r) \/ Kill(r)
    \/ \E x \in {"inputs"} \cup Plugin : Release(x)
    \/ EditLock \/ (\E p \in Plugin : EditModule(p)) \/ Commit
    \/ RebuildBegins \/ RebuildEnds \/ Reboot

Spec == Init /\ [][Next]_vars

(* The timer comes round, a run works on, and the machine is restarted now  *)
(* and then.                                                                *)
FairSpec ==
    /\ Spec
    /\ \A r \in Runner : WF_vars(Begin(r)) /\ WF_vars(Run(r))
    /\ SF_vars(Reboot)

(* And the owner commits what an update changed.                            *)
CommittingSpec == FairSpec /\ SF_vars(Commit)

-----------------------------------------------------------------------------
(* What a failed run leaves behind: the checkout as it was when the run     *)
(* began; and the running and the next system as others have left them,     *)
(* unless the failure came only when the new system was being activated.    *)
Restored(r) ==
    /\ repo' = job[r].began.repo
    /\ job[r].at = "undo" => running' = job[r].began.running /\ boot' = job[r].began.boot

(* A run that fails undoes whatever it had updated by then (restore).       *)
FailureChangesNothing == [][\A r \in Runner : Undo(r) => Restored(r)]_vars

(* The system a run makes the next one, and the one it activates, is built  *)
(* from the checkout as it is then: the two starters never mix their edits  *)
(* (flock) and no edit is left out.                                         *)
Installed(r) == /\ Built(r) /\ job'[r].at # "undo" => boot' = repo'
                /\ Switch(r) => running' = repo'

InstalledIsRepo == [][\A r \in Runner : Installed(r)]_vars

(* A lock the owner is working on, edited and not in git, is never          *)
(* overwritten (git diff --quiet).                                          *)
YourLockStays == [][repo.lock = Mine /\ index # Mine => repo'.lock = Mine]_vars

(* Between runs the checkout pins what the next system to start was built   *)
(* from: no half of an update is left behind, whatever part of it failed.   *)
NeverHalfUpdated ==
    Quiet => /\ repo.lock \in {boot.lock, Mine}
             /\ repo.pin = boot.pin

(* Only four things leave half an update behind: a kill, a checker that     *)
(* dies, a new system that fails to activate, and a rebuild by hand that    *)
(* overlapped a run; and then only until a run installs, or somebody        *)
(* rebuilds by hand with no run beside it (restore, finally).               *)
HalfOnlyIfCut == cut \/ NeverHalfUpdated

(* Once upstream rests, scheduled runs bring the checkout to its newest     *)
(* releases and keep it there, unless a rebuild by hand ever overlaps a run *)
(* and puts an older system back under it (AutoUpdate.nix, check-plugin-    *)
(* updates --apply).                                                        *)
KeepsCurrent ==
    [](hand = NoRebuild \/ hand.alone) =>
        <>[](repo.lock = upstream["inputs"] /\ \A p \in Plugin : repo.pin[p] = upstream[p])
=============================================================================

-------------------------- MODULE AutoUpdate_proofs --------------------------
(***************************************************************************)
(* Theorems about vayume-update-run, for any number of starters, plugins   *)
(* and releases: that one run at a time works on the checkout, and what    *)
(* follows from it for the owner's lock, for what is installed and for a   *)
(* run that fails.                                                         *)
(***************************************************************************)
EXTENDS AutoUpdate, TLAPS

(* What a run does to the jobs: it moves its own, or ends it.               *)
LEMMA GotoType ==
    ASSUME job \in [Runner -> Job], NEW r \in Runner, NEW step \in Steps, Goto(r, step)
    PROVE  /\ job' \in [Runner -> Job]
           /\ job'[r].at = step
           /\ job'[r].kept = job[r].kept
           /\ job'[r].todo = job[r].todo
           /\ job'[r].summary = job[r].summary
           /\ job'[r].taken = job[r].taken
           /\ job'[r].began = job[r].began
           /\ \A s \in Runner \ {r} : job'[s] = job[s]
<1>1. job'[r] = [job[r] EXCEPT !.at = step]
    BY DEF Goto
<1>2. job[r] \in Job
    OBVIOUS
<1>3. job'[r] \in Job
    BY <1>1, <1>2 DEF Job
<1>4. job' = [job EXCEPT ![r] = job'[r]]
    BY <1>1 DEF Goto
<1>5. job' \in [Runner -> Job]
    BY <1>3, <1>4
<1>6. \A s \in Runner \ {r} : job'[s] = job[s]
    BY <1>4
<1>7. QED
    BY <1>1, <1>2, <1>5, <1>6 DEF Job

LEMMA FreshType == Fresh \in Repo
BY UpdateAssumption DEF Fresh, Repo, Rev

LEMMA NoJobType == NoJob \in Job /\ NoJob.at = "idle" /\ NoJob.summary = {}
BY FreshType DEF NoJob, Job, Begun, Steps

LEMMA ExitType ==
    ASSUME job \in [Runner -> Job], NEW r \in Runner, NEW how, Exit(r, how)
    PROVE  /\ job' \in [Runner -> Job]
           /\ job'[r] = NoJob
           /\ status' = how
           /\ \A s \in Runner \ {r} : job'[s] = job[s]
BY NoJobType DEF Exit

LEMMA TypeInit == Init => TypeOK
<1> SUFFICES ASSUME Init PROVE TypeOK
    OBVIOUS
<1>1. upstream \in [{"inputs"} \cup Plugin -> Rev] /\ index \in Rev
    BY UpdateAssumption DEF Init, Rev
<1>2. QED
    BY <1>1, FreshType, NoJobType DEF Init, TypeOK

(* The same for steps that also fill in what the run remembers.             *)
LEMMA JobType ==
    ASSUME job \in [Runner -> Job], NEW r \in Runner, NEW j \in Job,
           job' = [job EXCEPT ![r] = j]
    PROVE  /\ job' \in [Runner -> Job]
           /\ job'[r] = j
           /\ \A s \in Runner \ {r} : job'[s] = job[s]
OBVIOUS

(* A run is only where its flags send it.                                   *)
Asked ==
    \A r \in Runner : /\ job[r].at = "update" => "flake" \in Parts[r]
                      /\ job[r].at = "bump" => "plugins" \in Parts[r]

TypeInv == TypeOK /\ Asked

(* A step of r that leaves the other jobs alone.                            *)
Moved(r) ==
    /\ job' \in [Runner -> Job]
    /\ \A s \in Runner \ {r} : job'[s] = job[s]
    /\ job'[r].summary \subseteq Parts[r]
    /\ job'[r].at = "idle" => job'[r] = NoJob
    /\ job'[r].at = "update" => "flake" \in Parts[r]
    /\ job'[r].at = "bump" => "plugins" \in Parts[r]

LEMMA MovedType ==
    ASSUME TypeInv, NEW r \in Runner, Moved(r)
    PROVE  /\ \A s \in Runner : /\ job'[s].summary \subseteq Parts[s]
                               /\ job'[s].at = "idle" => job'[s] = NoJob
           /\ Asked'
<1> USE DEF TypeInv, TypeOK, Asked, Moved
<1>1. ASSUME NEW s \in Runner, s # r
      PROVE  /\ job'[s].summary \subseteq Parts[s]
             /\ job'[s].at = "idle" => job'[s] = NoJob
             /\ job'[s].at = "update" => "flake" \in Parts[s]
             /\ job'[s].at = "bump" => "plugins" \in Parts[s]
    BY <1>1
<1>2. QED
    BY <1>1

LEMMA RevType == upstream \in [{"inputs"} \cup Plugin -> Rev] => upstream["inputs"] \in Rev
OBVIOUS

(* A run is told of a rebuild by hand; it does not notice.                  *)
SameJob(r) ==
    /\ job'[r].at = job[r].at /\ job'[r].kept = job[r].kept /\ job'[r].todo = job[r].todo
    /\ job'[r].summary = job[r].summary /\ job'[r].taken = job[r].taken
    /\ job'[r].began.repo = job[r].began.repo
    /\ job[r].at = "idle" => job'[r] = job[r]

LEMMA ToldType ==
    ASSUME job \in [Runner -> Job], hand.copy \in Repo,
           job' = Told(hand.copy)
    PROVE  /\ job' \in [Runner -> Job]
           /\ \A r \in Runner : SameJob(r)
           /\ \A r \in Runner : job[r].at # "idle" => /\ job'[r].began.running = hand.copy
                                                    /\ job'[r].began.boot = hand.copy
<1> SUFFICES ASSUME NEW r \in Runner
             PROVE  /\ job'[r] \in Job /\ SameJob(r)
                    /\ job[r].at # "idle" => /\ job'[r].began.running = hand.copy
                                            /\ job'[r].began.boot = hand.copy
    BY DEF Told
<1>1. CASE job[r].at = "idle"
    BY <1>1 DEF Told, SameJob
<1>2. CASE job[r].at # "idle"
    <2> DEFINE b == [job[r].began EXCEPT !.running = hand.copy, !.boot = hand.copy]
    <2>1. /\ b \in Begun /\ b.repo = job[r].began.repo
          /\ b.running = hand.copy /\ b.boot = hand.copy
        BY DEF Job, Begun
    <2>2. job'[r] = [job[r] EXCEPT !.began = b]
        BY <1>2 DEF Told, Job
    <2>3. QED
        BY <1>2, <2>1, <2>2 DEF Job, SameJob
<1>3. QED
    BY <1>1, <1>2

LEMMA RebuildType ==
    ASSUME TypeInv, RebuildEnds
    PROVE  TypeInv'
<1>1. hand.copy \in Repo /\ hand.alone \in BOOLEAN /\ job \in [Runner -> Job]
    BY DEF RebuildEnds, Rebuilding, TypeInv, TypeOK
<1>2. job' \in [Runner -> Job] /\ \A r \in Runner : SameJob(r)
    <2>1. CASE UNCHANGED job
        BY <1>1, <2>1 DEF SameJob
    <2>2. CASE job' = Told(hand.copy)
        BY <1>1, <2>2, ToldType
    <2>3. QED
        BY <2>1, <2>2 DEF RebuildEnds
<1>3. Asked'
    BY <1>2 DEF TypeInv, Asked, SameJob
<1>4. (\A r \in Runner : /\ job[r].summary \subseteq Parts[r]
                         /\ job[r].at = "idle" => job[r] = NoJob)'
    BY <1>2 DEF TypeInv, TypeOK, SameJob
<1>5. (running \in Repo /\ boot \in Repo /\ hand \in Rebuilding \cup {NoRebuild})'
    BY <1>1 DEF RebuildEnds, TypeInv, TypeOK
<1>6. cut' \in BOOLEAN
    <2>1. (~hand.alone) \in BOOLEAN
        BY <1>1
    <2>2. cut \in BOOLEAN
        BY DEF TypeInv, TypeOK
    <2>3. QED
        BY <2>1, <2>2 DEF RebuildEnds
<1>7. (/\ upstream \in [{"inputs"} \cup Plugin -> Rev]
       /\ repo \in Repo /\ index \in Rev \cup {Mine}
       /\ status \in {"none", "current", "failed", "installed"})'
    BY DEF RebuildEnds, TypeInv, TypeOK
<1>8. TypeOK'
    BY <1>2, <1>4, <1>5, <1>6, <1>7 DEF TypeOK
<1>9. QED
    BY <1>3, <1>8 DEF TypeInv

LEMMA TypeNext == TypeInv /\ [Next]_vars => TypeInv'
<1> SUFFICES ASSUME TypeInv, [Next]_vars PROVE TypeInv'
    OBVIOUS
<1> USE DEF TypeInv, TypeOK
<1>1. ASSUME NEW r \in Runner, Begin(r) PROVE TypeInv'
    <2> DEFINE b == [repo |-> repo, running |-> running, boot |-> boot]
               j == [job[r] EXCEPT !.at = "save", !.began = b]
    <2>1. j \in Job /\ j.at = "save" /\ j.summary = job[r].summary
        BY DEF Job, Begun, Steps
    <2>2. job' = [job EXCEPT ![r] = j]
        BY <1>1 DEF Begin, Started
    <2>3. Moved(r)
        BY <2>1, <2>2, JobType DEF Moved
    <2>4. hand' \in Rebuilding \cup {NoRebuild}
        BY <1>1 DEF Begin, Started, Rebuilding
    <2>5. QED
        BY <1>1, <2>3, <2>4, MovedType DEF Begin, Started, Moved
<1>2. ASSUME NEW r \in Runner, Save(r) PROVE TypeInv'
    <2> DEFINE j == [job[r] EXCEPT !.at = "inputs", !.kept = repo]
    <2>1. j \in Job /\ j.at = "inputs" /\ j.summary = job[r].summary
        BY DEF Job, Steps
    <2>2. job' = [job EXCEPT ![r] = j]
        BY <1>2 DEF Save
    <2>3. Moved(r)
        BY <2>1, <2>2, JobType DEF Moved
    <2>4. QED
        BY <1>2, <2>3, MovedType DEF Save, Moved, world
<1>3. ASSUME NEW r \in Runner, LookAtLock(r) PROVE TypeInv'
    <2>1. Moved(r)
        BY <1>3, GotoType DEF LookAtLock, Moved, Steps
    <2>2. QED
        BY <1>3, <2>1, MovedType DEF LookAtLock, Moved, world
<1>4. ASSUME NEW r \in Runner, UpdateInputs(r) PROVE TypeInv'
    <2>1. repo' \in Repo
        BY <1>4, RevType DEF UpdateInputs, Repo
    <2>2. CASE repo' = [repo EXCEPT !.lock = upstream["inputs"]]
               /\ job' = [job EXCEPT ![r].at = "plugins",
                             ![r].summary = @ \cup IF repo' = repo THEN {} ELSE {"flake"}]
        <3> DEFINE t == job[r].summary \cup IF repo' = repo THEN {} ELSE {"flake"}
                   j == [job[r] EXCEPT !.at = "plugins", !.summary = t]
        <3>1. "flake" \in Parts[r]
            BY <1>4 DEF UpdateInputs, Asked
        <3>2. t \subseteq {"flake", "plugins"} /\ t \subseteq Parts[r]
            BY <3>1 DEF Job
        <3>3. j \in Job /\ j.at = "plugins" /\ j.summary = t
            BY <3>2 DEF Job, Steps
        <3>4. job' = [job EXCEPT ![r] = j]
            BY <2>2
        <3>5. Moved(r)
            BY <3>2, <3>3, <3>4, JobType DEF Moved
        <3>6. QED
            BY <1>4, <2>1, <3>5, MovedType DEF UpdateInputs, Moved
    <2>3. CASE Goto(r, "undo")
        <3>1. Moved(r)
            BY <2>3, GotoType DEF Moved, Steps
        <3>2. QED
            BY <1>4, <2>1, <3>1, MovedType DEF UpdateInputs, Moved
    <2>4. QED
        BY <1>4, <2>2, <2>3 DEF UpdateInputs
<1>5. ASSUME NEW r \in Runner, CheckPlugins(r) PROVE TypeInv'
    <2>1. CASE Goto(r, "decide")
        <3>1. Moved(r)
            BY <2>1, GotoType DEF Moved, Steps
        <3>2. QED
            BY <1>5, <3>1, MovedType DEF CheckPlugins, Moved, world
    <2>2. ASSUME NEW some \in SUBSET Outdated, "plugins" \in Parts[r],
                 job' = [job EXCEPT ![r].at = "bump", ![r].todo = some]
          PROVE  TypeInv'
        <3> DEFINE j == [job[r] EXCEPT !.at = "bump", !.todo = some]
        <3>1. some \subseteq Plugin \X Rev \X Rev
            BY DEF Outdated, Repo
        <3>2. j \in Job /\ j.at = "bump" /\ j.summary = job[r].summary
            BY <3>1 DEF Job, Steps
        <3>3. job' = [job EXCEPT ![r] = j]
            BY <2>2
        <3>4. Moved(r)
            BY <2>2, <3>2, <3>3, JobType DEF Moved
        <3>5. QED
            BY <1>5, <3>4, MovedType DEF CheckPlugins, Moved, world
    <2>3. QED
        BY <1>5, <2>1, <2>2 DEF CheckPlugins
<1>6. ASSUME NEW r \in Runner, Bump(r) PROVE TypeInv'
    <2>1. PICK new \in job[r].todo :
             IF repo.pin[new[1]] = new[2]
             THEN /\ repo' = [repo EXCEPT !.pin[new[1]] = new[3]]
                  /\ job' = [job EXCEPT ![r].todo = @ \ {new}, ![r].summary = @ \cup {"plugins"}]
             ELSE /\ job' = [job EXCEPT ![r].todo = @ \ {new}]
                  /\ UNCHANGED repo
        BY <1>6 DEF Bump
    <2>2. new[1] \in Plugin /\ new[3] \in Rev
        BY DEF Job
    <2>3. repo' \in Repo
        <3> DEFINE pins == [repo.pin EXCEPT ![new[1]] = new[3]]
        <3>1. pins \in [Plugin -> Rev]
            BY <2>2 DEF Repo
        <3>2. repo' = [repo EXCEPT !.pin = pins] \/ repo' = repo
            BY <2>1
        <3>3. [repo EXCEPT !.pin = pins] \in Repo
            BY <3>1 DEF Repo
        <3>4. QED
            BY <3>2, <3>3
    <2>4. PICK t \in SUBSET {"flake", "plugins"} :
             /\ t \subseteq Parts[r]
             /\ job' = [job EXCEPT ![r] = [job[r] EXCEPT !.todo = @ \ {new}, !.summary = t]]
        <3>1. "plugins" \in Parts[r]
            BY <1>6 DEF Bump, Asked
        <3>2. CASE repo.pin[new[1]] = new[2]
            <4>1. job[r].summary \cup {"plugins"} \in SUBSET {"flake", "plugins"}
                BY DEF Job
            <4>2. job[r].summary \cup {"plugins"} \subseteq Parts[r]
                BY <3>1
            <4>3. job' = [job EXCEPT ![r] = [job[r] EXCEPT !.todo = @ \ {new},
                                             !.summary = job[r].summary \cup {"plugins"}]]
                BY <2>1, <3>2
            <4>4. QED
                BY <4>1, <4>2, <4>3
        <3>3. CASE repo.pin[new[1]] # new[2]
            <4>1. job' = [job EXCEPT ![r] = [job[r] EXCEPT !.todo = @ \ {new},
                                             !.summary = job[r].summary]]
                BY <2>1, <3>3 DEF Job
            <4>2. QED
                BY <4>1 DEF Job
        <3>4. QED
            BY <3>2, <3>3
    <2> DEFINE j == [job[r] EXCEPT !.todo = job[r].todo \ {new}, !.summary = t]
    <2>5. j \in Job /\ j.at = "bump" /\ j.summary = t
        <3>1. job[r] \in Job /\ job[r].at = "bump"
            BY <1>6 DEF Bump
        <3>2. job[r].todo \ {new} \in SUBSET (Plugin \X Rev \X Rev)
            BY <3>1 DEF Job
        <3>3. t \in SUBSET {"flake", "plugins"}
            BY <2>4
        <3>4. QED
            BY <3>1, <3>2, <3>3 DEF Job
    <2>6. Moved(r)
        BY <1>6, <2>4, <2>5, JobType DEF Moved, Bump, Asked
    <2>7. QED
        BY <1>6, <2>3, <2>6, MovedType DEF Bump, Moved
<1>7. ASSUME NEW r \in Runner, Bumped(r) PROVE TypeInv'
    <2>1. Moved(r)
        BY <1>7, GotoType DEF Bumped, Moved, Steps
    <2>2. QED
        BY <1>7, <2>1, MovedType DEF Bumped, Moved, world
<1>8. ASSUME NEW r \in Runner, CheckerDies(r) PROVE TypeInv'
    <2> DEFINE j == [job[r] EXCEPT !.at = "decide", !.todo = {}, !.summary = @ \ {"plugins"}]
    <2>1. j \in Job /\ j.at = "decide" /\ j.summary \subseteq job[r].summary
        BY DEF Job, Steps
    <2>2. job' = [job EXCEPT ![r] = j]
        BY <1>8 DEF CheckerDies
    <2>3. Moved(r)
        BY <2>1, <2>2, JobType DEF Moved
    <2>4. QED
        BY <1>8, <2>3, MovedType DEF CheckerDies, Moved, world
<1>9. ASSUME NEW r \in Runner, Decide(r) PROVE TypeInv'
    <2>1. Moved(r)
        BY <1>9, GotoType, ExitType, NoJobType DEF Decide, Moved, Steps
    <2>2. status' \in {"none", "current", "failed", "installed"}
        BY <1>9 DEF Decide, Exit
    <2>3. QED
        BY <1>9, <2>1, <2>2, MovedType DEF Decide, Moved, world
<1>10. ASSUME NEW r \in Runner, Build(r) PROVE TypeInv'
    <2> DEFINE j == [job[r] EXCEPT !.at = "building", !.taken = repo]
    <2>1. j \in Job /\ j.at = "building" /\ j.summary = job[r].summary
        BY DEF Job, Steps
    <2>2. job' = [job EXCEPT ![r] = j]
        BY <1>10 DEF Build
    <2>3. Moved(r)
        BY <2>1, <2>2, JobType DEF Moved
    <2>4. QED
        BY <1>10, <2>3, MovedType DEF Build, Moved, world
<1>11. ASSUME NEW r \in Runner, Built(r) \/ Switch(r) PROVE TypeInv'
    <2>1. Moved(r)
        BY <1>11, GotoType, ExitType, NoJobType DEF Built, Switch, Moved, Steps
    <2>2. status' \in {"none", "current", "failed", "installed"}
        BY <1>11 DEF Built, Switch, Exit
    <2>3. boot' \in Repo /\ running' \in Repo
        BY <1>11 DEF Built, Switch, Job
    <2>4. QED
        BY <1>11, <2>1, <2>2, <2>3, MovedType DEF Built, Switch, Moved
<1>12. ASSUME NEW r \in Runner, Undo(r) \/ Kill(r) PROVE TypeInv'
    <2>1. Moved(r)
        BY <1>12, ExitType, NoJobType DEF Undo, Kill, Moved
    <2>2. status' \in {"none", "current", "failed", "installed"}
        BY <1>12 DEF Undo, Kill, Exit
    <2>3. repo' \in Repo
        BY <1>12 DEF Undo, Kill, Job, world
    <2>4. QED
        BY <1>12, <2>1, <2>2, <2>3, MovedType DEF Undo, Kill, Moved, world
<1>13. ASSUME NEW x \in {"inputs"} \cup Plugin, Release(x) PROVE TypeInv'
    <2>1. upstream[x] \in 0..MaxRev /\ upstream[x] + 1 \in Rev
        BY <1>13, UpdateAssumption DEF Release, Rev
    <2>2. QED
        BY <1>13, <2>1 DEF Release, Asked
<1>14. ASSUME EditLock PROVE TypeInv'
    BY <1>14 DEF EditLock, Asked, Repo
<1>15. ASSUME NEW p \in Plugin, EditModule(p) PROVE TypeInv'
    BY <1>15 DEF EditModule, Asked, Repo
<1>16. ASSUME Commit \/ Reboot PROVE TypeInv'
    BY <1>16 DEF Commit, Reboot, Asked, Repo
<1>19. ASSUME RebuildBegins PROVE TypeInv'
    <2>1. Quiet \in BOOLEAN
        BY DEF Quiet
    <2>2. hand' \in Rebuilding
        BY <1>19, <2>1 DEF RebuildBegins, Rebuilding
    <2>3. QED
        BY <1>19, <2>2 DEF RebuildBegins, Asked
<1>20. ASSUME RebuildEnds PROVE TypeInv'
    BY <1>20, RebuildType
<1>17. CASE UNCHANGED vars
    BY <1>17 DEF vars, Asked
<1>18. QED
    BY <1>1, <1>2, <1>3, <1>4, <1>5, <1>6, <1>7, <1>8, <1>9, <1>10, <1>11, <1>12,
       <1>13, <1>14, <1>15, <1>16, <1>17, <1>19, <1>20
    DEF Next, Run

(* Every variable keeps the values the script, git and the machine give it, *)
(* and a run only ever reports parts it was asked to update.                *)
THEOREM UpdateTypeCorrect == Spec => []TypeOK
<1>1. Init => TypeInv
    BY TypeInit, NoJobType DEF TypeInv, Init, Asked
<1>2. TypeInv => TypeOK
    BY DEF TypeInv
<1>3. QED
    BY <1>1, <1>2, TypeNext, PTL DEF Spec

-----------------------------------------------------------------------------
(* flock: one run at a time.                                                *)
OneRun == \A r, s \in Runner : job[r].at # "idle" /\ job[s].at # "idle" => r = s

LEMMA RunStep ==
    ASSUME TypeInv, NEW r \in Runner, Run(r) \/ Kill(r)
    PROVE  /\ job[r].at # "idle"
           /\ \A s \in Runner \ {r} : job'[s] = job[s]
<1> USE DEF TypeInv, TypeOK
<1>1. job[r].at # "idle"
    BY DEF Run, Save, LookAtLock, UpdateInputs, CheckPlugins, Bump, Bumped, CheckerDies,
       Decide, Build, Built, Switch, Undo, Kill
<1>2. CASE Save(r) \/ LookAtLock(r) \/ UpdateInputs(r) \/ CheckPlugins(r) \/ Bump(r)
    BY <1>2 DEF Save, LookAtLock, UpdateInputs, CheckPlugins, Bump, Goto
<1>3. CASE Bumped(r) \/ CheckerDies(r) \/ Decide(r) \/ Build(r)
    BY <1>3 DEF Bumped, CheckerDies, Decide, Build, Goto, Exit
<1>4. CASE Built(r) \/ Switch(r) \/ Undo(r) \/ Kill(r)
    BY <1>4 DEF Built, Switch, Undo, Kill, Goto, Exit
<1>5. QED
    BY <1>1, <1>2, <1>3, <1>4 DEF Run

(* While a run works the others are idle, and stay so.                      *)
LEMMA Alone ==
    ASSUME TypeInv, OneRun, NEW r \in Runner, Run(r) \/ Kill(r)
    PROVE  /\ job[r].at # "idle"
           /\ \A s \in Runner \ {r} : job'[s].at = "idle"
BY RunStep DEF OneRun

LEMMA BeginStep ==
    ASSUME TypeInv, NEW r \in Runner, Begin(r)
    PROVE  /\ job'[r].at = "save"
           /\ job'[r].began = [repo |-> repo, running |-> running, boot |-> boot]
           /\ \A s \in Runner \ {r} : job'[s].at = "idle"
BY DEF TypeInv, TypeOK, Job, Begin, Started, Quiet

(* What upstream, the owner and the machine do is none of a run's steps.    *)
World ==
    \/ \E x \in {"inputs"} \cup Plugin : Release(x)
    \/ EditLock \/ (\E p \in Plugin : EditModule(p)) \/ Commit
    \/ RebuildBegins \/ RebuildEnds \/ Reboot

LEMMA WorldStep ==
    ASSUME TypeInv, World
    PROVE  /\ \A r \in Runner : SameJob(r)
           /\ ~RebuildEnds => UNCHANGED <<job, cut>>
<1>1. CASE RebuildEnds
    <2>1. hand.copy \in Repo /\ job \in [Runner -> Job]
        BY <1>1 DEF RebuildEnds, Rebuilding, TypeInv, TypeOK
    <2>2. CASE UNCHANGED job
        BY <1>1, <2>2 DEF SameJob
    <2>3. CASE job' = Told(hand.copy)
        BY <1>1, <2>1, <2>3, ToldType
    <2>4. QED
        BY <1>1, <2>2, <2>3 DEF RebuildEnds
<1>2. CASE ~RebuildEnds
    <2>1. UNCHANGED <<job, cut>>
        BY <1>2 DEF World, Release, EditLock, EditModule, Commit, RebuildBegins, Reboot
    <2>2. QED
        BY <1>2, <2>1 DEF SameJob
<1>3. QED
    BY <1>1, <1>2

LEMMA OneRunNext == TypeInv /\ OneRun /\ [Next]_vars => OneRun'
<1> SUFFICES ASSUME TypeInv, OneRun, [Next]_vars PROVE OneRun'
    OBVIOUS
<1>1. ASSUME NEW r \in Runner, Begin(r) PROVE OneRun'
    BY <1>1, BeginStep DEF OneRun
<1>2. ASSUME NEW r \in Runner, Run(r) \/ Kill(r) PROVE OneRun'
    BY <1>2, Alone DEF OneRun
<1>3. CASE World
    BY <1>3, WorldStep DEF OneRun, SameJob
<1>4. CASE UNCHANGED vars
    BY <1>4 DEF vars, OneRun
<1>5. QED
    BY <1>1, <1>2, <1>3, <1>4 DEF Next, World

(* What a run knows at each step, with nobody else at the checkout: the     *)
(* saved files are those it began with and hold the owner's lock if there   *)
(* is one; before nix flake update the lock is the one in git; what was     *)
(* copied for the build is still the checkout.                              *)
Knows(r) ==
    LET at == job[r].at IN
    /\ at = "save" => repo = job[r].began.repo
    /\ at \notin {"idle", "save"} => /\ job[r].kept = job[r].began.repo
                                     /\ repo.lock = Mine => job[r].kept.lock = Mine
    /\ at = "update" => repo.lock = index
    /\ at \in {"building", "switch"} => job[r].taken = repo

RunInv == OneRun /\ \A r \in Runner : Knows(r)

SameMemory(r) == job'[r].kept = job[r].kept /\ job'[r].began = job[r].began

(* Whoever edits or commits does it between runs; a rebuild by hand edits   *)
(* nothing.                                                                 *)
LEMMA WorldKeeps ==
    ASSUME Meanwhile = FALSE, TypeInv, RunInv, World
    PROVE  RunInv'
<1>1. Quiet \/ UNCHANGED <<repo, index>>
    BY DEF World, Release, EditLock, EditModule, Commit, RebuildBegins, RebuildEnds, Reboot
<1>2. CASE Quiet
    BY <1>2, WorldStep DEF Quiet, RunInv, OneRun, Knows, SameJob
<1>3. CASE UNCHANGED <<repo, index>>
    BY <1>3, WorldStep DEF RunInv, OneRun, Knows, SameJob
<1>4. QED
    BY <1>1, <1>2, <1>3

LEMMA RunNext ==
    ASSUME Meanwhile = FALSE
    PROVE  TypeInv /\ RunInv /\ [Next]_vars => RunInv'
<1> SUFFICES ASSUME TypeInv, RunInv, [Next]_vars PROVE RunInv'
    OBVIOUS
<1>0. OneRun'
    BY OneRunNext DEF RunInv
<1>1. ASSUME NEW r \in Runner, Begin(r) PROVE RunInv'
    <2>1. repo' = repo
        BY <1>1 DEF Begin, Started
    <2>2. QED
        BY <1>0, <1>1, <2>1, BeginStep DEF RunInv, Knows
<1>2. ASSUME NEW r \in Runner, Run(r) \/ Kill(r), Knows(r)' PROVE RunInv'
    BY <1>0, <1>2, Alone DEF RunInv, Knows
<1> USE DEF TypeInv, TypeOK, Knows, SameMemory
<1>3. ASSUME NEW r \in Runner, Save(r) PROVE Knows(r)'
    <2>1. Knows(r) /\ repo' = repo
        BY <1>3 DEF Save, RunInv, world
    <2>2. job'[r].at = "inputs" /\ job'[r].kept = repo /\ job'[r].began = job[r].began
        BY <1>3 DEF Save, Job
    <2>3. QED
        BY <1>3, <2>1, <2>2 DEF Save
<1>4. ASSUME NEW r \in Runner, LookAtLock(r) PROVE Knows(r)'
    <2>1. SameMemory(r) /\ job'[r].at \in {"update", "plugins"}
        BY <1>4, GotoType DEF LookAtLock, Steps
    <2>2. job'[r].at = "update" => repo.lock = index
        BY <1>4, GotoType DEF LookAtLock, Steps
    <2>3. QED
        BY <1>4, <2>1, <2>2 DEF LookAtLock, RunInv, world
<1>5. ASSUME NEW r \in Runner, UpdateInputs(r) PROVE Knows(r)'
    <2>1. SameMemory(r) /\ job'[r].at \in {"plugins", "undo"}
        BY <1>5, GotoType DEF UpdateInputs, Steps, Job
    <2>2. repo'.lock = Mine => repo.lock = Mine
        BY <1>5, RevType, UpdateAssumption DEF UpdateInputs, Repo, Rev
    <2>3. QED
        BY <1>5, <2>1, <2>2 DEF UpdateInputs, RunInv
<1>6. ASSUME NEW r \in Runner,
             CheckPlugins(r) \/ Bumped(r) \/ CheckerDies(r) \/ Decide(r) \/ Kill(r)
      PROVE  Knows(r)'
    <2>1. UNCHANGED world
        BY <1>6 DEF CheckPlugins, Bumped, CheckerDies, Decide, Kill
    <2>2. CASE job'[r].at = "idle"
        BY <2>2
    <2>3. CASE CheckPlugins(r) \/ Bumped(r) \/ CheckerDies(r)
        <3>1. SameMemory(r) /\ job'[r].at \in {"bump", "decide"}
            BY <2>3, GotoType DEF CheckPlugins, Bumped, CheckerDies, Steps, Job
        <3>2. QED
            BY <2>1, <2>3, <3>1 DEF CheckPlugins, Bumped, CheckerDies, RunInv, world
    <2>4. CASE Decide(r) /\ job'[r].at # "idle"
        <3>1. SameMemory(r) /\ job'[r].at = "build"
            BY <2>4, GotoType, ExitType, NoJobType DEF Decide, Steps
        <3>2. QED
            BY <2>1, <2>4, <3>1 DEF Decide, RunInv, world
    <2>5. CASE Kill(r)
        BY <2>5, ExitType, NoJobType DEF Kill
    <2>6. QED
        BY <1>6, <2>2, <2>3, <2>4, <2>5
<1>7. ASSUME NEW r \in Runner, Bump(r) PROVE Knows(r)'
    <2>1. SameMemory(r) /\ job'[r].at = "bump"
        BY <1>7 DEF Bump, Job
    <2>2. repo'.lock = repo.lock
        BY <1>7 DEF Bump, Repo
    <2>3. QED
        BY <1>7, <2>1, <2>2 DEF Bump, RunInv
<1>8. ASSUME NEW r \in Runner, Build(r) PROVE Knows(r)'
    <2>1. /\ SameMemory(r)
          /\ job'[r].at = "building"
          /\ job'[r].taken = repo
        BY <1>8 DEF Build, Job
    <2>2. QED
        BY <1>8, <2>1 DEF Build, RunInv, world
<1>9. ASSUME NEW r \in Runner, Built(r) PROVE Knows(r)'
    <2>1. CASE Exit(r, "installed")
        BY <2>1, ExitType, NoJobType
    <2>2. CASE Goto(r, "switch") /\ boot' = job[r].taken
        BY <1>9, <2>2, GotoType DEF Built, RunInv, Steps
    <2>3. CASE Goto(r, "undo")
        BY <1>9, <2>3, GotoType DEF Built, RunInv, Steps
    <2>4. QED
        BY <1>9, <2>1, <2>2, <2>3 DEF Built
<1>10. ASSUME NEW r \in Runner, Switch(r) PROVE Knows(r)'
    <2>1. CASE Exit(r, "installed")
        BY <2>1, ExitType, NoJobType
    <2>2. CASE Goto(r, "recall")
        BY <1>10, <2>2, GotoType DEF Switch, RunInv, Steps
    <2>3. QED
        BY <1>10, <2>1, <2>2 DEF Switch
<1>11. ASSUME NEW r \in Runner, Undo(r) PROVE Knows(r)'
    BY <1>11, ExitType, NoJobType DEF Undo
<1>12. CASE World
    BY <1>12, WorldKeeps
<1>13. CASE UNCHANGED vars
    BY <1>13 DEF vars, RunInv, OneRun
<1>14. QED
    BY <1>1, <1>2, <1>3, <1>4, <1>5, <1>6, <1>7, <1>8, <1>9, <1>10, <1>11, <1>12, <1>13
    DEF Next, Run, World

LEMMA RunAlways ==
    ASSUME Meanwhile = FALSE
    PROVE  Spec => [](TypeInv /\ RunInv)
<1>1. Init => TypeInv /\ RunInv
    BY TypeInit, NoJobType DEF TypeInv, Init, Asked, RunInv, OneRun, Knows
<1>2. TypeInv /\ RunInv /\ [Next]_vars => (TypeInv /\ RunInv)'
    BY TypeNext, RunNext
<1>3. QED
    BY <1>1, <1>2, PTL DEF Spec

(* An update never writes over a lock the owner is working on, if the owner *)
(* works on it between runs: git diff --quiet is right for every number of  *)
(* starters and plugins, and after every failure and kill.                  *)
THEOREM LockAlwaysStays ==
    ASSUME Meanwhile = FALSE
    PROVE  Spec => YourLockStays
<1>1. TypeInv /\ RunInv /\ [Next]_vars
         => (repo.lock = Mine /\ index # Mine => repo'.lock = Mine)
    <2> SUFFICES ASSUME TypeInv, RunInv, [Next]_vars, repo.lock = Mine, index # Mine
                 PROVE  repo'.lock = Mine
        OBVIOUS
    <2> USE DEF TypeInv, TypeOK
    <2>1. ASSUME NEW r \in Runner, UpdateInputs(r) PROVE FALSE
        BY <2>1 DEF UpdateInputs, RunInv, Knows
    <2>2. ASSUME NEW r \in Runner, Bump(r) PROVE repo'.lock = Mine
        BY <2>2 DEF Bump, Repo
    <2>3. ASSUME NEW r \in Runner, Undo(r) PROVE repo'.lock = Mine
        <3>1. job[r].at \in {"undo", "recall"} /\ repo' = job[r].kept
            BY <2>3 DEF Undo
        <3>2. Knows(r)
            BY DEF RunInv
        <3>3. QED
            BY <3>1, <3>2 DEF Knows
    <2>4. ASSUME EditLock PROVE repo'.lock = Mine
        BY <2>4 DEF EditLock, Repo
    <2>5. ASSUME NEW p \in Plugin, EditModule(p) PROVE repo'.lock = Mine
        BY <2>5 DEF EditModule, Repo
    <2>6. CASE UNCHANGED repo
        BY <2>6
    <2>7. QED
        BY <2>1, <2>2, <2>3, <2>4, <2>5, <2>6
        DEF Next, Run, Begin, Started, Save, LookAtLock, CheckPlugins, Bumped, CheckerDies,
            Decide, Build, Built, Switch, Kill, Release, Commit, RebuildBegins, RebuildEnds, Reboot,
            world, vars
<1>2. QED
    BY <1>1, RunAlways, PTL DEF Spec, YourLockStays

(* What a run makes the next system, and what it activates, is the checkout *)
(* as it is then: no edit of another starter, and none of the owner's, gets *)
(* between the copy and the record; rebuilds by hand may come in between.   *)
THEOREM InstalledAlwaysRepo ==
    ASSUME Meanwhile = FALSE
    PROVE  Spec => InstalledIsRepo
<1>1. ASSUME TypeInv, RunInv, NEW r \in Runner PROVE Installed(r)
    <2> USE DEF TypeInv, TypeOK
    <2>1. Knows(r)
        BY <1>1 DEF RunInv
    <2>2. ASSUME Built(r), job'[r].at # "undo" PROVE boot' = repo'
        <3>1. boot' = job[r].taken \/ Goto(r, "undo")
            BY <2>2 DEF Built
        <3>2. ~Goto(r, "undo")
            <4>1. "undo" \in Steps /\ job \in [Runner -> Job]
                BY <1>1 DEF Steps
            <4>2. QED
                BY <2>2, <4>1, GotoType
        <3>3. QED
            BY <2>1, <2>2, <3>1, <3>2 DEF Built, Knows
    <2>3. ASSUME Switch(r) PROVE running' = repo'
        BY <2>1, <2>3 DEF Switch, Knows
    <2>4. QED
        BY <2>2, <2>3 DEF Installed
<1>2. TypeInv /\ RunInv /\ [Next]_vars => \A r \in Runner : Installed(r)
    BY <1>1
<1>3. QED
    BY <1>2, RunAlways, PTL DEF Spec, InstalledIsRepo

(* Until its own system is built, a run changes neither the running nor the *)
(* next one: they are what was there when it began, or what a rebuild by    *)
(* hand has made of them since.                                             *)
Untouched ==
    \A r \in Runner : job[r].at \notin {"idle", "switch", "recall"} =>
        running = job[r].began.running /\ boot = job[r].began.boot

LEMMA UntouchedNext == TypeInv /\ OneRun /\ Untouched /\ [Next]_vars => Untouched'
<1> SUFFICES ASSUME TypeInv, OneRun, Untouched, [Next]_vars PROVE Untouched'
    OBVIOUS
<1>1. ASSUME NEW r \in Runner, Begin(r) PROVE Untouched'
    <2>1. UNCHANGED <<running, boot>>
        BY <1>1 DEF Begin, Started
    <2>2. QED
        BY <1>1, <2>1, BeginStep DEF Untouched
<1>2. ASSUME NEW r \in Runner, Run(r) \/ Kill(r),
             \/ job'[r].at \in {"idle", "switch", "recall"}
             \/ /\ UNCHANGED <<running, boot>>
                /\ job'[r].began = job[r].began
                /\ job[r].at \notin {"idle", "switch", "recall"}
      PROVE  Untouched'
    BY <1>2, Alone DEF Untouched
<1> USE DEF TypeInv, TypeOK
<1>3. ASSUME NEW r \in Runner, Save(r) \/ LookAtLock(r) \/ UpdateInputs(r) PROVE Untouched'
    <2>1. job'[r].began = job[r].began
        BY <1>3, GotoType DEF Save, LookAtLock, UpdateInputs, Job, Steps
    <2>2. QED
        BY <1>2, <1>3, <2>1 DEF Run, Save, LookAtLock, UpdateInputs, world
<1>4. ASSUME NEW r \in Runner, CheckPlugins(r) \/ Bump(r) \/ Bumped(r) \/ CheckerDies(r)
      PROVE  Untouched'
    <2>1. job'[r].began = job[r].began
        <3>1. CASE CheckPlugins(r)
            BY <3>1, GotoType DEF CheckPlugins, Job, Steps
        <3>2. CASE Bumped(r)
            BY <3>2, GotoType DEF Bumped, Steps
        <3>3. CASE Bump(r)
            BY <3>3 DEF Bump, Job
        <3>4. CASE CheckerDies(r)
            BY <3>4 DEF CheckerDies, Job
        <3>5. QED
            BY <1>4, <3>1, <3>2, <3>3, <3>4
    <2>2. QED
        BY <1>2, <1>4, <2>1 DEF Run, CheckPlugins, Bump, Bumped, CheckerDies, world
<1>5. ASSUME NEW r \in Runner, Decide(r) \/ Build(r) PROVE Untouched'
    <2>1. job'[r].began = job[r].began \/ job'[r].at = "idle"
        BY <1>5, GotoType, ExitType, NoJobType DEF Decide, Build, Job, Steps
    <2>2. QED
        BY <1>2, <1>5, <2>1 DEF Run, Decide, Build, world
<1>6. ASSUME NEW r \in Runner, Built(r) PROVE Untouched'
    <2>1. \/ job'[r].at \in {"idle", "switch"}
          \/ job'[r].began = job[r].began /\ UNCHANGED boot
        BY <1>6, GotoType, ExitType, NoJobType DEF Built, Steps
    <2>2. QED
        BY <1>2, <1>6, <2>1 DEF Run, Built
<1>7. ASSUME NEW r \in Runner, Switch(r) \/ Undo(r) \/ Kill(r) PROVE Untouched'
    <2>1. job'[r].at \in {"idle", "recall"}
        BY <1>7, GotoType, ExitType, NoJobType DEF Switch, Undo, Kill, Steps
    <2>2. QED
        BY <1>2, <1>7, <2>1 DEF Run
<1>8. CASE World
    <2>1. CASE UNCHANGED <<running, boot, job>>
        BY <2>1 DEF Untouched
    <2>2. CASE Reboot
        BY <2>2 DEF Reboot, Quiet, Untouched
    <2>3. CASE RebuildEnds /\ ~UNCHANGED <<running, boot, job>>
        <3>1. /\ running' = hand.copy /\ boot' = hand.copy /\ hand.copy \in Repo
              /\ job' = Told(hand.copy)
            BY <2>3 DEF RebuildEnds, Rebuilding
        <3>2. QED
            BY <3>1, ToldType DEF Untouched, SameJob
    <2>4. QED
        BY <1>8, <2>1, <2>2, <2>3
        DEF World, Release, EditLock, EditModule, Commit, RebuildBegins
<1>9. CASE UNCHANGED vars
    BY <1>9 DEF vars, Untouched
<1>10. QED
    BY <1>1, <1>3, <1>4, <1>5, <1>6, <1>7, <1>8, <1>9 DEF Next, Run, World

(* A run that fails puts back exactly the checkout it began with, whatever  *)
(* had failed and whoever rebuilds by hand meanwhile; and until the new     *)
(* system was built, the running and the next system are still the ones     *)
(* that others last installed.                                              *)
THEOREM FailureAlwaysUndone ==
    ASSUME Meanwhile = FALSE
    PROVE  Spec => FailureChangesNothing
<1>1. Init => Untouched
    BY NoJobType DEF Init, Untouched
<1>2. TypeInv /\ RunInv /\ Untouched /\ [Next]_vars => Untouched'
    BY UntouchedNext DEF RunInv
<1>3. ASSUME TypeInv, RunInv, Untouched, NEW r \in Runner, Undo(r)
      PROVE  Restored(r)
    <2>1. /\ job[r].at \in {"undo", "recall"} /\ repo' = job[r].kept
          /\ UNCHANGED <<running, boot>>
        BY <1>3 DEF Undo
    <2>2. Knows(r)
        BY <1>3 DEF RunInv
    <2>3. QED
        BY <1>3, <2>1, <2>2 DEF Knows, Untouched, Restored
<1>4. TypeInv /\ RunInv /\ Untouched /\ [Next]_vars
         => \A r \in Runner : Undo(r) => Restored(r)
    BY <1>3
<1>5. QED
    BY <1>1, <1>2, <1>4, RunAlways, PTL DEF Spec, FailureChangesNothing

(* The checkout is at the versions of x, or has the owner's lock.           *)
Same(x) == repo.lock \in {x.lock, Mine} /\ repo.pin = x.pin

(* What a rebuild by hand copied with no run beside it, and what a run's    *)
(* own build copied, is still what the checkout holds.                      *)
CopyInv ==
    /\ hand # NoRebuild /\ hand.alone => Quiet /\ Same(hand.copy)
    /\ \A r \in Runner : job[r].at = "building" => Same(job[r].taken)

LEMMA SameStep ==
    ASSUME TypeInv, World, NEW x \in Repo, Same(x)
    PROVE  Same(x)'
<1> USE DEF TypeInv, TypeOK, Repo, Same
<1>1. CASE EditLock
    BY <1>1 DEF EditLock
<1>2. ASSUME NEW p \in Plugin, EditModule(p) PROVE Same(x)'
    BY <1>2 DEF EditModule
<1>3. CASE UNCHANGED repo
    BY <1>3
<1>4. QED
    BY <1>1, <1>2, <1>3 DEF World, Release, Commit, RebuildBegins, RebuildEnds, Reboot

LEMMA CopyNext == TypeInv /\ OneRun /\ CopyInv /\ [Next]_vars => CopyInv'
<1> SUFFICES ASSUME TypeInv, OneRun, CopyInv, [Next]_vars PROVE CopyInv'
    OBVIOUS
<1> USE DEF TypeInv, TypeOK
<1>1. ASSUME NEW r \in Runner, Begin(r) PROVE CopyInv'
    <2>1. hand' = NoRebuild \/ hand'.alone = FALSE
        BY <1>1 DEF Begin, Started, Rebuilding
    <2>2. QED
        BY <1>1, <2>1, BeginStep DEF CopyInv
<1>2. ASSUME NEW r \in Runner, Run(r) \/ Kill(r) PROVE CopyInv'
    <2>1. job[r].at # "idle" /\ \A s \in Runner \ {r} : job'[s].at = "idle"
        BY <1>2, Alone
    <2>2. UNCHANGED hand
        BY <1>2 DEF Run, Kill, Save, LookAtLock, UpdateInputs, CheckPlugins, Bump, Bumped,
                    CheckerDies, Decide, Build, Built, Switch, Undo, world
    <2>3. ~(hand # NoRebuild /\ hand.alone)
        BY <2>1 DEF CopyInv, Quiet
    <2>4. ASSUME job'[r].at = "building" PROVE Build(r)
        <3>1. CASE Save(r) \/ LookAtLock(r) \/ UpdateInputs(r) \/ CheckPlugins(r)
            BY <2>4, <3>1, GotoType DEF Save, LookAtLock, UpdateInputs, CheckPlugins, Steps, Job
        <3>2. CASE Bump(r)
            BY <2>4, <3>2 DEF Bump, Job
        <3>6. CASE CheckerDies(r)
            BY <2>4, <3>6 DEF CheckerDies, Job
        <3>5. CASE Bumped(r) \/ Decide(r)
            BY <2>4, <3>5, GotoType, ExitType, NoJobType DEF Bumped, Decide, Steps
        <3>3. CASE Built(r) \/ Switch(r) \/ Undo(r) \/ Kill(r)
            BY <2>4, <3>3, GotoType, ExitType, NoJobType DEF Built, Switch, Undo, Kill, Steps
        <3>4. QED
            BY <1>2, <3>1, <3>2, <3>3, <3>5, <3>6 DEF Run
    <2>5. Build(r) => Same(job[r].taken)'
        BY DEF Build, Same, Job, Repo, world
    <2>6. QED
        BY <2>1, <2>2, <2>3, <2>4, <2>5 DEF CopyInv
<1>3. CASE World
    <2>1. Quiet' = Quiet /\ \A r \in Runner : SameJob(r)
        BY <1>3, WorldStep DEF Quiet, SameJob
    <2>2. ASSUME hand' # NoRebuild, hand'.alone PROVE Quiet' /\ Same(hand.copy)'
        <3>1. CASE RebuildBegins
            <4>1. hand' = [copy |-> repo, alone |-> Quiet] /\ UNCHANGED repo
                BY <3>1 DEF RebuildBegins
            <4>2. QED
                BY <2>1, <2>2, <4>1 DEF Same, Repo
        <3>2. CASE hand' = hand
            <4>1. hand.copy \in Repo /\ Quiet /\ Same(hand.copy)
                BY <2>2, <3>2 DEF CopyInv, Rebuilding
            <4>2. Same(hand.copy)'
                BY <1>3, <3>2, <4>1, SameStep DEF Same
            <4>3. QED
                BY <2>1, <4>1, <4>2
        <3>3. QED
            BY <1>3, <2>2, <3>1, <3>2
            DEF World, Release, EditLock, EditModule, Commit, RebuildEnds, Reboot
    <2>3. ASSUME NEW r \in Runner, job'[r].at = "building" PROVE Same(job[r].taken)'
        <3>1. job[r].taken \in Repo /\ Same(job[r].taken) /\ job'[r].taken = job[r].taken
            BY <2>1, <2>3 DEF CopyInv, SameJob, Job
        <3>2. QED
            BY <1>3, <3>1, SameStep DEF Same
    <2>4. QED
        BY <2>2, <2>3 DEF CopyInv
<1>4. CASE UNCHANGED vars
    BY <1>4 DEF vars, CopyInv, Quiet, Same
<1>5. QED
    BY <1>1, <1>2, <1>3, <1>4 DEF Next, World

(* Versions the next system was built from.                                 *)
Level(x) == x.lock \in {boot.lock, Mine} /\ x.pin = boot.pin

(* The saved files are at that level; what the summary does not name is     *)
(* still there, or the owner's.                                             *)
Traced(r) ==
    /\ job[r].at \in {"idle", "save", "switch"} => Level(repo)
    /\ job[r].at \notin {"idle", "save", "switch", "recall"} => Level(job[r].kept)
    /\ job[r].at \in {"inputs", "update", "plugins", "bump", "decide"} =>
          /\ "flake" \notin job[r].summary => repo.lock \in {job[r].kept.lock, Mine}
          /\ "plugins" \notin job[r].summary => repo.pin = job[r].kept.pin

HalfInv ==
    \/ cut
    \/ /\ Quiet => Level(repo)
       /\ \A r \in Runner : job[r].at # "idle" => Traced(r)

(* A step of r is right when it keeps r's account.                          *)
LEMMA HalfOne ==
    ASSUME TypeInv, OneRun, NEW r \in Runner, Run(r) \/ Kill(r), cut' \/ Traced(r)'
    PROVE  HalfInv'
<1>1. \A s \in Runner \ {r} : job'[s].at = "idle"
    BY Alone
<1>2. QED
    BY <1>1 DEF HalfInv, Quiet, Traced

(* What has been cut short stays so, until a build or a rebuild ends.       *)
LEMMA CutStays ==
    ASSUME cut, [Next]_vars, ~RebuildEnds, \A r \in Runner : ~Built(r)
    PROVE  cut'
<1>1. ASSUME NEW r \in Runner, Begin(r) \/ Kill(r) PROVE cut'
    BY <1>1 DEF Begin, Started, Kill
<1>2. ASSUME NEW r \in Runner, Save(r) \/ LookAtLock(r) \/ UpdateInputs(r) \/ CheckPlugins(r)
      PROVE  cut'
    BY <1>2 DEF Save, LookAtLock, UpdateInputs, CheckPlugins
<1>3. ASSUME NEW r \in Runner, Bump(r) \/ Bumped(r) \/ CheckerDies(r) \/ Decide(r) PROVE cut'
    BY <1>3 DEF Bump, Bumped, CheckerDies, Decide
<1>4. ASSUME NEW r \in Runner, Build(r) \/ Switch(r) \/ Undo(r) PROVE cut'
    BY <1>4 DEF Build, Switch, Undo
<1>5. CASE World /\ ~RebuildEnds
    BY <1>5 DEF World, Release, EditLock, EditModule, Commit, RebuildBegins, Reboot
<1>6. CASE UNCHANGED vars
    BY <1>6 DEF vars
<1>7. QED
    BY <1>1, <1>2, <1>3, <1>4, <1>5, <1>6 DEF Next, Run, World

(* A build that succeeds makes the next system what the checkout holds.     *)
LEMMA BuiltStep ==
    ASSUME TypeInv, OneRun, CopyInv, HalfInv, NEW r \in Runner, Built(r)
    PROVE  HalfInv'
<1> USE DEF TypeInv, TypeOK
<1>1. CASE Goto(r, "undo") /\ UNCHANGED <<boot, cut>>
    <2>1. job[r].at = "building" /\ UNCHANGED repo
        BY DEF Built
    <2>2. CASE cut
        BY <1>1, <2>2 DEF HalfInv
    <2>3. CASE ~cut
        <3>1. Traced(r)
            BY <2>1, <2>3 DEF HalfInv
        <3>2. Traced(r)'
            BY <1>1, <2>1, <3>1, GotoType DEF Traced, Level, Steps
        <3>3. QED
            BY <3>2, HalfOne DEF Run
    <2>4. QED
        BY <2>2, <2>3
<1>2. CASE boot' = job[r].taken /\ (Exit(r, "installed") \/ Goto(r, "switch"))
    <2>1. job'[r].at \in {"idle", "switch"}
        BY <1>2, GotoType, ExitType, NoJobType DEF Steps
    <2>2. Level(repo)'
        BY <1>2 DEF Built, CopyInv, Same, Level
    <2>3. Traced(r)'
        BY <2>1, <2>2 DEF Traced
    <2>4. QED
        BY <2>3, HalfOne DEF Run
<1>3. QED
    BY <1>1, <1>2 DEF Built

(* And so does a rebuild by hand that no run worked beside.                 *)
LEMMA RebuiltStep ==
    ASSUME TypeInv, CopyInv, HalfInv, RebuildEnds
    PROVE  HalfInv'
<1> USE DEF TypeInv, TypeOK
<1>1. CASE UNCHANGED <<running, boot, job, cut>>
    BY <1>1 DEF RebuildEnds, HalfInv, Quiet, Traced, Level
<1>2. CASE boot' = hand.copy /\ cut' = ~hand.alone
    <2>1. CASE hand.alone
        <3>1. Quiet /\ Same(hand.copy) /\ UNCHANGED repo
            BY <2>1 DEF RebuildEnds, CopyInv
        <3>2. \A r \in Runner : job'[r].at = "idle"
            BY <3>1, WorldStep DEF World, Quiet, SameJob
        <3>3. Level(repo)'
            BY <1>2, <3>1 DEF Same, Level
        <3>4. QED
            BY <3>2, <3>3 DEF HalfInv, Quiet
    <2>2. CASE ~hand.alone
        BY <1>2, <2>2 DEF HalfInv
    <2>3. QED
        BY <2>1, <2>2
<1>3. QED
    BY <1>1, <1>2 DEF RebuildEnds

LEMMA HalfNext == TypeInv /\ OneRun /\ CopyInv /\ HalfInv /\ [Next]_vars => HalfInv'
<1>b. ASSUME TypeInv, OneRun, CopyInv, HalfInv, NEW r \in Runner, Built(r) PROVE HalfInv'
    BY <1>b, BuiltStep
<1>e. ASSUME TypeInv, CopyInv, HalfInv, RebuildEnds PROVE HalfInv'
    BY <1>e, RebuiltStep
<1> SUFFICES ASSUME TypeInv, OneRun, HalfInv, [Next]_vars, ~cut,
                    ~RebuildEnds, \A r \in Runner : ~Built(r)
             PROVE  HalfInv'
    BY <1>b, <1>e, CutStays DEF HalfInv
<1> USE DEF TypeInv, TypeOK
<1>0. \A r \in Runner : job[r].at # "idle" => Traced(r)
    BY DEF HalfInv
<1>1. ASSUME NEW r \in Runner, Begin(r) PROVE HalfInv'
    <2>1. Level(repo)'
        BY <1>1 DEF Begin, Started, HalfInv, Level, world
    <2>2. QED
        BY <1>1, <2>1, BeginStep DEF HalfInv, Quiet, Traced
<1>2. ASSUME NEW r \in Runner, Run(r) \/ Kill(r), cut' \/ Traced(r)' PROVE HalfInv'
    BY <1>2, HalfOne
<1>3. ASSUME NEW r \in Runner, Save(r) PROVE Traced(r)'
    <2>1. job'[r].at = "inputs" /\ job'[r].kept = repo /\ UNCHANGED <<repo, boot>>
        BY <1>3 DEF Save, Job, world
    <2>2. Level(repo)
        BY <1>0, <1>3 DEF Save, Traced
    <2>3. QED
        BY <2>1, <2>2 DEF Traced, Level
<1>4. ASSUME NEW r \in Runner, LookAtLock(r) \/ Bumped(r) PROVE Traced(r)'
    <2>1. /\ job'[r].at \in {"update", "plugins", "decide"}
          /\ job'[r].kept = job[r].kept /\ job'[r].summary = job[r].summary
          /\ UNCHANGED <<repo, boot>>
        BY <1>4, GotoType DEF LookAtLock, Bumped, Steps, world
    <2>2. Traced(r) /\ job[r].at \in {"inputs", "bump"}
        BY <1>0, <1>4 DEF LookAtLock, Bumped
    <2>3. QED
        BY <2>1, <2>2 DEF Traced, Level
<1>5. ASSUME NEW r \in Runner, UpdateInputs(r) PROVE Traced(r)'
    <2>1. Traced(r) /\ job[r].at = "update" /\ UNCHANGED boot
        BY <1>0, <1>5 DEF UpdateInputs
    <2>2. CASE Goto(r, "undo")
        BY <2>1, <2>2, GotoType DEF Traced, Level, Steps
    <2>3. CASE ~Goto(r, "undo")
        <3>1. /\ repo' = [repo EXCEPT !.lock = upstream["inputs"]]
              /\ job' = [job EXCEPT ![r].at = "plugins",
                           ![r].summary = @ \cup IF repo' = repo THEN {} ELSE {"flake"}]
            BY <1>5, <2>3 DEF UpdateInputs
        <3>2. job'[r].at = "plugins" /\ job'[r].kept = job[r].kept
            BY <3>1 DEF Job
        <3>3. job'[r].summary = job[r].summary \cup IF repo' = repo THEN {} ELSE {"flake"}
            BY <3>1 DEF Job
        <3>4. repo'.pin = repo.pin
            BY <3>1 DEF Repo
        <3>5. QED
            BY <2>1, <3>2, <3>3, <3>4 DEF Traced, Level
    <2>4. QED
        BY <2>2, <2>3
<1>6. ASSUME NEW r \in Runner, CheckPlugins(r) PROVE Traced(r)'
    <2>1. /\ job'[r].at \in {"bump", "decide"}
          /\ job'[r].kept = job[r].kept /\ job'[r].summary = job[r].summary
          /\ UNCHANGED <<repo, boot>>
        BY <1>6, GotoType DEF CheckPlugins, Steps, Job, world
    <2>2. Traced(r) /\ job[r].at = "plugins"
        BY <1>0, <1>6 DEF CheckPlugins
    <2>3. QED
        BY <2>1, <2>2 DEF Traced, Level
<1>7. ASSUME NEW r \in Runner, Bump(r) PROVE Traced(r)'
    <2>1. Traced(r) /\ job[r].at = "bump" /\ UNCHANGED boot
        BY <1>0, <1>7 DEF Bump
    <2>2. job'[r].at = "bump" /\ job'[r].kept = job[r].kept
        BY <1>7 DEF Bump, Job
    <2>3. repo'.lock = repo.lock
        BY <1>7 DEF Bump, Repo
    <2>4. "flake" \notin job'[r].summary => "flake" \notin job[r].summary
        BY <1>7 DEF Bump, Job
    <2>5. "plugins" \notin job'[r].summary => "plugins" \notin job[r].summary /\ repo' = repo
        BY <1>7 DEF Bump, Job
    <2>6. QED
        BY <2>1, <2>2, <2>3, <2>4, <2>5 DEF Traced, Level
<1>8. ASSUME NEW r \in Runner, CheckerDies(r) \/ Kill(r) PROVE cut'
    BY <1>8 DEF CheckerDies, Kill
<1>9. ASSUME NEW r \in Runner, Decide(r) PROVE Traced(r)'
    <2>1. Traced(r) /\ job[r].at = "decide" /\ UNCHANGED <<repo, boot>>
        BY <1>0, <1>9 DEF Decide, world
    <2>2. CASE job[r].summary = {}
        <3>1. job'[r].at = "idle"
            BY <1>9, <2>2, ExitType, NoJobType DEF Decide
        <3>2. QED
            BY <2>1, <2>2, <3>1 DEF Traced, Level
    <2>3. CASE job[r].summary # {}
        <3>1. job'[r].at = "build" /\ job'[r].kept = job[r].kept
            BY <1>9, <2>3, GotoType DEF Decide, Steps
        <3>2. QED
            BY <2>1, <3>1 DEF Traced, Level
    <2>4. QED
        BY <2>2, <2>3
<1>10. ASSUME NEW r \in Runner, Build(r) PROVE Traced(r)'
    <2>1. Traced(r) /\ job[r].at = "build" /\ UNCHANGED <<repo, boot>>
        BY <1>0, <1>10 DEF Build, world
    <2>2. job'[r].at = "building" /\ job'[r].kept = job[r].kept /\ job'[r].taken = repo
        BY <1>10 DEF Build, Job
    <2>3. QED
        BY <2>1, <2>2 DEF Traced, Level
<1>12. ASSUME NEW r \in Runner, Switch(r) PROVE Traced(r)'
    <2>1. Traced(r) /\ job[r].at = "switch" /\ UNCHANGED <<repo, boot>>
        BY <1>0, <1>12 DEF Switch
    <2>2. job'[r].at \in {"idle", "recall"}
        BY <1>12, GotoType, ExitType, NoJobType DEF Switch, Steps
    <2>3. QED
        BY <2>1, <2>2 DEF Traced, Level
<1>13. ASSUME NEW r \in Runner, Undo(r) PROVE cut' \/ Traced(r)'
    <2>1. CASE job[r].at = "recall"
        BY <1>13, <2>1 DEF Undo
    <2>2. CASE job[r].at = "undo"
        <3>1. Traced(r) /\ repo' = job[r].kept /\ UNCHANGED boot
            BY <1>0, <1>13, <2>2 DEF Undo
        <3>2. job'[r].at = "idle"
            BY <1>13, ExitType, NoJobType DEF Undo
        <3>3. QED
            BY <2>2, <3>1, <3>2 DEF Traced, Level
    <2>3. QED
        BY <1>13, <2>1, <2>2 DEF Undo
<1>14. CASE World
    <2>1. UNCHANGED job
        BY <1>14, WorldStep
    <2>2. CASE UNCHANGED <<repo, boot>>
        BY <2>1, <2>2 DEF HalfInv, Quiet, Traced, Level
    <2>3. CASE EditLock
        <3>1. repo'.lock = Mine /\ repo'.pin = repo.pin /\ UNCHANGED boot
            BY <2>3 DEF EditLock, Repo
        <3>2. QED
            BY <2>1, <3>1 DEF HalfInv, Quiet, Traced, Level
    <2>4. ASSUME NEW p \in Plugin, EditModule(p) PROVE HalfInv'
        <3>1. repo'.lock = repo.lock /\ repo'.pin = repo.pin /\ UNCHANGED boot
            BY <2>4 DEF EditModule, Repo
        <3>2. QED
            BY <2>1, <3>1 DEF HalfInv, Quiet, Traced, Level
    <2>5. QED
        BY <1>14, <2>2, <2>3, <2>4 DEF World, Release, Commit, RebuildBegins, Reboot
<1>15. CASE UNCHANGED vars
    BY <1>15 DEF vars, HalfInv, Quiet, Traced, Level
<1>16. QED
    BY <1>1, <1>2, <1>3, <1>4, <1>5, <1>6, <1>7, <1>8, <1>9, <1>10, <1>12, <1>13,
       <1>14, <1>15
    DEF Next, Run, World

(* No run that came to its end, well or badly, leaves half an update: any   *)
(* number of starters, of plugins with any of their hashes missing, of      *)
(* failures of network and build, of edits and of rebuilds by hand. The     *)
(* four ways to a half are a kill, a dead checker, a failed activation and  *)
(* a rebuild that overlapped a run, each until the next install.            *)
THEOREM HalfOnlyEverIfCut == Spec => []HalfOnlyIfCut
<1>1. Init => TypeInv /\ OneRun /\ CopyInv /\ HalfInv
    BY TypeInit, NoJobType
    DEF TypeInv, Init, Asked, OneRun, CopyInv, HalfInv, Level
<1>2. TypeInv /\ OneRun /\ CopyInv /\ HalfInv /\ [Next]_vars
         => (TypeInv /\ OneRun /\ CopyInv /\ HalfInv)'
    BY TypeNext, OneRunNext, CopyNext, HalfNext
<1>3. HalfInv => HalfOnlyIfCut
    BY DEF HalfInv, HalfOnlyIfCut, NeverHalfUpdated, Level
<1>4. QED
    BY <1>1, <1>2, <1>3, PTL DEF Spec
=============================================================================

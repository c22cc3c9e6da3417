----------------------------- MODULE ZenSystem -----------------------------
(***************************************************************************)
(* The themed browser: fx-autoconfig's loader, the theme scripts in its    *)
(* windows, the Matugen actors in its content processes, Zen's boosts, the *)
(* files the scripts poll and those who write them, over one or more       *)
(* sessions of the browser.                                                *)
(***************************************************************************)
EXTENDS ZenBridge

(***************************************************************************)
(* The scripts in the directory, the files that are there, and how many    *)
(* outside events of each kind may come: the bounds of a behaviour.        *)
(***************************************************************************)
CONSTANT Scenarios

ASSUME ScenariosAssumption ==
    Scenarios \subseteq [scripts: Seq(Script), written: SUBSET Watched,
                         events: [EventKind -> Nat]]

theme == <<boost, gradient, pref, trail, page, child, inbox, bridge, actor, chrome>>
vars == <<file, left, theme, loader>>

TypeOK ==
    /\ FilesTypeOK
    /\ BoostsTypeOK
    /\ PagesTypeOK
    /\ BridgeTypeOK
    /\ LoaderTypeOK

Init ==
    /\ \E scenario \in Scenarios :
         /\ scripts = scenario.scripts
         /\ FilesInit(scenario.written)
         /\ left = scenario.events
    /\ boost = [h \in Host |-> NoBoost]
    /\ gradient = 0
    /\ PagesInit
    /\ BridgeInit
    /\ LoaderInit

-----------------------------------------------------------------------------

Finish(f) ==
    /\ EndWrite(f)
    /\ UNCHANGED <<theme, loader>>

Writer(f) ==
    /\ StartWrite(f) \/ Disable(f)
    /\ UNCHANGED <<theme, loader>>

EditBoost(h) ==
    /\ UserBoosts(h) \/ UserTurnsOff(h)
    /\ Spend({"user"})
    /\ UNCHANGED <<file, pref, trail, page, child, inbox, bridge, actor, chrome, loader>>

Visit(p, h) ==
    /\ Load(p, h, actor)
    /\ UNCHANGED <<boost, gradient, bridge, actor, chrome, loader>>

Toggle(s) ==
    /\ ToggleScript(s)
    /\ Spend({"toggle"})
    /\ UNCHANGED <<file, theme>>

(***************************************************************************)
(* Restart, from the menu: the profile stays, the windows and tabs go and  *)
(* come back as new ones.  Writers are not part of the browser.            *)
(***************************************************************************)
Restart ==
    /\ Spend({"restart"})
    /\ PagesRestart
    /\ BridgeRestart
    /\ LoaderRestart
    /\ UNCHANGED <<file, boost, gradient>>

Start(w) == UNCHANGED loader /\ Imports(w)

Round(w) ==
    /\ UNCHANGED loader
    /\ PollStep(w) \/ PollBoosts(w)

SlowRound(w) == UNCHANGED loader /\ UniversalRound(w)

StartModules(w) ==
    /\ ExecuteModules(w)
    /\ UNCHANGED <<file, left, theme>>

EndImport(w) ==
    /\ \E m \in Module : Imported(w, m)
    /\ UNCHANGED <<file, left, theme>>

Content(A) == A /\ UNCHANGED <<boost, gradient, bridge, actor, chrome, loader>>

Next ==
    \/ \E f \in Watched : Finish(f) \/ Writer(f)
    \/ \E h \in Host : EditBoost(h)
    \/ \E p \in Page, h \in Host : Visit(p, h)
    \/ \E s \in Script : Toggle(s)
    \/ Restart
    \/ \E w \in Window : \/ Open(w) \/ Close(w)
                         \/ Start(w)
                         \/ Round(w)
                         \/ SlowRound(w)
                         \/ StartModules(w)
                         \/ EndImport(w)
    \/ \E p \in Page : Content(Answer(p))
    \/ \E q \in Process : Content(Deliver(q)) \/ Content(Mutate(q)) \/ Content(Fire(q))

Spec == Init /\ [][Next]_vars

(***************************************************************************)
(* Writers finish, imports are answered, timers fire and messages arrive;  *)
(* windows, tabs, edits, restarts and changes of a document need not come. *)
(* Where actions share one condition, each of them has only so many steps  *)
(* to take in a behaviour, so that none can keep another one waiting.      *)
(***************************************************************************)
Fairness ==
    /\ WF_vars(\E f \in Watched : Finish(f))
    /\ \A w \in Window : /\ WF_vars(Start(w) \/ Round(w))
                         /\ WF_vars(SlowRound(w))
                         /\ WF_vars(StartModules(w) \/ EndImport(w))
    /\ WF_vars(\E p \in Page : Content(Answer(p)))
    /\ \A q \in Process : WF_vars(Content(Deliver(q)) \/ Content(Fire(q)))

FairSpec == Spec /\ Fairness

-----------------------------------------------------------------------------

Newest == ReadJson

(***************************************************************************)
(* Every window whose script runs ends up in the colours of the palette    *)
(* that was written last, however the writes fall between the rounds of    *)
(* the windows' timers, their starts and their ends.  Only a writer that   *)
(* comes between init's reading the palette and its asking for the time    *)
(* can be missed, by that window and until the next write.                 *)
(***************************************************************************)
Missed(w) ==
    bridge[w].jsonTime = file["palette"].time /\ bridge[w].json # file["palette"].text

ChromeFollows == <>[](\A w \in Window :
    Running(w) /\ Newest # 0 => Missed(w) \/ chrome[w] = [k \in Key |-> Newest])

(***************************************************************************)
(* Every page that was opened under the actor ends up with the global      *)
(* styles and, unless the switch is off or the file is gone, its own       *)
(* site's and no other's: the parent's answer, the broadcasts and the      *)
(* child's timer never leave an older text behind.  Changes are missed in  *)
(* three cases: when the window that registered the actor, and so is the   *)
(* only one to broadcast, was closed; when a writer came between that      *)
(* window's reading a text and its asking for the time, until the next     *)
(* write; and the site's styles, when another site's page has been in the  *)
(* same process, whose last styles its timer puts into either.             *)
(***************************************************************************)
Overtaken(f) == \E w \in Window :
    IF f = "web"
    THEN bridge[w].webTime = WebTime /\ bridge[w].on # WebOn
    ELSE bridge[w].cache[f].time = file[f].time /\ bridge[w].cache[f].css # file[f].text

Heard(f) == (\E w \in Window : bridge[w].ready) /\ ~Overtaken(f)

Apart(p) == \A h \in child[page[p].process].hosts : h \in Themed <=> page[p].host \in Themed

Reaches(f, p) == Heard(f) => page[p].css[f] = file[f].text

OwnStyles(p) == page[p].host \in Themed /\ WebOn /\ file["github"].there /\ ~Overtaken("web")

CssFollows == <>[](\A p \in Shown : page[p].served =>
    /\ Reaches("global", p)
    /\ Apart(p) => IF page[p].host \in Themed
                   THEN OwnStyles(p) => Reaches("github", p)
                   ELSE page[p].css["github"] = 0)

(***************************************************************************)
(* The domains a window boosted itself end up with the hue of the newest   *)
(* accent, whatever other windows, the user and half-written palettes do   *)
(* in between, if there is a boosts manager.                               *)
(***************************************************************************)
TintedAs(domains) == \A w \in Window : \A h \in domains[w] :
    boost[h].active /\ Newest # 0 => boost[h].tint = Newest

OursTinted == <>[]TintedAs([w \in Window |-> bridge[w].ours])

(***************************************************************************)
(* The same for every domain the script knows, "whether just created or    *)
(* pre-existing in Zen's storage", as syncUniversalBoosts says.            *)
(***************************************************************************)
KnownTinted == <>[]TintedAs([w \in Window |-> bridge[w].known])
=============================================================================

---------------------------- MODULE ScriptLoader ----------------------------
(***************************************************************************)
(* fx-autoconfig's loader (boot.sys.mjs, module_loader.mjs, toggleScript): *)
(* which of the user's scripts run in which window of the browser.         *)
(* Classic scripts are injected one after the other when a window's        *)
(* document is there; .uc.mjs modules are imported later, by a script that *)
(* looks at everything anew.  The preference that lists the scripts that   *)
(* are off is the only thing that outlives the session.                    *)
(***************************************************************************)
EXTENDS Naturals, SequencesExt

CONSTANTS
    Window,
    Script,
    Module,         \* .uc.mjs
    Background,     \* modules the loader imports itself, .sys.mjs
    OnlyOnce,       \* @onlyonce
    Clash,          \* classic scripts that declare one name in their window
    Within          \* <<s, t>>: the name of s is a part of the name of t

ASSUME LoaderAssumption ==
    /\ Background \subseteq Module /\ Module \subseteq Script
    /\ OnlyOnce \subseteq Script
    /\ \A pair \in Clash : pair \subseteq Script \ Module
    /\ Within \subseteq Script \X Script

VARIABLES
    scripts,        \* this.scripts, in the order its sort leaves them in
    disabled,       \* userChromeJS.scriptsDisabled
    running,        \* ScriptData's isRunning
    failed,         \* ScriptData's injectionFailed
    opened,         \* the browser windows whose document has been loaded
    ran,            \* the scripts that were started in each open window
    loading,        \* the windows whose module loader is still to be executed
    importing,      \* the modules each window waits for
    off,            \* what the user turned off in the menu
    touched         \* what he turned on or off since the browser started

loader == <<scripts, disabled, running, failed, opened, ran, loading, importing, off, touched>>

Nowhere == [w \in Window |-> {}]

LoaderTypeOK ==
    /\ Range(scripts) \subseteq Script
    /\ Range(disabled) \subseteq Script
    /\ running \subseteq Script /\ failed \subseteq Script
    /\ opened \subseteq Window
    /\ ran \in [Window -> SUBSET Script]
    /\ loading \subseteq Window
    /\ importing \in [Window -> SUBSET Module]
    /\ off \subseteq Script /\ touched \subseteq Script

Present == Range(scripts)
Disabled == Range(disabled)

(***************************************************************************)
(* init: the directory is read once, and the background modules that are   *)
(* not off are imported at once.                                           *)
(***************************************************************************)
LoaderInit ==
    /\ disabled = <<>>
    /\ running = Background \intersect Present
    /\ failed = {}
    /\ opened = {}
    /\ ran = Nowhere
    /\ loading = {}
    /\ importing = Nowhere
    /\ off = {}
    /\ touched = {}

LoaderRestart ==
    /\ running' = (Background \intersect Present) \ Disabled
    /\ failed' = {}
    /\ opened' = {}
    /\ ran' = Nowhere
    /\ loading' = {}
    /\ importing' = Nowhere
    /\ touched' = {}
    /\ UNCHANGED <<scripts, disabled, off>>

(***************************************************************************)
(* injectClassicScriptIntoGlobal: top-level declarations live in the       *)
(* window's global scope, so the second script to declare a name throws,   *)
(* and is not tried again in this session.                                 *)
(***************************************************************************)
Skipped(window, s) ==
    \/ s \in Module
    \/ s \in Disabled
    \/ s \in window.failed
    \/ s \in OnlyOnce /\ s \in window.running

Throws(window, s) == \E pair \in Clash : s \in pair /\ pair \ {s} \subseteq window.ran

(* Mutant: a script that was injected is not recorded as running.           *)
InjectUnrecorded(window, s) ==
    IF Skipped(window, s) THEN window
    ELSE IF Throws(window, s) THEN [window EXCEPT !.failed = @ \union {s}]
    ELSE [window EXCEPT !.ran = @ \union {s}]

Inject(window, s) ==
    IF Skipped(window, s) THEN window
    ELSE IF Throws(window, s) THEN [window EXCEPT !.failed = @ \union {s}]
    ELSE [window EXCEPT !.ran = @ \union {s}, !.running = @ \union {s}]

Injected ==
    FoldLeft(Inject, [ran |-> {}, running |-> running, failed |-> failed], scripts)

(***************************************************************************)
(* onDOMContent: the module loader is asked for before the classic scripts *)
(* are injected, and executed after.                                       *)
(***************************************************************************)
ForWindows == (Module \ Background) \intersect Present

(* Mutant: only the first window of the session gets a module loader.       *)
AsksForModulesOnce == opened = {} /\ \E m \in ForWindows : m \notin Disabled

AsksForModules == \E m \in ForWindows : m \notin Disabled

OnDOMContent(w) ==
    /\ w \notin opened
    /\ opened' = opened \union {w}
    /\ ran' = [ran EXCEPT ![w] = Injected.ran]
    /\ running' = Injected.running
    /\ failed' = Injected.failed
    /\ loading' = IF AsksForModules THEN loading \union {w} ELSE loading
    /\ UNCHANGED <<scripts, disabled, importing, off, touched>>

(***************************************************************************)
(* A window goes, with its scripts and what it waits for; that a script    *)
(* ran in it is remembered.                                                *)
(***************************************************************************)
Unload(w) ==
    /\ w \in opened
    /\ opened' = opened \ {w}
    /\ ran' = [ran EXCEPT ![w] = {}]
    /\ loading' = loading \ {w}
    /\ importing' = [importing EXCEPT ![w] = {}]
    /\ UNCHANGED <<scripts, disabled, running, failed, off, touched>>

(***************************************************************************)
(* module_loader.mjs: the imports of all modules start together; one that  *)
(* throws is marked as failed, and in the end as running too.              *)
(***************************************************************************)
Importable == {m \in ForWindows :
    m \notin Disabled /\ m \notin failed /\ ~(m \in OnlyOnce /\ m \in running)}

ExecuteModules(w) ==
    /\ w \in loading
    /\ loading' = loading \ {w}
    /\ importing' = [importing EXCEPT ![w] = Importable]
    /\ ran' = [ran EXCEPT ![w] = @ \union Importable]
    /\ UNCHANGED <<scripts, disabled, running, failed, opened, off, touched>>

Imported(w, m) ==
    /\ m \in importing[w]
    /\ importing' = [importing EXCEPT ![w] = @ \ {m}]
    /\ failed' \in {failed, failed \union {m}}
    /\ running' = running \union {m}
    /\ UNCHANGED <<scripts, disabled, opened, ran, loading, off, touched>>

(***************************************************************************)
(* toggleScript edits the preference as a text: a name is found in it      *)
(* wherever it is a part of what is there, put in front of the list, and   *)
(* taken out only where it begins the list or follows a comma.             *)
(***************************************************************************)
Found(s) == \E d \in Disabled : d = s \/ <<s, d>> \in Within

(* Mutant: the script turned off replaces those that already were.          *)
ToggledAlone(s) == IF Found(s) THEN RemoveFirst(disabled, s) ELSE <<s>>

Toggled(s) == IF Found(s) THEN RemoveFirst(disabled, s) ELSE <<s>> \o disabled

ToggleScript(s) ==
    /\ s \in Present
    /\ disabled' = Toggled(s)
    /\ off' = IF s \in off THEN off \ {s} ELSE off \union {s}
    /\ touched' = touched \union {s}
    /\ UNCHANGED <<scripts, running, failed, opened, ran, loading, importing>>

-----------------------------------------------------------------------------

Starts(s, w) == s \in ran'[w] \ ran[w]

(***************************************************************************)
(* A script that starts in a window is neither one the user turned off,    *)
(* whatever was turned on and off before, in any order, and whether the    *)
(* list is read when the window opens or when its modules are loaded, nor  *)
(* one that failed earlier in the session, even if the window asked for    *)
(* its modules before the failure.  A name that is a part of another one   *)
(* is the exception: toggleScript takes it for off while the other is.     *)
(***************************************************************************)
Distinct == {s \in Script : \A t \in Script : <<s, t>> \notin Within}

OnlyWished == [][\A w \in Window, s \in Script :
    Starts(s, w) => s \notin failed /\ (s \in Distinct => s \notin off)]_loader

(***************************************************************************)
(* A classic script with @onlyonce runs in one window only, whatever is    *)
(* turned on and off between two windows.  For modules this is not so:     *)
(* two windows may load them before either import has ended.               *)
(***************************************************************************)
ClassicOnce == \A s \in OnlyOnce \ Module : \A w, u \in Window :
    s \in ran[w] /\ s \in ran[u] => w = u

(***************************************************************************)
(* A module the user left alone all session is started in every window, or *)
(* has failed in one.                                                      *)
(***************************************************************************)
ModulesStart == <>[](\A w \in opened :
    \A m \in ForWindows \ OnlyOnce :
      m \in ran[w] \/ m \in failed \/ m \in off \/ m \in touched)
=============================================================================

--------------------------- MODULE SettingsPanel ---------------------------
(***************************************************************************)
(* The view model of the Vayume settings panel (VayumeModel.qml): what a   *)
(* page shows, the one Process per kind of write that runs vayume-config,  *)
(* the one Process per page that reads it back, and the timer that puts    *)
(* off theme writes.  A command is one step on the stored values; what     *)
(* overlapping commands do to the file is ConfigEdit's subject.            *)
(***************************************************************************)
EXTENDS Naturals, FiniteSets

Slots == {"theme", "apps", "users", "password", "members", "settings", "defaults"}
Pages == {"theme", "apps", "users", "settings", "defaults"}

CONSTANTS
    Key,        \* what can be set: a theme field, an app, a group, an option
    SlotOf,     \* the write Process a key goes through
    Package,    \* the keys that are packages of a user's
    Value,
    Blank,      \* what a page shows after a reading that failed
    NoEdit,
    Users       \* who may sit before the panel

ASSUME PanelAssumption ==
    /\ SlotOf \in [Key -> Slots]
    /\ \A k \in Package : k \in Key /\ SlotOf[k] = "users"
    /\ Value # {}
    /\ Blank \notin Value
    /\ NoEdit \notin [key : Key, value : Value]
    /\ Users \subseteq [keys : SUBSET Key, waits : BOOLEAN, fails : BOOLEAN]

PageOf(s) == IF s \in {"users", "password", "members"} THEN "users" ELSE s
KeysOf(g) == {k \in Key : PageOf(SlotOf[k]) = g}
Edit == [key : Key, value : Value]

(* setFont, setAppEnabled, setUserGroup and their like change what is shown *)
(* at once; the other setters wait for the reading that follows.            *)
Optimistic == {"theme", "apps", "users"}

VARIABLES
    shown,    \* root.theme, apps, users, settings, defaultApps
    stored,   \* what vayume-config would list
    timer,    \* themeWriteDebounce's field and value while it runs
    proc,     \* the write Processes
    reading,  \* the reading Processes, with what they have read
    loading,  \* themeLoading and its like
    wanted,   \* what the user last asked for and was not told it failed
    user      \* what he changes, whether he waits for a page to settle before
              \* he acts on it, and whether a reading may fail meanwhile

vars == <<shown, stored, timer, proc, reading, loading, wanted, user>>

(* next: the command a Process was given while it ran; again: it was told   *)
(* to run while it did.                                                     *)
IdleProc == [step |-> "idle", edit |-> NoEdit, next |-> NoEdit]
Running(e) == [IdleProc EXCEPT !.step = "running", !.edit = e]
NotReading == [step |-> "idle", got |-> <<>>, again |-> FALSE]
Reading == [NotReading EXCEPT !.step = "started"]

TypeOK ==
    /\ shown \in [Key -> Value \cup {Blank}]
    /\ stored \in [Key -> Value]
    /\ timer \in Edit \cup {NoEdit}
    /\ proc \in [Slots -> [step : {"idle", "running", "ok", "failed"},
                           edit : Edit \cup {NoEdit}, next : Edit \cup {NoEdit}]]
    /\ \A g \in Pages : /\ reading[g].step \in {"idle", "started", "read"}
                         /\ reading[g].again => reading[g].step # "idle"
    /\ loading \in [Pages -> BOOLEAN]
    /\ wanted \in [Key -> Value]
    /\ user \in Users

(* What a control nobody uses shows all along.                              *)
Untouched == CHOOSE v \in Value : TRUE

Init ==
    /\ user \in Users
    /\ \E listed \in [user.keys -> Value] :
         stored = [k \in Key |-> IF k \in user.keys THEN listed[k] ELSE Untouched]
    /\ shown = stored
    /\ wanted = stored
    /\ timer = NoEdit
    /\ proc = [s \in Slots |-> IdleProc]
    /\ reading = [g \in Pages |-> NotReading]
    /\ loading = [g \in Pages |-> FALSE]

QuietPage(g) ==
    /\ reading[g] = NotReading
    /\ \A s \in Slots : PageOf(s) = g => proc[s] = IdleProc
    /\ g = "theme" => timer = NoEdit

-----------------------------------------------------------------------------
(* Quickshell's Process: running = true while it runs has it start once     *)
(* more when it ends, with the command it has by then.                      *)
(* The refresh functions:                                                   *)
Refetch(gs) ==
    /\ loading' = [g \in Pages |-> loading[g] \/ g \in gs]
    /\ reading' = [g \in Pages |-> IF g \notin gs THEN reading[g]
                                   ELSE IF reading[g] = NotReading THEN Reading
                                   ELSE [reading[g] EXCEPT !.again = TRUE]]

Run(s, e) ==
    proc' = [proc EXCEPT ![s] = IF @ = IdleProc THEN Running(e) ELSE [@ EXCEPT !.next = e]]

Ended(s) == IF proc[s].next = NoEdit THEN IdleProc ELSE Running(proc[s].next)
ReadEnded(g) == IF reading[g].again THEN Reading ELSE NotReading

UsersSaving == \E s \in {"users", "password", "members"} : proc[s] # IdleProc

(* The controls of Appearance and Default apps are off while their page is  *)
(* read, a setting's row while settingsSetProc runs, Add User while a user  *)
(* is saved; a user's card is not there while the users are read.  Add a    *)
(* Package and the search's app toggles look at none of it.                 *)
PageOn(e) == SlotOf[e.key] \in {"theme", "defaults"} /\ ~loading[SlotOf[e.key]]
SettingOn(e) == SlotOf[e.key] = "settings" /\ proc["settings"] = IdleProc
AppOn(e) == SlotOf[e.key] = "apps"
UserOn(e) ==
    \/ e.key \in Package
    \/ SlotOf[e.key] = "members" /\ ~UsersSaving
    \/ PageOf(SlotOf[e.key]) = "users" /\ ~loading["users"]

(* What the pages let the user do: a listing that failed leaves nothing to  *)
(* act on but the packages that were searched for.                          *)
Enabled(e) ==
    /\ shown[e.key] = Blank => e.key \in Package
    /\ PageOn(e) \/ SettingOn(e) \/ AppOn(e) \/ UserOn(e)
    /\ user.waits => QuietPage(PageOf(SlotOf[e.key]))

(* A control is used: setFontSize, setFont, setCursorTheme, setAppEnabled,  *)
(* setUserGroup, setUserFullName, setUserSecret, setUserPackage,            *)
(* setUserPassword, addUser, removeUser, setSetting, setDefaultApp.         *)
Act(e) ==
    LET s == SlotOf[e.key] IN
    /\ Enabled(e)
    /\ e.value # shown[e.key]
    /\ shown' = IF s \in Optimistic THEN [shown EXCEPT ![e.key] = e.value] ELSE shown
    /\ wanted' = [wanted EXCEPT ![e.key] = e.value]
    /\ IF s = "theme"
       THEN timer' = e /\ UNCHANGED proc
       ELSE Run(s, e) /\ UNCHANGED timer
    /\ UNCHANGED <<stored, reading, loading, user>>

(* Mutant: the timer triggers and nothing is written.                       *)
FireAndForget ==
    /\ timer # NoEdit
    /\ timer' = NoEdit
    /\ UNCHANGED <<shown, stored, proc, reading, loading, wanted, user>>

(* themeWriteDebounce triggers, 400 ms after the last theme change.         *)
Fire ==
    /\ timer # NoEdit
    /\ Run("theme", timer)
    /\ timer' = NoEdit
    /\ UNCHANGED <<shown, stored, reading, loading, wanted, user>>

(* vayume-config accepts the edit, or fails and leaves the value it had.    *)
Accept(s) ==
    /\ proc[s].step = "running"
    /\ stored' = [stored EXCEPT ![proc[s].edit.key] = proc[s].edit.value]
    /\ proc' = [proc EXCEPT ![s].step = "ok"]
    /\ UNCHANGED <<shown, timer, reading, loading, wanted, user>>

Reject(s) ==
    /\ proc[s].step = "running"
    /\ proc' = [proc EXCEPT ![s].step = "failed"]
    /\ wanted' = [wanted EXCEPT ![proc[s].edit.key] = stored[proc[s].edit.key]]
    /\ UNCHANGED <<shown, stored, timer, reading, loading, user>>

(* Which pages a Process's onExited reads back.                             *)
ReadBack(s, ok) ==
    CASE s \in {"theme", "users"}       -> IF ok THEN {} ELSE {s}
      [] s = "apps"                     -> IF ok THEN {"defaults"} ELSE {"apps", "defaults"}
      [] s \in {"password", "members"}  -> {"users"}
      [] s \in {"settings", "defaults"} -> {s}

(* Mutant: the reading after success and not after failure.                 *)
ExitedSwapped(s) ==
    /\ proc[s].step \in {"ok", "failed"}
    /\ proc' = [proc EXCEPT ![s] = Ended(s)]
    /\ Refetch(ReadBack(s, proc[s].step = "failed"))
    /\ UNCHANGED <<shown, stored, timer, wanted, user>>

(* onExited of the write Processes.                                         *)
Exited(s) ==
    /\ proc[s].step \in {"ok", "failed"}
    /\ proc' = [proc EXCEPT ![s] = Ended(s)]
    /\ Refetch(ReadBack(s, proc[s].step = "ok"))
    /\ UNCHANGED <<shown, stored, timer, wanted, user>>

(* vayume-config lists the values as they are.                              *)
ListRead(g) ==
    /\ reading[g].step = "started"
    /\ reading' = [reading EXCEPT ![g].step = "read",
                                  ![g].got = [k \in KeysOf(g) |-> stored[k]]]
    /\ UNCHANGED <<shown, stored, timer, proc, loading, wanted, user>>

(* Mutant: the page that was read stays marked as loading.                  *)
ShowReadOnly(g) ==
    /\ reading[g].step = "read"
    /\ shown' = [k \in Key |-> IF k \in KeysOf(g) THEN reading[g].got[k] ELSE shown[k]]
    /\ reading' = [reading EXCEPT ![g] = ReadEnded(g)]
    /\ UNCHANGED <<stored, timer, proc, loading, wanted, user>>

(* Mutant: what a page read replaces what every page shows.                 *)
ShowOnlyRead(g) ==
    /\ reading[g].step = "read"
    /\ shown' = reading[g].got
    /\ reading' = [reading EXCEPT ![g] = ReadEnded(g)]
    /\ loading' = [loading EXCEPT ![g] = FALSE]
    /\ UNCHANGED <<stored, timer, proc, wanted, user>>

(* onStreamFinished: the page shows what was read.                          *)
ShowRead(g) ==
    /\ reading[g].step = "read"
    /\ shown' = [k \in Key |-> IF k \in KeysOf(g) THEN reading[g].got[k] ELSE shown[k]]
    /\ reading' = [reading EXCEPT ![g] = ReadEnded(g)]
    /\ loading' = [loading EXCEPT ![g] = FALSE]
    /\ UNCHANGED <<stored, timer, proc, wanted, user>>

(* The listing failed: JSON.parse throws, themeGetProc keeps what it had    *)
(* and the others show nothing.                                             *)
ShowFailure(g) ==
    /\ user.fails
    /\ reading[g].step # "idle"
    /\ shown' = [k \in Key |-> IF k \in KeysOf(g) /\ g # "theme" THEN Blank ELSE shown[k]]
    /\ reading' = [reading EXCEPT ![g] = ReadEnded(g)]
    /\ loading' = [loading EXCEPT ![g] = FALSE]
    /\ UNCHANGED <<stored, timer, proc, wanted, user>>

(* refreshAll (Ctrl+R, the reload button), a page opened, a rebuild ending. *)
Refresh(g) ==
    /\ user.waits => QuietPage(g)
    /\ Refetch({g})
    /\ UNCHANGED <<shown, stored, timer, proc, wanted, user>>

Internal ==
    \/ Fire
    \/ \E s \in Slots : Accept(s) \/ Reject(s) \/ Exited(s)
    \/ \E g \in Pages : ListRead(g) \/ ShowRead(g) \/ ShowFailure(g)

Next ==
    \/ \E e \in Edit : e.key \in user.keys /\ Act(e)
    \/ \E g \in {PageOf(SlotOf[k]) : k \in user.keys} : Refresh(g)
    \/ Internal

Spec == Init /\ [][Next]_vars

(* The timer triggers, commands end and their exits are handled.            *)
Fairness ==
    /\ WF_vars(Fire)
    /\ \A s \in Slots : WF_vars(Accept(s) \/ Reject(s)) /\ WF_vars(Exited(s))
    /\ \A g \in Pages : WF_vars(ListRead(g)) /\ WF_vars(ShowRead(g) \/ ShowFailure(g))

FairSpec == Spec /\ Fairness

-----------------------------------------------------------------------------
(* A page at rest shows what is stored, or nothing after a failed listing:  *)
(* "the optimistic value shown is already correct" (themeSetProc, setAppProc*)
(* and usersSetProc read back only after a failure).                        *)
ShownIsStored ==
    \A k \in Key : QuietPage(PageOf(SlotOf[k])) => shown[k] \in {stored[k], Blank}

NotLost(s) ==
    \A k \in Key : SlotOf[k] = s /\ QuietPage(PageOf(s)) => stored[k] = wanted[k]

(* A page at rest has stored the last value asked of each control, unless   *)
(* the user was told it failed: clicks may be merged, never lost            *)
(* (queueThemeWrite, the one Process per slot).  Of a user who does not     *)
(* wait this is so for the settings, because OptionRow is off while         *)
(* settingsSetProc runs.                                                    *)
NothingLost == \A s \in Slots : NotLost(s)

(* Controls that are off while their page is read come back on.             *)
LoadingEnds == \A g \in Pages : loading[g] ~> ~loading[g]
=============================================================================

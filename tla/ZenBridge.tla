----------------------------- MODULE ZenBridge -----------------------------
(***************************************************************************)
(* The scripts that bring matugen's palette into Zen: matugen-bridge.uc.js *)
(* ("bridge") and matugen-boosts.uc.js ("boosts").  They declare the same  *)
(* names, so a window runs at most one of them, whichever the loader comes *)
(* to first.  Each window has its own copy with its own timers and         *)
(* variables; the prefs, the actors, the boosts and the files are shared.  *)
(* Every handler runs to its end before another one starts, except that    *)
(* init waits for the boosts manager in between.                           *)
(***************************************************************************)
EXTENDS ZenPages, ScriptLoader

\* Windows are numbered in the order they are opened in.
ASSUME WindowAssumption == Window \subseteq Nat

Theme == {"bridge", "boosts"}

ASSUME ThemeAssumption == Theme \in Clash

VARIABLES
    bridge,         \* the script's variables in each window
    actor,          \* the actor is registered in the browser
    chrome          \* the colours on each window's root element

Entry == [css: Nat \union {Half}, time: Nat]
NoEntry == [css |-> 0, time |-> 0]

Bridge == [kind: {"none", "bridge", "boosts"},
           step: {"waiting", "running", "stopped"},
           ready: BOOLEAN,              \* actorReady
           manager: BOOLEAN,            \* boostsManager is there
           jsonTime: Nat,               \* lastMtime, lastJsonMtime
           json: Nat,                   \* history: the palette read then, 0 for null
           on: BOOLEAN,                 \* customWebThemeEnabled
           webTime: Nat,                \* lastWebThemeStateMtime
           cache: [StyleFile -> Entry], \* userstyles
           known: SUBSET Host,          \* universalBoostedDomains
           ours: SUBSET Host,           \* history: those it boosted itself
           accent: Nat]                 \* lastSyncedAccent, 0 for null

NoScript == [kind |-> "none", step |-> "stopped", ready |-> FALSE, manager |-> FALSE,
             jsonTime |-> 0, json |-> 0, on |-> TRUE, webTime |-> 0,
             cache |-> [f \in StyleFile |-> NoEntry], known |-> {}, ours |-> {},
             accent |-> 0]

BridgeTypeOK ==
    /\ bridge \in [Window -> Bridge]
    /\ actor \in BOOLEAN
    /\ chrome \in [Window -> Colours]

BridgeInit ==
    /\ bridge = [w \in Window |-> NoScript]
    /\ actor = FALSE
    /\ chrome = [w \in Window |-> Unset]

BridgeRestart ==
    /\ bridge' = [w \in Window |-> NoScript]
    /\ actor' = FALSE
    /\ chrome' = [w \in Window |-> Unset]

Running(w) == bridge[w].step = "running"

-----------------------------------------------------------------------------

(***************************************************************************)
(* applyJson writes the prefs one after the other.  The pref service tells *)
(* every window's observer of each one that changed; the writing window    *)
(* ignores it, and the one that registered the actor broadcasts all values *)
(* as they are at that moment.  It also tells the content processes.       *)
(***************************************************************************)
Changed(v) == Picked(KeyOrder, {k \in Key : pref[k] # v})

(* Mutant: the observers are told before the pref is written.               *)
PrefixedEarly(v, i) ==
    [k \in Key |-> IF k \in {Changed(v)[j] : j \in 1 .. (i - 1)} THEN v ELSE pref[k]]

Prefixed(v, i) ==
    [k \in Key |-> IF k \in {Changed(v)[j] : j \in 1 .. i} THEN v ELSE pref[k]]

VarsCast(values) ==
    [p \in Page |-> <<[kind |-> "vars", page |-> p, vars |-> values]>>]

ObserverCasts(w, v) ==
    IF v # 0 /\ \E u \in Window \ {w} : bridge[u].ready
    THEN [i \in DOMAIN Changed(v) |-> VarsCast(Prefixed(v, i))]
    ELSE <<>>

(* Mutant: a window paints itself only when a pref really changed.          *)
PaintsOnChange(w, v) == {u \in Window : (u = w \/ Running(u)) /\ Changed(v) # <<>>}

\* applyChromeVars: who puts the prefs on the root element.
Paints(w, v) == {u \in Window : u = w \/ (Running(u) /\ Changed(v) # <<>>)}

Passing(v) == [i \in DOMAIN Changed(v) |-> Prefixed(v, i)]

WritePrefs(w, v) ==
    IF v = 0 THEN UNCHANGED <<pref, trail, chrome>>
    ELSE /\ pref' = [k \in Key |-> v]
         /\ trail' = [q \in Process |-> trail[q] \o Passing(v)]
         /\ chrome' = [u \in Window |-> IF u \in Paints(w, v) THEN pref' ELSE chrome[u]]

(***************************************************************************)
(* broadcastUserstyles: what the cache has for each page, unless that is   *)
(* nothing.                                                                *)
(***************************************************************************)
StylesCast(cache, on) ==
    [p \in Page |->
       LET host == IF on THEN page[p].host ELSE None
           css == StylesFor(host, cache["global"].css, cache["github"].css)
       IN  IF css = NoCss THEN <<>>
           ELSE <<[kind |-> "styles", page |-> p, css |-> css]>>]

StylesCasts(b, due, cache, on) ==
    IF b.ready /\ due THEN <<StylesCast(cache, on)>> ELSE <<>>

\* The text as it was read and the time as it is asked for then.
Loaded(f) == [css |-> file[f].text, time |-> file'[f].time]

LoadAll == [f \in StyleFile |-> IF file[f].there THEN Loaded(f) ELSE NoEntry]

(***************************************************************************)
(* The part of the state the boosts' operators work on, and putting it     *)
(* back.                                                                   *)
(***************************************************************************)
Themes(b) == [boost |-> boost, gradient |-> gradient,
              known |-> b.known, ours |-> b.ours, accent |-> b.accent, manager |-> b.manager]

Commit(w, b, result) == \E s \in {result} :
    /\ bridge' = [bridge EXCEPT ![w] = [b EXCEPT !.known = s.known, !.ours = s.ours,
                                            !.accent = s.accent]]
    /\ boost' = s.boost
    /\ gradient' = s.gradient

-----------------------------------------------------------------------------

(***************************************************************************)
(* A new window: the loader injects its scripts, and the init of the one   *)
(* it came to first runs until it waits for the boosts manager.            *)
(***************************************************************************)
There(files) == {f \in files : file[f].there}

Open(w) ==
    /\ \A earlier \in Window : earlier < w => earlier \in opened
    /\ OnDOMContent(w)
    /\ Overtakes(IF "bridge" \in Injected.ran THEN There({"web"}) ELSE {}, {"open"})
    /\ bridge' = [bridge EXCEPT ![w] =
         IF "bridge" \in Injected.ran
         THEN [@ EXCEPT !.kind = "bridge", !.step = "waiting",
                        !.on = WebOn, !.webTime = WebTime']
         ELSE IF "boosts" \in Injected.ran
         THEN [@ EXCEPT !.kind = "boosts", !.step = "waiting"]
         ELSE @]
    /\ UNCHANGED <<actor, boost, gradient, pref, trail, page, child, inbox, chrome>>

(***************************************************************************)
(* The rest of the bridge's init.  Only the first window of the session    *)
(* can register the actor; the observers come before the palette, the      *)
(* first load of the styles tells nobody, and the first universal round,   *)
(* which reads the palette again, ends it.                                 *)
(***************************************************************************)
InitBridge(w, manager) ==
    LET v == ReadJson
        b == [bridge[w] EXCEPT
                !.step = "running",
                !.ready = ~actor,
                !.manager = manager,
                !.jsonTime = IF v = 0 THEN 0 ELSE file'["palette"].time,
                !.json = v,
                !.cache = LoadAll]
    IN  /\ actor' = TRUE
        /\ UNCHANGED <<page, child>>
        /\ WritePrefs(w, v)
        /\ inbox' = Sent(ObserverCasts(w, v))
        /\ Commit(w, b, SyncUniversal(SyncTheme(Themes(b), v, FALSE), ShownHosts, ReadJson'))

(***************************************************************************)
(* One round of the bridge's timer: the switch, the palette, the styles.   *)
(* A time is recorded before the palette is read, so half a file is looked *)
(* at again when its writer is done.                                       *)
(***************************************************************************)
Stale(b) == {f \in StyleFile : file[f].there /\ file[f].time # b.cache[f].time}

Poll(w) ==
    LET b == bridge[w]
        on == IF WebTime # b.webTime THEN WebOn ELSE b.on
        json == file["palette"]
        due == json.there /\ json.time # b.jsonTime
        v == IF due THEN ReadJson ELSE 0
        cache == [f \in StyleFile |-> IF f \in Stale(b) THEN Loaded(f) ELSE b.cache[f]]
        after == [b EXCEPT !.on = on, !.webTime = WebTime, !.cache = cache,
                           !.jsonTime = IF due THEN json.time ELSE @,
                           !.json = IF due THEN v ELSE @]
    IN  /\ UNCHANGED <<actor, page, child>>
        /\ WritePrefs(w, v)
        /\ Commit(w, after, SyncTheme(Themes(b), v, FALSE))
        /\ inbox' = Sent(StylesCasts(b, on # b.on, b.cache, on)
                         \o ObserverCasts(w, v)
                         \o StylesCasts(b, Stale(b) # {}, cache, on))

PollStep(w) ==
    /\ bridge[w].kind = "bridge"
    /\ Running(w)
    /\ Overtakes(Stale(bridge[w]), {})
    /\ Poll(w)

(***************************************************************************)
(* One round of the slower timer.                                          *)
(***************************************************************************)
UniversalRound(w) ==
    /\ bridge[w].kind = "bridge"
    /\ Running(w)
    /\ UNCHANGED <<file, left, actor, pref, trail, page, child, inbox, chrome>>
    /\ Commit(w, bridge[w], SyncUniversal(Themes(bridge[w]), ShownHosts, ReadJson))

(***************************************************************************)
(* matugen-boosts.uc.js: without a boosts manager it stops; with one it    *)
(* polls the palette only.                                                 *)
(***************************************************************************)
InitBoosts(w, manager) ==
    LET v == ReadJson
    IN  /\ IF manager
           THEN /\ bridge' = [bridge EXCEPT
                     ![w].step = "running", ![w].manager = TRUE,
                     ![w].jsonTime = IF v = 0 THEN 0 ELSE file'["palette"].time,
                     ![w].json = v]
                /\ WritePrefs(w, v)
           ELSE /\ bridge' = [bridge EXCEPT ![w].step = "stopped"]
                /\ UNCHANGED <<pref, trail, chrome>>
        /\ UNCHANGED <<actor, boost, gradient, page, child, inbox>>

PollBoosts(w) ==
    LET json == file["palette"]
    IN  /\ bridge[w].kind = "boosts"
        /\ Running(w)
        /\ json.there
        /\ json.time # bridge[w].jsonTime
        /\ bridge' = [bridge EXCEPT ![w].jsonTime = json.time, ![w].json = ReadJson]
        /\ WritePrefs(w, ReadJson)
        /\ UNCHANGED <<file, left, actor, boost, gradient, page, child, inbox>>

(***************************************************************************)
(* Importing the boosts manager may fail.  What is read next: a palette's  *)
(* time only if it parsed.                                                 *)
(***************************************************************************)
Parsed == IF ReadJson = 0 THEN {} ELSE {"palette"}

Imports(w) ==
    /\ bridge[w].step = "waiting"
    /\ \E manager \in BOOLEAN :
         LET events == IF manager THEN {} ELSE {"lack"} IN
         \/ /\ bridge[w].kind = "bridge"
            /\ Overtakes(Parsed \union There(StyleFile), events)
            /\ InitBridge(w, manager)
         \/ /\ bridge[w].kind = "boosts"
            /\ Overtakes(IF manager THEN Parsed ELSE {}, events)
            /\ InitBoosts(w, manager)

(***************************************************************************)
(* A window is closed, with some of the tabs, while another one stays      *)
(* open: its timers and its observers go, the actor stays registered.      *)
(***************************************************************************)
Close(w) ==
    /\ opened \ {w} # {}
    /\ Spend({"close"})
    /\ Unload(w)
    /\ bridge' = [bridge EXCEPT ![w] = NoScript]
    /\ chrome' = [chrome EXCEPT ![w] = Unset]
    /\ \E gone \in SUBSET Shown : Leave(gone)
    /\ UNCHANGED <<file, actor, boost, gradient>>
=============================================================================

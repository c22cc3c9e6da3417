-------------------------- MODULE ZenSystem_proofs --------------------------
(***************************************************************************)
(* Theorems about the themed browser, for any domains, pages, windows,     *)
(* scripts and scenarios: what no interleaving of windows, restarts, the   *)
(* user and the writers of the files does to Zen's store of boosts, what   *)
(* the loader starts and how often, and what a page is told of the         *)
(* colours.                                                                *)
(***************************************************************************)
EXTENDS ZenSystem, SequenceFacts, FiniteSetTheorems, TLAPS

(* A store of boosts in which no domain has a second one.                   *)
Store == {b \in [Host -> Boost] : \A h \in Host : b[h].made <= 1}

(***************************************************************************)
(* What the steps of one handler keep: the CSS of an active boost, which   *)
(* stays active.                                                           *)
(***************************************************************************)
Kept(b, c) == \A h \in Host :
    b[h].active => c[h].active /\ c[h].css = b[h].css

LEMMA KeptSelf == ASSUME NEW b PROVE Kept(b, b)
BY DEF Kept

LEMMA KeptTwice ==
    ASSUME NEW b, NEW c, NEW d, Kept(b, c), Kept(c, d)
    PROVE  Kept(b, d)
BY DEF Kept

(* Taking the user's or the script's boost and giving it a hue.             *)
LEMMA TintedType ==
    ASSUME NEW b \in Boost, NEW v \in Nat
    PROVE  /\ Tinted(b, v) \in Boost
           /\ Tinted(b, v).made = b.made
           /\ Tinted(b, v).active = b.active
           /\ Tinted(b, v).css = b.css
BY DEF Tinted, Boost

LEMMA ActiveType ==
    ASSUME NEW b \in Boost, b.made <= 1
    PROVE  /\ ActiveBoost(b) \in Boost
           /\ ActiveBoost(b).made <= 1
<1> DEFINE c == [made |-> 1, active |-> TRUE, css |-> "none", tint |-> DefaultTint]
<1>1. CASE b.active
    BY <1>1 DEF ActiveBoost
<1>2. CASE ~b.active /\ b.made > 0
    BY <1>2 DEF ActiveBoost, Boost
<1>3. CASE ~b.active /\ ~(b.made > 0)
    <2>1. ActiveBoost(b) = c
        BY <1>3 DEF ActiveBoost, NoBoost
    <2>2. c \in Boost
        BY DEF Boost, DefaultTint
    <2>3. QED
        BY <2>1, <2>2
<1>4. QED
    BY <1>1, <1>2, <1>3

LEMMA UniversalType ==
    ASSUME NEW b \in Boost, b.made <= 1
    PROVE  /\ Universal(b) \in Boost
           /\ Universal(b).made <= 1
<1>1. ActiveBoost(b) \in Boost /\ ActiveBoost(b).made <= 1
    BY ActiveType
<1>2. Tinted(ActiveBoost(b), DefaultTint) \in Boost
      /\ Tinted(ActiveBoost(b), DefaultTint).made <= 1
    BY <1>1, TintedType DEF DefaultTint
<1>3. QED
    BY <1>2 DEF Universal, Boost

(***************************************************************************)
(* What a handler makes of the boosts it found, B: t is a state of the     *)
(* boosts in which no domain has a second one and nobody lost their CSS.   *)
(***************************************************************************)
State(C, g, k, o, a, m) ==
    [boost |-> C, gradient |-> g, known |-> k, ours |-> o, accent |-> a, manager |-> m]

Follows(B, t) == \E C, g, k, o, a, m :
    C \in Store /\ t = State(C, g, k, o, a, m) /\ Kept(B, C)

LEMMA StateFields ==
    ASSUME NEW C, NEW g, NEW k, NEW o, NEW a, NEW m
    PROVE  /\ State(C, g, k, o, a, m).boost = C
           /\ State(C, g, k, o, a, m).known = k
BY DEF State

LEMMA FollowsIntro ==
    ASSUME NEW B, NEW C \in Store, NEW g, NEW k, NEW o, NEW a, NEW m, NEW t,
           t = State(C, g, k, o, a, m), Kept(B, C)
    PROVE  Follows(B, t)
BY DEF Follows

LEMMA SyncThemeKeeps ==
    ASSUME NEW B, NEW s, Follows(B, s), NEW v \in Nat, NEW force
    PROVE  Follows(B, SyncTheme(s, v, force))
<1>1. PICK C, g, k, o, a, m : C \in Store /\ s = State(C, g, k, o, a, m) /\ Kept(B, C)
    BY DEF Follows
<1> DEFINE tinted == {h \in k : C[h].active}
           D == [h \in Host |-> IF h \in tinted THEN Tinted(C[h], v) ELSE C[h]]
           E == IF m THEN D ELSE C
           e == IF m /\ (Workspaces \/ tinted # {}) THEN v ELSE a
<1>2. D \in Store /\ Kept(C, D)
    <2>1. \A h \in Host : C[h] \in Boost /\ C[h].made <= 1
        BY <1>1 DEF Store
    <2>2. \A h \in Host : /\ D[h] \in Boost /\ D[h].made = C[h].made
                          /\ D[h].active = C[h].active /\ D[h].css = C[h].css
        BY <2>1, TintedType
    <2>3. QED
        BY <2>1, <2>2 DEF Store, Kept
<1>3. E \in Store /\ Kept(B, E)
    BY <1>1, <1>2, KeptTwice
<1>4. CASE v = 0 \/ (~force /\ v = a)
    <2>1. SyncTheme(s, v, force) = s
        BY <1>1, <1>4 DEF SyncTheme, State
    <2>2. QED
        BY <2>1
<1>5. CASE ~(v = 0 \/ (~force /\ v = a))
    <2>1. SyncTheme(s, v, force) = State(E, IF Workspaces THEN v ELSE g, k, o, e, m)
        BY <1>1, <1>5 DEF SyncTheme, State
    <2> HIDE DEF E, e
    <2>2. QED
        BY <2>1, <1>3, FollowsIntro
<1>6. QED
    BY <1>4, <1>5

LEMMA BoostOpenKeeps ==
    ASSUME NEW B, NEW s, Follows(B, s), NEW open
    PROVE  Follows(B, BoostOpen(s, open))
<1>1. PICK C, g, k, o, a, m : C \in Store /\ s = State(C, g, k, o, a, m) /\ Kept(B, C)
    BY DEF Follows
<1> DEFINE bare == Unboosted(s, open)
           D == [h \in Host |-> IF h \in bare THEN Universal(C[h]) ELSE C[h]]
<1>2. BoostOpen(s, open) = State(D, g, k \union open, o \union bare, a, m)
    <2>1. s.boost = C /\ s.known = k
        BY <1>1, StateFields
    <2>2. BoostOpen(s, open) = [s EXCEPT !.known = k \union open, !.ours = o \union bare,
                                         !.boost = D]
        BY <1>1, <2>1 DEF BoostOpen, State
    <2> HIDE DEF D, bare
    <2>3. QED
        BY <1>1, <2>2 DEF State
<1>3. \A h \in Host : C[h] \in Boost /\ C[h].made <= 1
    BY <1>1 DEF Store
<1>4. \A h \in Host : D[h] \in Boost /\ D[h].made <= 1
    BY <1>3, UniversalType
<1>5. \A h \in Host : C[h].active => D[h] = C[h]
    BY <1>1, StateFields DEF Unboosted, Registered
<1>6. D \in Store
    BY <1>4 DEF Store
<1>7. Kept(B, D)
    BY <1>1, <1>5, KeptTwice DEF Kept
<1> HIDE DEF D
<1>8. QED
    BY <1>2, <1>6, <1>7, FollowsIntro

LEMMA SyncUniversalKeeps ==
    ASSUME NEW B, NEW s, Follows(B, s), NEW open, NEW v \in Nat
    PROVE  Follows(B, SyncUniversal(s, open, v))
<1> DEFINE u == BoostOpen(s, open)
           forced == Unboosted(s, open) # {} \/ s.accent = 0
<1>1. Follows(B, u)
    BY BoostOpenKeeps
<1>2. Follows(B, SyncTheme(u, v, forced))
    BY <1>1, SyncThemeKeeps
<1>3. \/ SyncUniversal(s, open, v) = s
      \/ SyncUniversal(s, open, v) = u
      \/ SyncUniversal(s, open, v) = SyncTheme(u, v, forced)
    BY DEF SyncUniversal
<1>4. QED
    BY <1>1, <1>2, <1>3

-----------------------------------------------------------------------------

(***************************************************************************)
(* The inductive invariant: a palette that is read is a number, so every   *)
(* hue is one, and every domain has one boost at most.                     *)
(***************************************************************************)
FilesOK == file \in [Watched -> File]
Inv == FilesOK /\ boost \in Store

LEMMA Palette == ASSUME FilesOK PROVE ReadJson \in Nat
<1>1. file["palette"] \in File
    BY DEF FilesOK, Watched
<1>2. QED
    BY <1>1 DEF ReadJson, File

LEMMA WriteType ==
    ASSUME FilesOK, NEW f \in Watched
    PROVE  /\ Begun(f) \in File
           /\ \A time \in Nat : Written(f, time) \subseteq File
           /\ Later(f) \subseteq File
<1>1. file[f] \in File
    BY DEF FilesOK
<1>2. file[f].time + 1 \in Nat /\ file[f].time + 2 \in Nat
    BY <1>1 DEF File
<1>3. Begun(f) \in File
    BY <1>2 DEF Begun, File
<1>4. ASSUME NEW time \in Nat PROVE Written(f, time) \subseteq File
    <2>1. Texts(f, time) \subseteq Nat
        BY DEF Texts, On, Off
    <2>2. SUFFICES ASSUME NEW done \in Written(f, time) PROVE done \in File
        OBVIOUS
    <2>3. PICK text \in Texts(f, time) : done = [there |-> TRUE, text |-> text, time |-> time]
        BY DEF Written
    <2>4. text \in Nat
        BY <2>1
    <2>5. QED
        BY <2>3, <2>4 DEF File
<1>5. Later(f) \subseteq File
    BY <1>2, <1>3, <1>4 DEF Later
<1>6. QED
    BY <1>3, <1>4, <1>5

LEMMA OvertakesKeeps ==
    ASSUME FilesOK, NEW read \in SUBSET Watched, NEW events, Overtakes(read, events)
    PROVE  FilesOK'
<1>1. CASE UNCHANGED file
    BY <1>1 DEF FilesOK
<1>2. ASSUME NEW f \in read, NEW later \in Later(f), file' = [file EXCEPT ![f] = later]
      PROVE  FilesOK'
    <2>1. later \in File
        BY <1>2, WriteType
    <2>2. QED
        BY <1>2, <2>1 DEF FilesOK
<1>3. QED
    BY <1>1, <1>2 DEF Overtakes

(* What the writers and the user do to a file.                              *)
LEMMA WritersKeep ==
    ASSUME FilesOK, NEW f \in Watched, StartWrite(f) \/ EndWrite(f) \/ Disable(f)
    PROVE  FilesOK'
<1>1. file[f] \in File /\ file[f].time + 1 \in Nat
    BY DEF FilesOK, File
<1>2. CASE StartWrite(f)
    BY <1>2, WriteType DEF StartWrite, FilesOK
<1>3. CASE EndWrite(f)
    <2>1. PICK done \in Written(f, file[f].time + 1) : file' = [file EXCEPT ![f] = done]
        BY <1>3 DEF EndWrite
    <2>2. done \in File
        BY <1>1, <2>1, WriteType
    <2>3. QED
        BY <2>1, <2>2 DEF FilesOK
<1>4. CASE Disable(f)
    <2>1. [file[f] EXCEPT !.there = FALSE, !.text = 0] \in File
        BY <1>1 DEF File
    <2>2. file' = [file EXCEPT ![f] = [file[f] EXCEPT !.there = FALSE, !.text = 0]]
        BY <1>4 DEF Disable
    <2>3. QED
        BY <2>1, <2>2 DEF FilesOK
<1>5. QED
    BY <1>2, <1>3, <1>4

(* The user's own edits.                                                    *)
LEMMA UserKeeps ==
    ASSUME boost \in Store, NEW h \in Host, UserBoosts(h) \/ UserTurnsOff(h)
    PROVE  boost' \in Store /\ CssKeeps
<1>1. \A i \in Host : boost[i] \in Boost /\ boost[i].made <= 1
    BY DEF Store
<1>2. CASE UserBoosts(h)
    <2> DEFINE mine == [made |-> 1, active |-> TRUE, css |-> Own, tint |-> Own]
    <2>1. mine \in Boost /\ mine.made = 1 /\ mine.css = Own
        BY DEF Boost
    <2>2. boost' = [boost EXCEPT ![h] = mine]
        BY <1>2 DEF UserBoosts
    <2> HIDE DEF mine
    <2>3. QED
        BY <1>1, <2>1, <2>2 DEF Store, CssKeeps
<1>3. CASE UserTurnsOff(h)
    <2> DEFINE asleep == [boost[h] EXCEPT !.active = FALSE]
    <2>1. asleep \in Boost /\ asleep.made <= 1 /\ asleep.css = boost[h].css
        BY <1>1 DEF Boost
    <2>2. boost' = [boost EXCEPT ![h] = asleep]
        BY <1>3 DEF UserTurnsOff
    <2> HIDE DEF asleep
    <2>3. QED
        BY <1>1, <2>1, <2>2 DEF Store, CssKeeps
<1>4. QED
    BY <1>2, <1>3

(* A handler that keeps the active boosts' CSS.                             *)
LEMMA KeptCss ==
    ASSUME Kept(boost, boost')
    PROVE  CssKeeps
BY DEF Kept, CssKeeps

(* Every handler begins with the boosts as they are, and ends with what it  *)
(* made of them.                                                            *)
LEMMA ThemesFollow ==
    ASSUME boost \in Store, NEW b
    PROVE  Follows(boost, Themes(b))
<1>1. Themes(b) = State(boost, gradient, b.known, b.ours, b.accent, b.manager)
    BY DEF Themes, State
<1>2. QED
    BY <1>1, KeptSelf DEF Follows

LEMMA CommitKeeps ==
    ASSUME NEW w, NEW b, NEW t, Commit(w, b, t), Follows(boost, t)
    PROVE  boost' \in Store /\ CssKeeps
<1>1. PICK C, g, k, o, a, m :
        C \in Store /\ t = State(C, g, k, o, a, m) /\ Kept(boost, C)
    BY DEF Follows
<1>2. boost' = C
    BY <1>1, StateFields DEF Commit
<1>3. QED
    BY <1>1, <1>2, KeptCss

(* A step that does not touch the boosts.                                   *)
LEMMA SameBoosts ==
    ASSUME boost \in Store, boost' = boost
    PROVE  boost' \in Store /\ CssKeeps
BY KeptSelf, KeptCss

-----------------------------------------------------------------------------

(* What a handler reads are files.                                          *)
LEMMA ReadsFiles ==
    ASSUME NEW w \in Window
    PROVE  /\ Stale(bridge[w]) \in SUBSET Watched
           /\ Parsed \union There(StyleFile) \in SUBSET Watched
           /\ There({"web"}) \in SUBSET Watched
           /\ \A manager \in BOOLEAN : (IF manager THEN Parsed ELSE {}) \in SUBSET Watched
BY DEF Stale, Parsed, There, Watched

(* Opening a window, the rest of init, and each of its timers' rounds.      *)
LEMMA OpenKeeps ==
    ASSUME Inv, NEW w \in Window, Open(w)
    PROVE  Inv' /\ CssKeeps
<1>1. boost \in Store /\ FilesOK
    BY DEF Inv
<1>2. PICK read \in SUBSET Watched : Overtakes(read, {"open"})
    BY ReadsFiles DEF Open
<1>3. FilesOK'
    BY <1>1, <1>2, OvertakesKeeps
<1>4. boost' = boost
    BY DEF Open
<1>5. QED
    BY <1>1, <1>3, <1>4, SameBoosts DEF Inv

LEMMA StartKeeps ==
    ASSUME Inv, NEW w \in Window, Start(w)
    PROVE  Inv' /\ CssKeeps
<1>1. boost \in Store /\ FilesOK /\ ReadJson \in Nat
    BY Palette DEF Inv
<1>2. FilesOK'
    <2>1. PICK read, events : read \in SUBSET Watched /\ Overtakes(read, events)
        BY ReadsFiles DEF Start, Imports
    <2>2. QED
        BY <1>1, <2>1, OvertakesKeeps
<1>3. ReadJson' \in Nat
    <2>1. file'["palette"] \in File
        BY <1>2 DEF FilesOK, Watched
    <2>2. QED
        BY <2>1 DEF ReadJson, File
<1>4. ASSUME NEW manager \in BOOLEAN, InitBridge(w, manager)
      PROVE  boost' \in Store /\ CssKeeps
    <2>1. PICK b, open : Commit(w, b, SyncUniversal(SyncTheme(Themes(b), ReadJson, FALSE),
                                                    open, ReadJson'))
        BY <1>4 DEF InitBridge
    <2>2. Follows(boost, SyncUniversal(SyncTheme(Themes(b), ReadJson, FALSE), open, ReadJson'))
        BY <1>1, <1>3, ThemesFollow, SyncThemeKeeps, SyncUniversalKeeps
    <2>3. QED
        BY <2>1, <2>2, CommitKeeps
<1>5. ASSUME NEW manager \in BOOLEAN, InitBoosts(w, manager)
      PROVE  boost' \in Store /\ CssKeeps
    BY <1>1, <1>5, SameBoosts DEF InitBoosts
<1>6. \E manager \in BOOLEAN : InitBridge(w, manager) \/ InitBoosts(w, manager)
    BY DEF Start, Imports
<1>7. QED
    BY <1>2, <1>4, <1>5, <1>6 DEF Inv

LEMMA RoundKeeps ==
    ASSUME Inv, NEW w \in Window, Round(w) \/ SlowRound(w)
    PROVE  Inv' /\ CssKeeps
<1>1. boost \in Store /\ FilesOK /\ ReadJson \in Nat
    BY Palette DEF Inv
<1>2. CASE PollStep(w)
    <2>1. Overtakes(Stale(bridge[w]), {}) /\ Poll(w)
        BY <1>2 DEF PollStep
    <2> DEFINE v == IF file["palette"].there /\ file["palette"].time # bridge[w].jsonTime
                    THEN ReadJson ELSE 0
               t == SyncTheme(Themes(bridge[w]), v, FALSE)
    <2>2. v \in Nat
        BY <1>1
    <2> HIDE DEF v
    <2>3. PICK b : Commit(w, b, t)
        BY <2>1 DEF Poll, v
    <2>4. Follows(boost, t)
        BY <1>1, <2>2, ThemesFollow, SyncThemeKeeps
    <2>5. FilesOK'
        BY <1>1, <2>1, ReadsFiles, OvertakesKeeps
    <2>6. QED
        BY <2>3, <2>4, <2>5, CommitKeeps DEF Inv
<1>3. CASE PollBoosts(w)
    BY <1>1, <1>3, SameBoosts DEF PollBoosts, Inv, FilesOK
<1>4. CASE UniversalRound(w)
    <2>1. PICK open : Commit(w, bridge[w], SyncUniversal(Themes(bridge[w]), open, ReadJson))
        BY <1>4 DEF UniversalRound
    <2>2. Follows(boost, SyncUniversal(Themes(bridge[w]), open, ReadJson))
        BY <1>1, ThemesFollow, SyncUniversalKeeps
    <2>3. QED
        BY <1>1, <1>4, <2>1, <2>2, CommitKeeps DEF UniversalRound, Inv, FilesOK
<1>5. QED
    BY <1>2, <1>3, <1>4 DEF Round, SlowRound

(* Every step of the browser, of the user and of the writers.               *)
LEMMA StepKeeps ==
    ASSUME Inv, Next
    PROVE  Inv' /\ CssKeeps
<1>1. boost \in Store /\ FilesOK
    BY DEF Inv
<1>2. ASSUME NEW f \in Watched, Finish(f) \/ Writer(f)
      PROVE  Inv' /\ CssKeeps
    <2>1. FilesOK'
        BY <1>1, <1>2, WritersKeep DEF Finish, Writer
    <2>2. boost' = boost
        BY <1>2 DEF Finish, Writer, theme
    <2>3. QED
        BY <1>1, <2>1, <2>2, SameBoosts DEF Inv
<1>3. ASSUME NEW h \in Host, EditBoost(h)
      PROVE  Inv' /\ CssKeeps
    <2>1. boost' \in Store /\ CssKeeps
        BY <1>1, <1>3, UserKeeps DEF EditBoost
    <2>2. QED
        BY <1>1, <1>3, <2>1 DEF EditBoost, Inv, FilesOK
<1>4. ASSUME NEW w \in Window, Open(w) \/ Start(w) \/ Round(w) \/ SlowRound(w)
      PROVE  Inv' /\ CssKeeps
    BY <1>4, OpenKeeps, StartKeeps, RoundKeeps
<1>5. CASE UNCHANGED <<file, boost>>
    BY <1>1, <1>5, SameBoosts DEF Inv, FilesOK
<1>6. Restart => UNCHANGED <<file, boost>>
    BY DEF Restart
<1>7. ASSUME NEW w \in Window, Close(w) \/ StartModules(w) \/ EndImport(w)
      PROVE  UNCHANGED <<file, boost>>
    BY <1>7 DEF Close, StartModules, EndImport, theme
<1>8. ASSUME NEW p \in Page, NEW h \in Host, Visit(p, h)
      PROVE  UNCHANGED <<file, boost>>
    BY <1>8 DEF Visit, Load
<1>9. ASSUME NEW s \in Script, Toggle(s)
      PROVE  UNCHANGED <<file, boost>>
    BY <1>9 DEF Toggle, theme
<1>10. ASSUME NEW p \in Page, Content(Answer(p))
       PROVE  UNCHANGED <<file, boost>>
    BY <1>10 DEF Content, Answer
<1>11. ASSUME NEW q \in Process,
              Content(Deliver(q)) \/ Content(Mutate(q)) \/ Content(Fire(q))
       PROVE  UNCHANGED <<file, boost>>
    BY <1>11 DEF Content, Deliver, Mutate, Fire
<1>12. QED
    BY <1>2, <1>3, <1>4, <1>5, <1>6, <1>7, <1>8, <1>9, <1>10, <1>11 DEF Next

LEMMA InitInv == Init => Inv
<1>1. SUFFICES ASSUME Init PROVE Inv
    OBVIOUS
<1>2. FilesOK
    <2>1. Missing \in File /\ Finished \in File
        BY DEF Missing, Finished, File
    <2>2. PICK written :
            file = [f \in Watched |-> IF f \in written THEN Finished ELSE Missing]
        BY <1>1 DEF Init, FilesInit
    <2>3. QED
        BY <2>1, <2>2 DEF FilesOK
<1>3. boost \in Store
    <2>1. NoBoost \in Boost /\ NoBoost.made = 0
        BY DEF NoBoost, Boost, DefaultTint
    <2>2. boost = [h \in Host |-> NoBoost]
        BY <1>1 DEF Init
    <2>3. QED
        BY <2>1, <2>2 DEF Store
<1>4. QED
    BY <1>2, <1>3 DEF Inv

LEMMA InvAlways == Spec => []Inv
<1>1. Inv /\ [Next]_vars => Inv'
    <2>1. Inv /\ UNCHANGED vars => Inv'
        BY DEF Inv, FilesOK, vars, theme
    <2>2. QED
        BY <2>1, StepKeeps
<1>2. QED
    BY InitInv, <1>1, PTL DEF Spec

(***************************************************************************)
(* However many windows run the bridge, whatever the user makes and turns  *)
(* off, and whenever files are written and the browser restarts, no domain *)
(* gets a second boost.                                                    *)
(***************************************************************************)
THEOREM OneBoostAlways == Spec => []OneBoost
<1>1. Inv => OneBoost
    BY DEF Inv, Store, OneBoost
<1>2. QED
    BY <1>1, InvAlways, PTL

(***************************************************************************)
(* No step of anybody takes the CSS out of a boost that is active.         *)
(***************************************************************************)
THEOREM UserCssAlwaysKept == Spec => UserCssKept
<1>1. Inv /\ [Next]_vars => [CssKeeps]_boost
    <2>1. Inv /\ Next => CssKeeps
        BY StepKeeps
    <2>2. UNCHANGED vars => UNCHANGED boost
        BY DEF vars, theme
    <2>3. QED
        BY <2>1, <2>2
<1>2. QED
    BY <1>1, InvAlways, PTL DEF Spec, UserCssKept

-----------------------------------------------------------------------------
(* The loader of the windows' scripts.                                      *)

(* The scripts that may run once in the browser and are no modules.         *)
Classic == OnlyOnce \ Module

(* What the user turned off is what the list has, once.                     *)
Listed ==
    /\ disabled \in Seq(Script)
    /\ off \subseteq Script
    /\ \A s \in Distinct : s \in off <=> s \in Disabled
    /\ \A s \in Distinct : \A i, j \in 1..Len(disabled) :
         disabled[i] = s /\ disabled[j] = s => i = j

(* Disabled is read off the list place by place.                            *)
LEMMA DisabledIn ==
    ASSUME NEW q \in Seq(Script)
    PROVE  \A s : s \in Range(q) <=> \E i \in 1..Len(q) : q[i] = s
<1>1. DOMAIN q = 1..Len(q)
    BY LenProperties
<1>2. QED
    BY <1>1 DEF Range

LEMMA ToggleListed ==
    ASSUME Listed, LoaderAssumption, NEW s \in Script, ToggleScript(s)
    PROVE  Listed'
<1> DEFINE q == disabled
           r == Toggled(s)
<1>1. /\ disabled' = r /\ q \in Seq(Script) /\ Len(q) \in Nat /\ off' \subseteq Script
    BY LenProperties DEF ToggleScript, Listed
<1>2. \A d : d \in Disabled <=> \E i \in 1..Len(q) : q[i] = d
    BY <1>1, DisabledIn DEF Disabled
<1>3. CASE s \in Disabled
    <2>1. r = RemoveFirst(q, s)
        BY <1>3 DEF Toggled, Found
    <2>2. PICK n \in 1..Len(q) :
            /\ q[n] = s /\ r \in Seq(Script) /\ Len(r) = Len(q) - 1
            /\ \A i \in 1..(Len(q) - 1) : r[i] = IF i < n THEN q[i] ELSE q[i + 1]
        <3> HIDE DEF r, q
        <3>1. \E i \in 1..Len(q) : q[i] = s
            BY <1>2, <1>3
        <3>2. \E n \in 1..Len(q) :
                /\ q[n] = s
                /\ RemoveFirst(q, s) \in Seq(Script)
                /\ Len(RemoveFirst(q, s)) = Len(q) - 1
                /\ \A i \in 1..(Len(q) - 1) :
                     RemoveFirst(q, s)[i] = IF i < n THEN q[i] ELSE q[i + 1]
            BY <1>1, <3>1, RemovedOnce
        <3>3. QED
            BY <2>1, <3>2
    <2> HIDE DEF r, q
    <2>3. /\ r \in Seq(Script) /\ Len(r) = Len(q) - 1
          /\ \A i \in 1..Len(r) : r[i] = IF i < n THEN q[i] ELSE q[i + 1]
        BY <2>2
    <2>4. \A d : d \in Range(r) <=> \E i \in 1..Len(r) : r[i] = d
        BY <2>3, DisabledIn
    <2>5. ASSUME NEW t \in Distinct, t # s PROVE t \in Range(r) <=> t \in Disabled
        <3>1. ASSUME NEW i \in 1..Len(r), r[i] = t PROVE \E j \in 1..Len(q) : q[j] = t
            BY <1>1, <2>3, <3>1
        <3>2. ASSUME NEW j \in 1..Len(q), q[j] = t PROVE \E i \in 1..Len(r) : r[i] = t
            <4>1. CASE j < n
                BY <1>1, <2>3, <3>2, <4>1
            <4>2. CASE n < j
                <5>1. j - 1 \in 1..Len(r) /\ ~(j - 1 < n) /\ (j - 1) + 1 = j
                    BY <1>1, <2>3, <4>2
                <5>2. r[j - 1] = q[j]
                    BY <2>3, <5>1
                <5>3. QED
                    BY <3>2, <5>1, <5>2
            <4>3. j # n
                BY <2>2, <2>5, <3>2
            <4>4. QED
                BY <1>1, <4>1, <4>2, <4>3
        <3>3. QED
            BY <1>2, <2>4, <3>1, <3>2
    <2>6. ASSUME NEW t \in Distinct, NEW i \in 1..Len(r), NEW j \in 1..Len(r), r[i] = t, r[j] = t
          PROVE  i = j
        <3> DEFINE ii == IF i < n THEN i ELSE i + 1
                   jj == IF j < n THEN j ELSE j + 1
        <3>1. ii \in 1..Len(q) /\ jj \in 1..Len(q) /\ q[ii] = t /\ q[jj] = t
            BY <1>1, <2>3, <2>6
        <3>2. ii = jj
            BY <3>1 DEF Listed, q
        <3>3. QED
            BY <1>1, <2>3, <3>2
    <2>7. ASSUME s \in Distinct PROVE s \notin Range(r)
        <3>1. SUFFICES ASSUME NEW i \in 1..Len(r), r[i] = s PROVE FALSE
            BY <2>4
        <3> DEFINE ii == IF i < n THEN i ELSE i + 1
        <3>2. ii \in 1..Len(q) /\ q[ii] = s /\ ii # n
            BY <1>1, <2>3, <3>1
        <3>3. QED
            BY <2>2, <2>7, <3>2 DEF Listed, q
    <2>8. ASSUME NEW t \in Distinct PROVE t \in off' <=> t \in Range(r)
        <3>1. s \in Distinct => s \in off
            BY <1>3 DEF Listed
        <3>2. CASE t = s
            BY <2>7, <2>8, <3>1, <3>2 DEF ToggleScript
        <3>3. CASE t # s
            <4>1. t \in off' <=> t \in off
                BY <3>3 DEF ToggleScript
            <4>2. QED
                BY <2>5, <3>3, <4>1 DEF Listed
        <3>4. QED
            BY <3>2, <3>3
    <2>9. QED
        BY <1>1, <2>3, <2>6, <2>8 DEF Listed, Disabled
<1>4. CASE s \notin Disabled /\ Found(s)
    <2>1. r = q
        <3>1. ~ \E i \in 1..Len(q) : q[i] = s
            BY <1>2, <1>4
        <3>2. QED
            BY <1>4, <3>1 DEF Toggled, RemoveFirst
    <2>2. s \notin Distinct
        BY <1>4, <1>1, ElementOfSeq, <1>2 DEF Found, Distinct
    <2>3. \A t \in Distinct : t \in off' <=> t \in off
        BY <2>2 DEF ToggleScript
    <2>4. QED
        BY <1>1, <2>1, <2>3 DEF Listed, Disabled
<1>5. CASE s \notin Disabled /\ ~Found(s)
    <2>1. r = <<s>> \o q
        BY <1>5 DEF Toggled
    <2>2. <<s>> \in Seq(Script) /\ Len(<<s>>) = 1 /\ <<s>>[1] = s
        OBVIOUS
    <2> DEFINE o == <<s>>
    <2> HIDE DEF o
    <2>3. /\ r \in Seq(Script) /\ Len(r) = 1 + Len(q)
          /\ \A i \in 1..(1 + Len(q)) : r[i] = IF i <= 1 THEN o[i] ELSE q[i - 1]
        <3>1. /\ o \o q \in Seq(Script) /\ Len(o \o q) = Len(o) + Len(q)
              /\ \A i \in 1..(Len(o) + Len(q)) :
                   (o \o q)[i] = IF i <= Len(o) THEN o[i] ELSE q[i - Len(o)]
            BY <1>1, <2>2, ConcatProperties DEF o
        <3>2. QED
            BY <2>1, <2>2, <3>1 DEF o
    <2>4. o[1] = s
        BY DEF o
    <2> HIDE DEF r, q
    <2>5. \A d : d \in Range(r) <=> \E i \in 1..Len(r) : r[i] = d
        BY <2>3, DisabledIn
    <2>6. \A i \in 1..Len(r) : IF i = 1 THEN r[i] = s ELSE i - 1 \in 1..Len(q) /\ r[i] = q[i - 1]
        BY <1>1, <2>3, <2>4
    <2>7. ASSUME NEW t, t # s PROVE t \in Range(r) <=> t \in Disabled
        <3>1. ASSUME NEW j \in 1..Len(q), q[j] = t PROVE \E i \in 1..Len(r) : r[i] = t
            <4>1. j + 1 \in 1..Len(r) /\ j + 1 # 1 /\ (j + 1) - 1 = j
                BY <1>1, <2>3
            <4>2. QED
                BY <2>6, <3>1, <4>1
        <3>2. QED
            BY <1>2, <2>5, <2>6, <2>7, <3>1
    <2>8. s \in Range(r)
        BY <1>1, <2>3, <2>5, <2>6
    <2>9. ASSUME NEW t \in Distinct, NEW i \in 1..Len(r), NEW j \in 1..Len(r), r[i] = t, r[j] = t
          PROVE  i = j
        <3>1. CASE t = s
            <4>1. \A k \in 1..Len(q) : q[k] # s
                BY <1>2, <1>5
            <4>2. QED
                BY <2>6, <2>9, <3>1, <4>1
        <3>2. CASE t # s
            <4>1. i # 1 /\ j # 1
                BY <2>6, <2>9, <3>2
            <4>2. i - 1 \in 1..Len(q) /\ j - 1 \in 1..Len(q) /\ q[i - 1] = t /\ q[j - 1] = t
                BY <2>6, <2>9, <4>1
            <4>3. i - 1 = j - 1
                BY <4>2 DEF Listed, q
            <4>4. QED
                BY <1>1, <2>3, <4>3
        <3>3. QED
            BY <3>1, <3>2
    <2>10. ASSUME NEW t \in Distinct PROVE t \in off' <=> t \in Range(r)
        <3>1. CASE t = s
            BY <1>5, <2>8, <2>10, <3>1 DEF ToggleScript, Listed
        <3>2. CASE t # s
            BY <2>7, <2>10, <3>2 DEF ToggleScript, Listed
        <3>3. QED
            BY <3>1, <3>2
    <2>11. QED
        BY <1>1, <2>3, <2>9, <2>10 DEF Listed, Disabled
<1>6. QED
    BY <1>3, <1>4, <1>5

-----------------------------------------------------------------------------
(***************************************************************************)
(* What the window is after its first i scripts: what the fold of Injected *)
(* computes, one script after the other.                                   *)
(***************************************************************************)
Bare == [ran |-> {}, running |-> running, failed |-> failed]

InjectedBy(g) ==
    /\ g[0] = Bare
    /\ \A i \in 1..Len(scripts) : g[i] = Inject(g[i - 1], scripts[i])

LEMMA LastOf == ASSUME NEW n \in Nat PROVE \A S : n \in S /\ S \subseteq 1..n => Max(S) = n
<1>1. ASSUME NEW S, n \in S, S \subseteq 1..n PROVE Max(S) = n
    <2>1. \A x \in S : (\A y \in S : x >= y) <=> x = n
        BY <1>1
    <2>2. QED
        BY <1>1, <2>1 DEF Max
<1>2. QED
    BY <1>1

LEMMA InjectedDef ==
    ASSUME scripts \in Seq(Script)
    PROVE  \E g : InjectedBy(g) /\ Injected = g[Len(scripts)]
<1> DEFINE N == Len(scripts)
           Next1(h, s) == IF s = {} THEN Bare ELSE Inject(h[s \ {Max(s)}], scripts[Max(s)])
           Row(m, h) == h = [s \in SUBSET (1..m) |-> Next1(h, s)]
           M == {m \in Nat : \E h : Row(m, h)}
           f[s \in SUBSET (DOMAIN scripts)] ==
               IF s = {} THEN Bare ELSE Inject(f[s \ {Max(s)}], scripts[Max(s)])
<1>1. N \in Nat /\ DOMAIN scripts = 1..N
    BY LenProperties
<1>2. 0 \in M
    <2> DEFINE h == [s \in SUBSET (1..0) |-> Bare]
    <2>1. \A s \in SUBSET (1..0) : Next1(h, s) = Bare
        OBVIOUS
    <2>2. Row(0, h)
        BY <2>1
    <2> HIDE DEF Row
    <2>3. QED
        BY <2>2
<1>3. ASSUME NEW m \in Nat, m \in M PROVE m + 1 \in M
    <2>1. PICK g : Row(m, g)
        BY <1>3
    <2>2. \A s \in SUBSET (1..m) : g[s] = Next1(g, s)
        BY <2>1
    <2> DEFINE h == [s \in SUBSET (1..(m + 1)) |-> Next1(g, s)]
    <2> HIDE DEF Next1
    <2>3. \A s \in SUBSET (1..(m + 1)) : h[s] = Next1(g, s)
        OBVIOUS
    <2>4. h = [s \in SUBSET (1..(m + 1)) |-> h[s]]
        OBVIOUS
    <2> HIDE DEF h
    <2>5. ASSUME NEW s \in SUBSET (1..m) PROVE h[s] = g[s]
        <3>1. s \in SUBSET (1..(m + 1))
            BY <1>3
        <3>2. QED
            BY <2>2, <2>3, <3>1
    <2>6. ASSUME NEW s \in SUBSET (1..(m + 1)), s # {} PROVE s \ {Max(s)} \in SUBSET (1..m)
        <3>1. CASE m + 1 \in s
            <4>1. s \subseteq 1..(m + 1) /\ m + 1 \in Nat
                BY <1>3
            <4>2. Max(s) = m + 1
                BY <3>1, <4>1, LastOf
            <4>3. \A k \in 1..(m + 1) : k # m + 1 => k \in 1..m
                BY <1>3
            <4>4. QED
                BY <4>1, <4>2, <4>3
        <3>2. CASE m + 1 \notin s
            <4>1. s \subseteq 1..(m + 1)
                OBVIOUS
            <4>2. \A k \in 1..(m + 1) : k # m + 1 => k \in 1..m
                BY <1>3
            <4>3. QED
                BY <3>2, <4>1, <4>2
        <3>3. QED
            BY <3>1, <3>2
    <2>7. ASSUME NEW s \in SUBSET (1..(m + 1)) PROVE h[s] = Next1(h, s)
        <3>1. CASE s = {}
            BY <2>3, <3>1 DEF Next1
        <3>2. CASE s # {}
            <4>1. h[s \ {Max(s)}] = g[s \ {Max(s)}]
                BY <2>5, <2>6, <3>2
            <4>2. QED
                BY <2>3, <3>2, <4>1 DEF Next1
        <3>3. QED
            BY <3>1, <3>2
    <2>8. Row(m + 1, h)
        BY <2>4, <2>7
    <2>9. m + 1 \in Nat
        OBVIOUS
    <2> HIDE DEF Row
    <2>10. QED
        BY <2>8, <2>9
<1>4. N \in M
    <2> HIDE DEF M
    <2>1. QED
        BY <1>1, <1>2, <1>3, SetInduction
<1>5. Row(N, f)
    <2>1. \E h : Row(N, h)
        BY <1>4
    <2>2. f = CHOOSE h : h = [s \in SUBSET (DOMAIN scripts) |-> Next1(h, s)]
        BY Zenon
    <2>3. f = CHOOSE h : Row(N, h)
        BY <1>1, <2>2, Zenon
    <2> HIDE DEF Row, f
    <2>4. QED
        BY <2>1, <2>3, Zenon
<1>6. Injected = f[DOMAIN scripts]
    BY Zenon DEF Injected, FoldLeft, MapThenFoldSet, Bare
<1>7. \A s \in SUBSET (1..N) : f[s] = Next1(f, s)
    <2> HIDE DEF f, Next1
    <2>1. f = [s \in SUBSET (1..N) |-> Next1(f, s)]
        BY <1>5, Zenon
    <2>2. QED
        BY <2>1, Zenon
<1> HIDE DEF f
<1> DEFINE g == [i \in 0..N |-> f[1..i]]
<1>8. g[0] = Bare
    <2>1. 1..0 = {} /\ 1..0 \in SUBSET (1..N) /\ 0 \in 0..N
        BY <1>1
    <2>2. f[1..0] = Next1(f, 1..0)
        BY <1>7, <2>1
    <2>3. QED
        BY <2>1, <2>2
<1>9. ASSUME NEW i \in 1..N PROVE g[i] = Inject(g[i - 1], scripts[i])
    <2>0. i \in 0..N /\ i - 1 \in 0..N /\ i \in Nat /\ i \in 1..i
        BY <1>1
    <2>1. 1..i \in SUBSET (1..N) /\ 1..i # {}
        <3>1. \A k \in 1..i : k \in 1..N
            BY <1>1
        <3>2. QED
            BY <2>0, <3>1
    <2>2. Max(1..i) = i
        BY <2>0, LastOf
    <2>3. (1..i) \ {i} = 1..(i - 1)
        BY <2>0
    <2>4. f[1..i] = Next1(f, 1..i)
        BY <1>7, <2>1
    <2>5. f[1..i] = Inject(f[1..(i - 1)], scripts[i])
        BY <2>1, <2>2, <2>3, <2>4
    <2>6. g[i] = f[1..i] /\ g[i - 1] = f[1..(i - 1)]
        BY <2>0
    <2>7. QED
        BY <2>5, <2>6
<1>10. Injected = g[N]
    <2>1. N \in 0..N
        BY <1>1
    <2>2. QED
        BY <1>1, <1>6, <2>1
<1> HIDE DEF g
<1>11. QED
    BY <1>8, <1>9, <1>10 DEF InjectedBy

(***************************************************************************)
(* A script that is started is one of the directory's classic ones that is *)
(* neither off nor has failed, and, if it may run only once, does not run  *)
(* yet; and what runs or has failed stays so.                              *)
(***************************************************************************)
LEMMA InjectedStarts ==
    ASSUME scripts \in Seq(Script), running \subseteq Script, failed \subseteq Script
    PROVE  /\ Injected.ran \subseteq (Present \ Module) \ (Disabled \union failed)
           /\ Injected.ran \intersect OnlyOnce \intersect running = {}
           /\ Injected.running = running \union Injected.ran
           /\ failed \subseteq Injected.failed
           /\ Injected.failed \subseteq Script
<1> DEFINE Good(x) ==
              /\ x = [ran |-> x.ran, running |-> x.running, failed |-> x.failed]
              /\ x.ran \subseteq (Present \ Module) \ (Disabled \union failed)
              /\ x.ran \intersect OnlyOnce \intersect running = {}
              /\ x.running = running \union x.ran
              /\ failed \subseteq x.failed
              /\ x.failed \subseteq Script
<1>1. PICK g : InjectedBy(g) /\ Injected = g[Len(scripts)]
    BY InjectedDef
<1>2. Len(scripts) \in Nat
    BY LenProperties
<1>3. Good(Bare)
    BY DEF Bare
<1>4. ASSUME NEW x, Good(x), NEW s \in Present, s \in Script PROVE Good(Inject(x, s))
    <2>1. CASE Inject(x, s) = x
        BY <1>4, <2>1
    <2>2. CASE ~Skipped(x, s) /\ Inject(x, s) = [x EXCEPT !.failed = @ \union {s}]
        <3>1. PICK r, u, t : x = [ran |-> r, running |-> u, failed |-> t]
            BY <1>4
        <3>2. Inject(x, s) = [ran |-> r, running |-> u, failed |-> t \union {s}]
            BY <2>2, <3>1
        <3>3. QED
            BY <1>4, <3>1, <3>2
    <2>3. CASE ~Skipped(x, s) /\ Inject(x, s) = [x EXCEPT !.ran = @ \union {s}, !.running = @ \union {s}]
        <3>1. PICK r, u, t : x = [ran |-> r, running |-> u, failed |-> t]
            BY <1>4
        <3>2. Inject(x, s) = [ran |-> r \union {s}, running |-> u \union {s}, failed |-> t]
            BY <2>3, <3>1
        <3>3. s \notin Module /\ s \notin Disabled /\ s \notin t /\ ~(s \in OnlyOnce /\ s \in u)
            BY <2>3, <3>1 DEF Skipped
        <3>4. QED
            BY <1>4, <3>1, <3>2, <3>3
    <2>4. QED
        BY <2>1, <2>2, <2>3 DEF Inject
<1> HIDE DEF Good
<1> DEFINE M == {i \in Nat : i \in 0..Len(scripts) => Good(g[i])}
<1>5. 0 \in M
    BY <1>1, <1>3 DEF InjectedBy
<1>6. ASSUME NEW i \in Nat, i \in M PROVE i + 1 \in M
    <2>1. CASE i + 1 \in 1..Len(scripts)
        <3>1. i \in 0..Len(scripts) /\ (i + 1) - 1 = i
            BY <1>2, <2>1
        <3>2. g[i + 1] = Inject(g[i], scripts[i + 1])
            BY <1>1, <2>1, <3>1 DEF InjectedBy
        <3>3. scripts[i + 1] \in Script /\ scripts[i + 1] \in Present
            <4>1. DOMAIN scripts = 1..Len(scripts)
                BY LenProperties
            <4>2. QED
                BY <2>1, <4>1, ElementOfSeq DEF Present, Range
        <3>4. QED
            BY <1>4, <1>6, <3>1, <3>2, <3>3
    <2>2. CASE i + 1 \notin 1..Len(scripts)
        BY <1>2, <2>2
    <2>3. QED
        BY <2>1, <2>2
<1>7. Len(scripts) \in M
    <2> HIDE DEF M
    <2>1. QED
        BY <1>2, <1>5, <1>6, SetInduction
<1>8. Good(Injected)
    BY <1>1, <1>2, <1>7
<1>9. QED
    BY <1>8 DEF Good

-----------------------------------------------------------------------------
(* A classic script that runs in a window is recorded as running.           *)
Recorded == \A s \in Classic, w \in Window : s \in ran[w] => s \in running

LoaderInv ==
    /\ LoaderTypeOK
    /\ scripts \in Seq(Script)
    /\ Listed
    /\ Recorded
    /\ ClassicOnce

Wished == \A w \in Window, s \in Script :
    Starts(s, w) => s \notin failed /\ (s \in Distinct => s \notin off)

LEMMA RangeTyped == ASSUME NEW q \in Seq(Script) PROVE Range(q) \subseteq Script
BY DisabledIn, ElementOfSeq

LEMMA OpenedKeeps ==
    ASSUME LoaderInv, NEW w \in Window, OnDOMContent(w)
    PROVE  LoaderInv' /\ Wished
<1> DEFINE new == Injected.ran
<1>1. /\ scripts \in Seq(Script) /\ running \subseteq Script /\ failed \subseteq Script
      /\ ran \in [Window -> SUBSET Script] /\ opened \subseteq Window /\ loading \subseteq Window
      /\ disabled \in Seq(Script) /\ off \subseteq Script
    BY DEF LoaderInv, LoaderTypeOK, Listed
<1>2. /\ new \subseteq (Present \ Module) \ (Disabled \union failed)
      /\ new \intersect OnlyOnce \intersect running = {}
      /\ Injected.running = running \union new
      /\ Injected.failed \subseteq Script
    BY <1>1, InjectedStarts
<1>3. Present \subseteq Script
    BY <1>1, RangeTyped DEF Present
<1>4. /\ ran' = [ran EXCEPT ![w] = new] /\ running' = running \union new
      /\ failed' \subseteq Script /\ opened' = opened \union {w}
      /\ loading' \subseteq loading \union {w}
      /\ UNCHANGED <<scripts, disabled, importing, off, touched>>
    BY <1>2 DEF OnDOMContent
<1> HIDE DEF new
<1>5. LoaderTypeOK'
    BY <1>1, <1>2, <1>3, <1>4 DEF LoaderInv, LoaderTypeOK
<1>6. scripts' \in Seq(Script) /\ Listed'
    BY <1>1, <1>4 DEF LoaderInv, Listed, Disabled
<1>7. Recorded'
    BY <1>1, <1>4 DEF LoaderInv, Recorded
<1>8. ClassicOnce'
    <2>1. SUFFICES ASSUME NEW s \in Classic, NEW v \in Window, NEW u \in Window,
                          s \in ran'[v], s \in ran'[u], v # u
                   PROVE  FALSE
        BY DEF ClassicOnce, Classic
    <2>2. CASE v = w
        <3>1. s \in new /\ s \in ran[u]
            BY <1>1, <1>4, <2>1, <2>2
        <3>2. s \in running
            BY <3>1 DEF LoaderInv, Recorded
        <3>3. QED
            BY <1>2, <2>1, <3>1, <3>2 DEF Classic
    <2>3. CASE u = w
        <3>1. s \in new /\ s \in ran[v]
            BY <1>1, <1>4, <2>1, <2>3
        <3>2. s \in running
            BY <3>1 DEF LoaderInv, Recorded
        <3>3. QED
            BY <1>2, <2>1, <3>1, <3>2 DEF Classic
    <2>4. CASE v # w /\ u # w
        BY <1>1, <1>4, <2>1, <2>4 DEF LoaderInv, ClassicOnce, Classic
    <2>5. QED
        BY <2>2, <2>3, <2>4
<1>9. Wished
    <2>1. ASSUME NEW v \in Window, NEW s \in Script, Starts(s, v)
          PROVE  s \notin failed /\ (s \in Distinct => s \notin off)
        <3>1. s \in new
            BY <1>1, <1>4, <2>1 DEF Starts
        <3>2. s \notin Disabled /\ s \notin failed
            BY <1>2, <3>1
        <3>3. QED
            BY <3>2 DEF LoaderInv, Listed
    <2>2. QED
        BY <2>1 DEF Wished
<1>10. QED
    BY <1>5, <1>6, <1>7, <1>8, <1>9 DEF LoaderInv

LEMMA ExecutedKeeps ==
    ASSUME LoaderInv, NEW w \in Window, ExecuteModules(w)
    PROVE  LoaderInv' /\ Wished
<1>1. /\ ran \in [Window -> SUBSET Script] /\ importing \in [Window -> SUBSET Module]
      /\ loading \subseteq Window
    BY DEF LoaderInv, LoaderTypeOK
<1>2. Importable \subseteq Module \ (Disabled \union failed) /\ Module \subseteq Script
    BY LoaderAssumption DEF Importable, ForWindows
<1>3. /\ ran' = [ran EXCEPT ![w] = ran[w] \union Importable]
      /\ importing' = [importing EXCEPT ![w] = Importable]
      /\ loading' = loading \ {w}
      /\ UNCHANGED <<scripts, disabled, running, failed, opened, off, touched>>
    BY <1>1 DEF ExecuteModules
<1>4. LoaderTypeOK'
    BY <1>1, <1>2, <1>3 DEF LoaderInv, LoaderTypeOK
<1>5. \A v \in Window : ran'[v] \subseteq ran[v] \union Importable
    BY <1>1, <1>3
<1>6. scripts' \in Seq(Script) /\ Listed'
    BY <1>3 DEF LoaderInv, Listed, Disabled
<1>7. \A s \in Classic, v \in Window : s \in ran'[v] => s \in ran[v]
    BY <1>2, <1>5 DEF Classic
<1>8. Recorded' /\ ClassicOnce'
    BY <1>3, <1>7 DEF LoaderInv, Recorded, ClassicOnce, Classic
<1>9. Wished
    BY <1>2, <1>5 DEF Wished, Starts, LoaderInv, Listed
<1>10. QED
    BY <1>4, <1>6, <1>8, <1>9 DEF LoaderInv

LEMMA UnloadKeeps ==
    ASSUME LoaderInv, NEW w \in Window, Unload(w)
    PROVE  LoaderInv' /\ Wished
<1>1. /\ ran \in [Window -> SUBSET Script] /\ importing \in [Window -> SUBSET Module]
      /\ loading \subseteq Window /\ opened \subseteq Window
    BY DEF LoaderInv, LoaderTypeOK
<1>2. /\ ran' = [ran EXCEPT ![w] = {}] /\ importing' = [importing EXCEPT ![w] = {}]
      /\ loading' = loading \ {w} /\ opened' = opened \ {w}
      /\ UNCHANGED <<scripts, disabled, running, failed, off, touched>>
    BY DEF Unload
<1>3. LoaderTypeOK'
    BY <1>1, <1>2 DEF LoaderInv, LoaderTypeOK
<1>4. \A v \in Window : ran'[v] \subseteq ran[v]
    BY <1>1, <1>2
<1>5. scripts' \in Seq(Script) /\ Listed'
    BY <1>2 DEF LoaderInv, Listed, Disabled
<1>6. Recorded' /\ ClassicOnce' /\ Wished
    BY <1>2, <1>4 DEF LoaderInv, Recorded, ClassicOnce, Classic, Wished, Starts
<1>7. QED
    BY <1>3, <1>5, <1>6 DEF LoaderInv

LEMMA ImportedKeeps ==
    ASSUME LoaderInv, NEW w \in Window, NEW m \in Module, Imported(w, m)
    PROVE  LoaderInv' /\ Wished
<1>1. /\ importing \in [Window -> SUBSET Module] /\ running \subseteq Script
      /\ failed \subseteq Script
    BY DEF LoaderInv, LoaderTypeOK
<1>2. m \in Script
    BY LoaderAssumption
<1>3. /\ importing' = [importing EXCEPT ![w] = importing[w] \ {m}]
      /\ failed' \subseteq failed \union {m} /\ running' = running \union {m}
      /\ UNCHANGED <<scripts, disabled, opened, ran, loading, off, touched>>
    BY <1>1 DEF Imported
<1>4. LoaderTypeOK'
    BY <1>1, <1>2, <1>3 DEF LoaderInv, LoaderTypeOK
<1>5. scripts' \in Seq(Script) /\ Listed'
    BY <1>3 DEF LoaderInv, Listed, Disabled
<1>6. Recorded' /\ ClassicOnce' /\ Wished
    BY <1>3 DEF LoaderInv, Recorded, ClassicOnce, Wished, Starts
<1>7. QED
    BY <1>4, <1>5, <1>6 DEF LoaderInv

LEMMA ToggledKeeps ==
    ASSUME LoaderInv, NEW s \in Script, ToggleScript(s)
    PROVE  LoaderInv' /\ Wished
<1>1. Listed'
    BY ToggleListed, LoaderAssumption DEF LoaderInv
<1>2. UNCHANGED <<scripts, running, failed, opened, ran, loading, importing>>
      /\ touched' = touched \union {s}
    BY DEF ToggleScript
<1>3. LoaderTypeOK'
    <2>1. Range(disabled') \subseteq Script /\ off' \subseteq Script
        BY <1>1, RangeTyped DEF Listed
    <2>2. QED
        BY <1>2, <2>1 DEF LoaderInv, LoaderTypeOK
<1>4. scripts' \in Seq(Script) /\ Recorded' /\ ClassicOnce' /\ Wished
    BY <1>2 DEF LoaderInv, Recorded, ClassicOnce, Wished, Starts
<1>5. QED
    BY <1>1, <1>3, <1>4 DEF LoaderInv

LEMMA RestartedKeeps ==
    ASSUME LoaderInv, LoaderRestart
    PROVE  LoaderInv' /\ Wished
<1>1. ran' = Nowhere /\ importing' = Nowhere /\ loading' = {} /\ opened' = {} /\ failed' = {}
      /\ touched' = {} /\ running' \subseteq Background
      /\ UNCHANGED <<scripts, disabled, off>>
    BY DEF LoaderRestart
<1>2. Background \subseteq Script
    BY LoaderAssumption
<1>3. LoaderTypeOK'
    BY <1>1, <1>2 DEF LoaderInv, LoaderTypeOK, Nowhere
<1>4. scripts' \in Seq(Script) /\ Listed'
    BY <1>1 DEF LoaderInv, Listed, Disabled
<1>5. \A w \in Window : ran'[w] = {}
    BY <1>1 DEF Nowhere
<1>6. Recorded' /\ ClassicOnce' /\ Wished
    BY <1>5 DEF Recorded, ClassicOnce, Wished, Starts
<1>7. QED
    BY <1>3, <1>4, <1>6 DEF LoaderInv

LEMMA LoaderStaysKeeps ==
    ASSUME LoaderInv, UNCHANGED loader
    PROVE  LoaderInv' /\ Wished
<1>1. UNCHANGED <<scripts, disabled, running, failed, opened, ran, loading, importing, off, touched>>
    BY DEF loader
<1>2. QED
    BY <1>1 DEF LoaderInv, LoaderTypeOK, Listed, Disabled, Recorded, ClassicOnce, Wished, Starts

LEMMA LoaderStep ==
    ASSUME LoaderInv, Next
    PROVE  LoaderInv' /\ Wished
<1>1. ASSUME NEW w \in Window, Open(w) \/ Close(w) PROVE OnDOMContent(w) \/ Unload(w)
    BY <1>1 DEF Open, Close
<1>2. ASSUME NEW w \in Window, StartModules(w) PROVE ExecuteModules(w)
    BY <1>2 DEF StartModules
<1>3. ASSUME NEW w \in Window, EndImport(w) PROVE \E m \in Module : Imported(w, m)
    BY <1>3 DEF EndImport
<1>4. ASSUME NEW w \in Window, Start(w) \/ Round(w) \/ SlowRound(w) PROVE UNCHANGED loader
    BY <1>4 DEF Start, Round, SlowRound
<1>5. ASSUME NEW f \in Watched, Finish(f) \/ Writer(f) PROVE UNCHANGED loader
    BY <1>5 DEF Finish, Writer
<1>6. ASSUME NEW h \in Host, EditBoost(h) PROVE UNCHANGED loader
    BY <1>6 DEF EditBoost
<1>7. ASSUME NEW p \in Page, NEW h \in Host, Visit(p, h) PROVE UNCHANGED loader
    BY <1>7 DEF Visit
<1>8. ASSUME NEW s \in Script, Toggle(s) PROVE ToggleScript(s)
    BY <1>8 DEF Toggle
<1>9. ASSUME Restart PROVE LoaderRestart
    BY <1>9 DEF Restart
<1>10. ASSUME NEW p \in Page, Content(Answer(p)) PROVE UNCHANGED loader
    BY <1>10 DEF Content
<1>11. ASSUME NEW q \in Process,
              Content(Deliver(q)) \/ Content(Mutate(q)) \/ Content(Fire(q))
       PROVE  UNCHANGED loader
    BY <1>11 DEF Content
<1>12. \/ UNCHANGED loader
       \/ \E w \in Window : \/ OnDOMContent(w) \/ Unload(w) \/ ExecuteModules(w)
                           \/ \E m \in Module : Imported(w, m)
       \/ \E s \in Script : ToggleScript(s)
       \/ LoaderRestart
    BY <1>1, <1>2, <1>3, <1>4, <1>5, <1>6, <1>7, <1>8, <1>9, <1>10, <1>11 DEF Next
<1>13. QED
    BY <1>12, OpenedKeeps, UnloadKeeps, ExecutedKeeps, ImportedKeeps, ToggledKeeps, RestartedKeeps,
       LoaderStaysKeeps

LEMMA LoaderInitInv == Init => LoaderInv
<1>1. SUFFICES ASSUME Init PROVE LoaderInv
    OBVIOUS
<1>2. scripts \in Seq(Script)
    BY <1>1, ScenariosAssumption DEF Init
<1>3. Present \subseteq Script /\ Background \subseteq Script
    BY <1>2, RangeTyped, LoaderAssumption DEF Present
<1>4. LoaderInit
    BY <1>1 DEF Init
<1>5. disabled = <<>> /\ <<>> \in Seq(Script) /\ Range(<<>>) = {} /\ Len(<<>>) = 0
    BY <1>4 DEF LoaderInit, Range
<1>6. LoaderTypeOK
    BY <1>3, <1>4, <1>5 DEF LoaderInit, LoaderTypeOK, Nowhere, Present
<1>7. Listed
    BY <1>4, <1>5 DEF LoaderInit, Listed, Disabled
<1>8. Recorded /\ ClassicOnce
    BY <1>4 DEF LoaderInit, Recorded, ClassicOnce, Nowhere
<1>9. QED
    BY <1>2, <1>6, <1>7, <1>8 DEF LoaderInv

LEMMA LoaderInvAlways == Spec => []LoaderInv
<1>1. LoaderInv /\ [Next]_vars => LoaderInv'
    <2>1. UNCHANGED vars => UNCHANGED loader
        BY DEF vars
    <2>2. QED
        BY <2>1, LoaderStep, LoaderStaysKeeps
<1>2. QED
    BY LoaderInitInv, <1>1, PTL DEF Spec

(***************************************************************************)
(* A classic script that may run once runs in one window at the most, in   *)
(* whatever order windows open and close and scripts are toggled, since    *)
(* who starts it records it in the same step.                              *)
(***************************************************************************)
THEOREM ClassicOnceAlways == Spec => []ClassicOnce
<1>1. LoaderInv => ClassicOnce
    BY DEF LoaderInv
<1>2. QED
    BY <1>1, LoaderInvAlways, PTL

(***************************************************************************)
(* No script that has failed is started, nor one the user has turned off   *)
(* whose name is no part of another's: for any directory of scripts and    *)
(* any number of toggles, since the list of the preference holds each such *)
(* script once.                                                            *)
(***************************************************************************)
THEOREM OnlyWishedAlways == Spec => OnlyWished
<1>1. LoaderInv /\ [Next]_vars => [Wished]_loader
    <2>1. UNCHANGED vars => UNCHANGED loader
        BY DEF vars
    <2>2. QED
        BY <2>1, LoaderStep
<1>2. QED
    BY <1>1, LoaderInvAlways, PTL DEF Spec, OnlyWished, Wished

-----------------------------------------------------------------------------

(***************************************************************************)
(* The types of what the handlers work on.                                 *)
(***************************************************************************)
Typed ==
    /\ left \in [EventKind -> Nat]
    /\ gradient \in Nat
    /\ pref \in Colours
    /\ trail \in [Process -> Seq(Colours)]
    /\ page \in [Page -> Document]
    /\ child \in [Process -> Child]
    /\ inbox \in [Process -> Seq(Message)]
    /\ bridge \in [Window -> Bridge]
    /\ actor \in BOOLEAN
    /\ chrome \in [Window -> Colours]

Text == Nat \union {Half}

LEMMA KeyIs == Key = {"bg", "accent"} /\ KeyOrder \in Seq(Key)
<1>1. DOMAIN KeyOrder = {1, 2} /\ KeyOrder[1] = "bg" /\ KeyOrder[2] = "accent"
    BY DEF KeyOrder
<1>2. Key = {"bg", "accent"}
    BY <1>1 DEF Key, Range
<1>3. QED
    BY <1>2 DEF KeyOrder

LEMMA PageIs == \E n \in Nat : Page = 1..n
BY PageAssumption, FS_CardinalityType

LEMMA SpendTyped ==
    ASSUME left \in [EventKind -> Nat], NEW kinds, Spend(kinds)
    PROVE  left' \in [EventKind -> Nat]
<1>1. \A k \in EventKind : k \in kinds => left[k] - 1 \in Nat
    BY DEF Spend
<1>2. QED
    BY <1>1 DEF Spend

LEMMA LateTyped ==
    ASSUME left \in [EventKind -> Nat], NEW read, NEW events, Overtakes(read, events)
    PROVE  left' \in [EventKind -> Nat]
<1>1. Spend(events) \/ Spend(events \union {"late"})
    BY DEF Overtakes
<1>2. QED
    BY <1>1, SpendTyped

LEMMA CssTyped ==
    /\ \A host : \A a, b \in Text : StylesFor(host, a, b) \in Css
    /\ NoCss \in Css
BY DEF StylesFor, Css, NoCss, Text

LEMMA FileParts ==
    ASSUME FilesOK
    PROVE  /\ \A f \in Watched : file[f].text \in Text /\ file[f].time \in Nat
           /\ \A host : ParentStyles(host) \in Css
           /\ WebOn \in BOOLEAN /\ WebTime \in Nat
<1>1. \A f \in Watched : file[f] \in File
    BY DEF FilesOK
<1>2. \A f \in Watched : file[f].text \in Text /\ file[f].time \in Nat
    BY <1>1 DEF File, Text
<1>3. "global" \in Watched /\ "github" \in Watched /\ "web" \in Watched
    BY DEF Watched, StyleFile
<1>4. QED
    BY <1>2, <1>3, CssTyped DEF ParentStyles, WebOn, WebTime

LEMMA LoadedTyped ==
    ASSUME FilesOK, FilesOK'
    PROVE  /\ \A f \in StyleFile : Loaded(f) \in Entry
           /\ LoadAll \in [StyleFile -> Entry]
<1>1. \A f \in StyleFile : file[f].text \in Text /\ file'[f].time \in Nat
    <2>1. \A f \in Watched : file[f] \in File /\ file'[f] \in File
        BY DEF FilesOK
    <2>2. QED
        BY <2>1 DEF File, Text, Watched
<1>2. \A f \in StyleFile : Loaded(f) \in Entry
    BY <1>1 DEF Loaded, Entry, Text
<1>3. NoEntry \in Entry
    BY DEF NoEntry, Entry
<1>4. QED
    BY <1>2, <1>3 DEF LoadAll

-----------------------------------------------------------------------------
(* The gradient, the known domains and the accent a handler leaves.         *)
Handled(t) == \E C : \E g \in Nat, k, o \in SUBSET Host, a \in Nat, m \in BOOLEAN :
    t = State(C, g, k, o, a, m)

LEMMA SyncThemeTyped ==
    ASSUME NEW t, Handled(t), NEW v \in Nat, NEW force
    PROVE  Handled(SyncTheme(t, v, force))
<1>1. PICK C : \E g \in Nat, k, o \in SUBSET Host, a \in Nat, m \in BOOLEAN :
                 t = State(C, g, k, o, a, m)
    BY DEF Handled
<1>2. PICK g \in Nat, k, o \in SUBSET Host, a \in Nat, m \in BOOLEAN :
        t = State(C, g, k, o, a, m)
    BY <1>1
<1> DEFINE tinted == {h \in k : C[h].active}
           E == IF m THEN [h \in Host |-> IF h \in tinted THEN Tinted(C[h], v) ELSE C[h]] ELSE C
           e == IF m /\ (Workspaces \/ tinted # {}) THEN v ELSE a
           d == IF Workspaces THEN v ELSE g
<1>3. CASE v = 0 \/ (~force /\ v = a)
    <2>1. SyncTheme(t, v, force) = t
        BY <1>2, <1>3 DEF SyncTheme, State
    <2>2. QED
        BY <2>1
<1>4. CASE ~(v = 0 \/ (~force /\ v = a))
    <2>1. SyncTheme(t, v, force) = State(E, d, k, o, e, m)
        BY <1>2, <1>4 DEF SyncTheme, State
    <2>2. d \in Nat /\ e \in Nat
        OBVIOUS
    <2> HIDE DEF E, e, d
    <2>3. QED
        BY <2>1, <2>2 DEF Handled
<1>5. QED
    BY <1>3, <1>4

LEMMA BoostOpenTyped ==
    ASSUME NEW t, Handled(t), NEW open \in SUBSET Host
    PROVE  Handled(BoostOpen(t, open))
<1>1. PICK C : \E g \in Nat, k, o \in SUBSET Host, a \in Nat, m \in BOOLEAN :
                 t = State(C, g, k, o, a, m)
    BY DEF Handled
<1>2. PICK g \in Nat, k, o \in SUBSET Host, a \in Nat, m \in BOOLEAN :
        t = State(C, g, k, o, a, m)
    BY <1>1
<1> DEFINE bare == Unboosted(t, open)
           D == [h \in Host |-> IF h \in bare THEN Universal(C[h]) ELSE C[h]]
<1>3. BoostOpen(t, open) = State(D, g, k \union open, o \union bare, a, m)
    <2>1. t.boost = C /\ t.known = k
        BY <1>2, StateFields
    <2>2. BoostOpen(t, open) = [t EXCEPT !.known = k \union open, !.ours = o \union bare,
                                         !.boost = D]
        BY <1>2, <2>1 DEF BoostOpen, State
    <2> HIDE DEF D, bare
    <2>3. QED
        BY <1>2, <2>2 DEF State
<1>4. k \union open \in SUBSET Host /\ o \union bare \in SUBSET Host
    BY DEF Unboosted
<1> HIDE DEF D, bare
<1>5. QED
    BY <1>3, <1>4 DEF Handled

LEMMA SyncUniversalTyped ==
    ASSUME NEW t, Handled(t), NEW open \in SUBSET Host, NEW v \in Nat
    PROVE  Handled(SyncUniversal(t, open, v))
<1> DEFINE u == BoostOpen(t, open)
           forced == Unboosted(t, open) # {} \/ t.accent = 0
<1>1. Handled(u)
    BY BoostOpenTyped
<1>2. Handled(SyncTheme(u, v, forced))
    BY <1>1, SyncThemeTyped
<1>3. \/ SyncUniversal(t, open, v) = t
      \/ SyncUniversal(t, open, v) = u
      \/ SyncUniversal(t, open, v) = SyncTheme(u, v, forced)
    BY DEF SyncUniversal
<1>4. QED
    BY <1>1, <1>2, <1>3

LEMMA ThemesTyped ==
    ASSUME gradient \in Nat, NEW b \in Bridge
    PROVE  Handled(Themes(b))
<1>1. /\ b.known \in SUBSET Host /\ b.ours \in SUBSET Host
      /\ b.accent \in Nat /\ b.manager \in BOOLEAN
    BY DEF Bridge
<1>2. Themes(b) = State(boost, gradient, b.known, b.ours, b.accent, b.manager)
    BY DEF Themes, State
<1>3. QED
    BY <1>1, <1>2 DEF Handled

LEMMA CommitTyped ==
    ASSUME bridge \in [Window -> Bridge], NEW w, NEW b \in Bridge, NEW t,
           Commit(w, b, t), Handled(t)
    PROVE  bridge' \in [Window -> Bridge] /\ gradient' \in Nat
<1>1. PICK C : \E g \in Nat, k, o \in SUBSET Host, a \in Nat, m \in BOOLEAN :
                 t = State(C, g, k, o, a, m)
    BY DEF Handled
<1>2. PICK g \in Nat, k, o \in SUBSET Host, a \in Nat, m \in BOOLEAN :
        t = State(C, g, k, o, a, m)
    BY <1>1
<1>3. t.known = k /\ t.ours = o /\ t.accent = a /\ t.gradient = g
    BY <1>2 DEF State
<1> DEFINE c == [b EXCEPT !.known = t.known, !.ours = t.ours, !.accent = t.accent]
<1>4. c \in Bridge
    BY <1>3 DEF Bridge
<1>5. bridge' = [bridge EXCEPT ![w] = c] /\ gradient' = t.gradient
    BY DEF Commit
<1> HIDE DEF c
<1>6. QED
    BY <1>3, <1>4, <1>5

LEMMA HostsShown ==
    ASSUME page \in [Page -> Document]
    PROVE  ShownHosts \in SUBSET Host /\ \A p \in Shown : page[p].host \in Host
<1>1. \A p \in Page : page[p].host \in Host \union {None}
    BY DEF Document
<1>2. QED
    BY <1>1 DEF ShownHosts, Shown

(***************************************************************************)
(* A broadcast has messages for every page; a process gets those for the   *)
(* pages it shows, in the pages' order.                                    *)
(***************************************************************************)
Cast == [Page -> Seq(Message)]
Shows(q, p) == p \in Shown /\ page[p].process = q
Piece(q, c) == [p \in Page |-> IF Shows(q, p) THEN c[p] ELSE <<>>]
Order == [p \in Page |-> p]
Row(q) == [c \in Cast |-> FlatMap(Piece(q, c), Order)]

LEMMA OrderTyped == Order \in Seq(Page) /\ DOMAIN Order = Page
<1>1. PICK n \in Nat : Page = 1..n
    BY PageIs
<1>2. QED
    BY <1>1, IsASeq DEF Order

LEMMA RowTyped ==
    \A q : /\ \A c \in Cast : Piece(q, c) \in [Page -> Seq(Message)]
           /\ Row(q) \in [Cast -> Seq(Message)]
<1>1. SUFFICES ASSUME NEW q PROVE /\ \A c \in Cast : Piece(q, c) \in [Page -> Seq(Message)]
                                  /\ Row(q) \in [Cast -> Seq(Message)]
    OBVIOUS
<1>2. ASSUME NEW c \in Cast PROVE Piece(q, c) \in [Page -> Seq(Message)]
    BY EmptySeq DEF Piece, Cast
<1>3. ASSUME NEW c \in Cast PROVE FlatMap(Piece(q, c), Order) \in Seq(Message)
    BY <1>2, OrderTyped, FlatMapTyped
<1>4. QED
    BY <1>2, <1>3 DEF Row

LEMMA SentRows ==
    ASSUME NEW casts \in Seq(Cast), NEW q \in Process
    PROVE  Sent(casts)[q] = inbox[q] \o FlatMap(Row(q), casts)
<1>1. ASSUME NEW i \in DOMAIN casts
      PROVE  FlattenSeq([p \in Page |-> IF p \in Shown /\ page[p].process = q
                                        THEN casts[i][p] ELSE <<>>])
               = Row(q)[casts[i]]
    <2>1. PICK c \in Cast : c = casts[i]
        BY LenProperties, ElementOfSeq
    <2>2. [p \in Page |-> IF p \in Shown /\ page[p].process = q THEN c[p] ELSE <<>>]
            = [k \in DOMAIN Order |-> Piece(q, c)[Order[k]]]
        BY OrderTyped DEF Piece, Order, Shows
    <2>3. FlattenSeq([p \in Page |-> IF p \in Shown /\ page[p].process = q
                                     THEN c[p] ELSE <<>>])
            = FlatMap(Piece(q, c), Order)
        BY <2>2, Zenon DEF FlatMap
    <2>4. QED
        BY <2>1, <2>3 DEF Row
<1>2. [i \in DOMAIN casts |-> FlattenSeq(
          [p \in Page |-> IF p \in Shown /\ page[p].process = q
                          THEN casts[i][p] ELSE <<>>])]
        = [i \in DOMAIN casts |-> Row(q)[casts[i]]]
    BY <1>1
<1>3. FlattenSeq([i \in DOMAIN casts |-> FlattenSeq(
          [p \in Page |-> IF p \in Shown /\ page[p].process = q
                          THEN casts[i][p] ELSE <<>>])])
        = FlatMap(Row(q), casts)
    BY <1>2, Zenon DEF FlatMap
<1>4. QED
    BY <1>3, Zenon DEF Sent

LEMMA SentTyped ==
    ASSUME inbox \in [Process -> Seq(Message)], NEW casts \in Seq(Cast)
    PROVE  Sent(casts) \in [Process -> Seq(Message)]
<1>1. ASSUME NEW q \in Process PROVE Sent(casts)[q] \in Seq(Message)
    <2>1. FlatMap(Row(q), casts) \in Seq(Message)
        BY RowTyped, FlatMapTyped
    <2>2. QED
        BY <2>1, SentRows, ConcatProperties
<1>2. Sent(casts) = [q \in Process |-> Sent(casts)[q]]
    BY DEF Sent
<1>3. QED
    BY <1>1, <1>2

-----------------------------------------------------------------------------
(* The elements in S of a list over M, one or none for each.                *)
Pick(M, S) == [m \in M |-> IF m \in S THEN <<m>> ELSE <<>>]

LEMMA PickTyped == \A M, S : Pick(M, S) \in [M -> Seq(M)]
BY EmptySeq DEF Pick

LEMMA PickedIs ==
    ASSUME NEW M, NEW S, NEW s \in Seq(M)
    PROVE  Picked(s, S) = FlatMap(Pick(M, S), s) /\ Picked(s, S) \in Seq(M)
<1>1. \A k \in DOMAIN s : s[k] \in M
    BY LenProperties, ElementOfSeq
<1>2. [i \in DOMAIN s |-> IF s[i] \in S THEN <<s[i]>> ELSE <<>>]
        = [i \in DOMAIN s |-> Pick(M, S)[s[i]]]
    BY <1>1 DEF Pick
<1>3. Picked(s, S) = FlatMap(Pick(M, S), s)
    BY <1>2, Zenon DEF Picked, FlatMap
<1>4. QED
    BY <1>3, PickTyped, FlatMapTyped

(* The keys of the prefs that change.                                       *)
LEMMA ChangedIs ==
    ASSUME NEW v
    PROVE  /\ Changed(v) \in Seq(Key)
           /\ {Changed(v)[j] : j \in 1..Len(Changed(v))} = {k \in Key : pref[k] # v}
<1>1. Key = {"bg", "accent"} /\ KeyOrder \in Seq(Key)
    BY KeyIs
<1> DEFINE S == {k \in Key : pref[k] # v}
<1>2. S \in SUBSET Key /\ Changed(v) = Picked(KeyOrder, S)
    BY DEF Changed
<1> HIDE DEF S
<1>3. Changed(v) = FlatMap(Pick(Key, S), <<"bg", "accent">>) /\ Changed(v) \in Seq(Key)
    <2>1. Picked(KeyOrder, S) = FlatMap(Pick(Key, S), KeyOrder) /\ Picked(KeyOrder, S) \in Seq(Key)
        BY <1>1, PickedIs
    <2>2. QED
        BY <1>2, <2>1 DEF KeyOrder
<1>4. PICK A, B : A = Pick(Key, S)["bg"] /\ B = Pick(Key, S)["accent"]
    OBVIOUS
<1>5. /\ A = IF "bg" \in S THEN <<"bg">> ELSE <<>>
      /\ B = IF "accent" \in S THEN <<"accent">> ELSE <<>>
    BY <1>1, <1>4 DEF Pick
<1>6. Changed(v) = A \o B
    <2>1. FlatMap(Pick(Key, S), <<"bg", "accent">>) = Pick(Key, S)["bg"] \o Pick(Key, S)["accent"]
        <3>1. Pick(Key, S) \in [Key -> Seq(Key)] /\ "bg" \in Key /\ "accent" \in Key
            BY <1>1, PickTyped
        <3>2. QED
            BY <3>1, FlatMapPair
    <2>2. QED
        BY <1>3, <1>4, <2>1
<1>7. {Changed(v)[j] : j \in 1..Len(Changed(v))} = S
    <2>0. PICK c : c = Changed(v)
        OBVIOUS
    <2>1. CASE "bg" \in S /\ "accent" \in S
        <3>1. A \o B = <<"bg", "accent">>
            BY <1>1, <1>5, <2>1, PairOf
        <3>2. S = {"bg", "accent"}
            BY <1>1, <1>2, <2>1
        <3>3. c = <<"bg", "accent">>
            BY <1>6, <2>0, <3>1
        <3>4. {c[j] : j \in 1..Len(c)} = {"bg", "accent"}
            BY <3>3
        <3>5. QED
            BY <2>0, <3>2, <3>4
    <2>2. CASE "bg" \in S /\ "accent" \notin S
        <3>1. A \o B = <<"bg">>
            <4>1. A = <<"bg">> /\ B = <<>> /\ A \in Seq(Key)
                BY <1>1, <1>5, <2>2
            <4>2. QED
                BY <4>1, ConcatEmptySeq
        <3>2. S = {"bg"}
            BY <1>1, <1>2, <2>2
        <3>3. c = <<"bg">>
            BY <1>6, <2>0, <3>1
        <3>4. {c[j] : j \in 1..Len(c)} = {"bg"}
            BY <3>3
        <3>5. QED
            BY <2>0, <3>2, <3>4
    <2>3. CASE "bg" \notin S /\ "accent" \in S
        <3>1. A \o B = <<"accent">>
            <4>1. A = <<>> /\ B = <<"accent">> /\ B \in Seq(Key)
                BY <1>1, <1>5, <2>3
            <4>2. QED
                BY <4>1, ConcatEmptySeq
        <3>2. S = {"accent"}
            BY <1>1, <1>2, <2>3
        <3>3. c = <<"accent">>
            BY <1>6, <2>0, <3>1
        <3>4. {c[j] : j \in 1..Len(c)} = {"accent"}
            BY <3>3
        <3>5. QED
            BY <2>0, <3>2, <3>4
    <2>4. CASE "bg" \notin S /\ "accent" \notin S
        <3>1. A \o B = <<>>
            BY <1>5, <2>4
        <3>2. S = {}
            BY <1>1, <1>2, <2>4
        <3>3. c = <<>>
            BY <1>6, <2>0, <3>1
        <3>4. {c[j] : j \in 1..Len(c)} = {}
            BY <3>3
        <3>5. QED
            BY <2>0, <3>2, <3>4
    <2>5. QED
        BY <2>1, <2>2, <2>3, <2>4
<1>8. QED
    BY <1>3, <1>7 DEF S

(* What the observers tell of a palette v: the last message is whole.       *)
LEMMA PrefixedTyped ==
    ASSUME pref \in Colours, NEW v \in Nat
    PROVE  /\ \A i : Prefixed(v, i) \in Colours
           /\ \A k \in Key : Prefixed(v, Len(Changed(v)))[k] = v
<1>1. \A i : Prefixed(v, i) \in Colours
    BY DEF Prefixed, Colours
<1>2. \A k \in Key : Prefixed(v, Len(Changed(v)))[k] = v
    BY ChangedIs DEF Prefixed
<1>3. QED
    BY <1>1, <1>2

LEMMA VarsCastTyped == \A values \in Colours : VarsCast(values) \in Cast
<1>1. SUFFICES ASSUME NEW values \in Colours PROVE VarsCast(values) \in Cast
    OBVIOUS
<1>2. ASSUME NEW p \in Page PROVE <<[kind |-> "vars", page |-> p, vars |-> values]>> \in Seq(Message)
    <2>1. [kind |-> "vars", page |-> p, vars |-> values] \in Message
        BY DEF Message
    <2>2. QED
        BY <2>1
<1>3. QED
    BY <1>2 DEF VarsCast, Cast

LEMMA StylesCastTyped ==
    ASSUME NEW cache \in [StyleFile -> Entry], NEW on
    PROVE  StylesCast(cache, on) \in Cast
<1>1. ASSUME NEW p \in Page PROVE StylesCast(cache, on)[p] \in Seq(Message)
    <2> DEFINE host == IF on THEN page[p].host ELSE None
               css == StylesFor(host, cache["global"].css, cache["github"].css)
               m == [kind |-> "styles", page |-> p, css |-> css]
    <2>1. cache["global"].css \in Text /\ cache["github"].css \in Text
        BY DEF StyleFile, Entry, Text
    <2>2. css \in Css
        BY <2>1, CssTyped
    <2>3. StylesCast(cache, on)[p] = IF css = NoCss THEN <<>> ELSE <<m>>
        BY DEF StylesCast
    <2> HIDE DEF css
    <2>4. m \in Message
        BY <2>2 DEF Message
    <2> HIDE DEF m
    <2>5. QED
        BY <2>3, <2>4, EmptySeq
<1>2. StylesCast(cache, on) = [p \in Page |-> StylesCast(cache, on)[p]]
    BY DEF StylesCast
<1>3. QED
    BY <1>1, <1>2 DEF Cast

LEMMA CastsTyped ==
    ASSUME pref \in Colours, NEW w, NEW v \in Nat, NEW b, NEW due, NEW on,
           NEW cache \in [StyleFile -> Entry]
    PROVE  /\ ObserverCasts(w, v) \in Seq(Cast)
           /\ StylesCasts(b, due, cache, on) \in Seq(Cast)
<1>1. ObserverCasts(w, v) \in Seq(Cast)
    <2>1. \A i \in DOMAIN Changed(v) : VarsCast(Prefixed(v, i)) \in Cast
        BY VarsCastTyped, PrefixedTyped
    <2>2. PICK n \in Nat : DOMAIN Changed(v) = 1..n
        BY ChangedIs, LenProperties
    <2>3. [i \in 1..n |-> VarsCast(Prefixed(v, i))] \in Seq(Cast)
        BY <2>1, <2>2, IsASeq
    <2>4. QED
        BY <2>2, <2>3, EmptySeq DEF ObserverCasts
<1>2. StylesCasts(b, due, cache, on) \in Seq(Cast)
    <2>1. PICK c \in Cast : c = StylesCast(cache, on)
        BY StylesCastTyped
    <2>2. <<c>> \in Seq(Cast) /\ <<>> \in Seq(Cast)
        BY EmptySeq
    <2>3. QED
        BY <2>1, <2>2 DEF StylesCasts
<1>3. QED
    BY <1>1, <1>2

\* What only the browser's own actions change.
Peers == <<gradient, pref, trail, page, child, inbox, bridge, actor, chrome>>

LEMMA Outside ==
    ASSUME Typed, left' \in [EventKind -> Nat], UNCHANGED Peers
    PROVE  Typed'
BY DEF Typed, Peers

LEMMA WritersTyped ==
    ASSUME Typed, NEW f \in Watched, Finish(f) \/ Writer(f)
    PROVE  Typed'
<1>1. left' = left \/ Spend({f}) \/ Spend({"disable"})
    BY DEF Finish, Writer, EndWrite, StartWrite, Disable
<1>2. left' \in [EventKind -> Nat]
    BY <1>1, SpendTyped DEF Typed
<1>3. QED
    BY <1>2, Outside DEF Finish, Writer, theme, Peers

LEMMA UserTyped ==
    ASSUME Typed, (\E h \in Host : EditBoost(h)) \/ (\E s \in Script : Toggle(s))
    PROVE  Typed'
<1>1. Spend({"user"}) \/ Spend({"toggle"})
    BY DEF EditBoost, Toggle
<1>2. left' \in [EventKind -> Nat]
    BY <1>1, SpendTyped DEF Typed
<1>3. UNCHANGED Peers
    BY DEF EditBoost, Toggle, UserBoosts, UserTurnsOff, theme, Peers
<1>4. QED
    BY <1>2, <1>3, Outside

LEMMA FreshTyped ==
    /\ Unset \in Colours /\ NoDocument \in Document /\ NewProcess \in Child
    /\ NoScript \in Bridge
<1>1. Unset \in Colours
    BY DEF Unset, Colours
<1>2. NoDocument \in Document /\ NewProcess \in Child
    BY <1>1, CssTyped DEF NoDocument, Document, NewProcess, Child
<1>3. NoEntry \in Entry
    BY DEF NoEntry, Entry
<1>4. NoScript \in Bridge
    BY <1>3 DEF NoScript, Bridge
<1>5. QED
    BY <1>1, <1>2, <1>4

LEMMA RestartTyped ==
    ASSUME Typed, Restart
    PROVE  Typed'
<1>1. left' \in [EventKind -> Nat]
    BY SpendTyped DEF Restart, Typed
<1>2. /\ trail' = [q \in Process |-> <<pref>>]
      /\ page' = [p \in Page |-> NoDocument]
      /\ child' = [q \in Process |-> NewProcess]
      /\ inbox' = [q \in Process |-> <<>>]
      /\ bridge' = [w \in Window |-> NoScript]
      /\ chrome' = [w \in Window |-> Unset]
      /\ actor' = FALSE
      /\ UNCHANGED <<gradient, pref>>
    BY DEF Restart, PagesRestart, BridgeRestart
<1>3. <<pref>> \in Seq(Colours)
    BY DEF Typed
<1>4. QED
    BY <1>1, <1>2, <1>3, FreshTyped, EmptySeq DEF Typed

(* What is left of the inboxes and the children when documents go.          *)
LEMMA WithoutTyped ==
    ASSUME Typed, NEW gone
    PROVE  /\ InboxWithout(gone) \in [Process -> Seq(Message)]
           /\ ChildWithout(gone) \in [Process -> Child]
<1>1. InboxWithout(gone) \in [Process -> Seq(Message)]
    BY PickedIs DEF InboxWithout, Typed
<1>2. ASSUME NEW q \in Process
      PROVE  [child[q] EXCEPT !.observed = IF @ \in gone THEN None ELSE @,
                              !.timer = IF @ \in gone THEN None ELSE @] \in Child
    <2>1. child[q] \in Child
        BY DEF Typed
    <2>2. QED
        BY <2>1 DEF Child
<1>3. QED
    BY <1>1, <1>2 DEF ChildWithout

(* A page reads one of the values its process has or is about to have.      *)
LEMMA TrailPart ==
    ASSUME NEW t \in Seq(Colours), NEW n \in DOMAIN t
    PROVE  t[n] \in Colours /\ SubSeq(t, n, Len(t)) \in Seq(Colours)
<1>1. Len(t) \in Nat /\ n \in 1..Len(t)
    BY LenProperties
<1>2. QED
    BY <1>1, ElementOfSeq, SubSeqProperties

LEMMA VisitTyped ==
    ASSUME Typed, NEW p \in Page, NEW h \in Host, Visit(p, h)
    PROVE  Typed'
<1>1. left' \in [EventKind -> Nat]
    BY SpendTyped DEF Visit, Load, Typed
<1>2. Home[h] \subseteq Process
    BY HomeAssumption
<1>3. PICK q \in Process : \E n \in DOMAIN trail[q] :
        /\ trail' = [trail EXCEPT ![q] = SubSeq(@, n, Len(@))]
        /\ page' = [page EXCEPT ![p] = Fresh(h, q, actor, n)]
        /\ child' = [ChildWithout({p}) EXCEPT ![q].hosts = @ \union {h}]
    BY <1>2 DEF Visit, Load
<1>4. PICK n \in DOMAIN trail[q] :
        /\ trail' = [trail EXCEPT ![q] = SubSeq(@, n, Len(@))]
        /\ page' = [page EXCEPT ![p] = Fresh(h, q, actor, n)]
        /\ child' = [ChildWithout({p}) EXCEPT ![q].hosts = @ \union {h}]
    BY <1>3
<1>5. trail[q] \in Seq(Colours) /\ trail' \in [Process -> Seq(Colours)]
    BY <1>4, TrailPart DEF Typed
<1>6. page' \in [Page -> Document]
    <2>1. Fresh(h, q, actor, n) \in Document
        <3>1. PICK v \in Colours : v = IF actor THEN trail[q][n] ELSE Unset
            BY <1>5, TrailPart, FreshTyped
        <3>2. PICK b \in BOOLEAN : b = (actor => n = Len(trail[q]))
            OBVIOUS
        <3>3. Fresh(h, q, actor, n) = [host |-> h, process |-> q, served |-> actor,
                                       asked |-> actor, settled |-> b, vars |-> v, css |-> NoCss]
            BY <3>1, <3>2 DEF Fresh
        <3>4. QED
            BY <3>3, CssTyped DEF Document, Typed
    <2>2. QED
        BY <1>4, <2>1 DEF Typed
<1>7. child' \in [Process -> Child]
    <2>1. PICK c \in [Process -> Child] : c = ChildWithout({p})
        BY WithoutTyped
    <2>2. child' = [c EXCEPT ![q] = [c[q] EXCEPT !.hosts = c[q].hosts \union {h}]]
        BY <1>4, <2>1
    <2>3. [c[q] EXCEPT !.hosts = c[q].hosts \union {h}] \in Child
        BY DEF Child
    <2>4. QED
        BY <2>2, <2>3
<1>8. inbox' \in [Process -> Seq(Message)]
    BY WithoutTyped DEF Visit, Load
<1>9. UNCHANGED <<gradient, pref, bridge, actor, chrome>>
    BY DEF Visit, Load
<1>10. QED
    BY <1>1, <1>5, <1>6, <1>7, <1>8, <1>9 DEF Typed

LEMMA CloseTyped ==
    ASSUME Typed, NEW w \in Window, Close(w)
    PROVE  Typed'
<1>1. left' \in [EventKind -> Nat]
    BY SpendTyped DEF Close, Typed
<1>2. PICK gone \in SUBSET Shown : Leave(gone)
    BY DEF Close
<1>3. page' \in [Page -> Document]
    BY <1>2, FreshTyped DEF Leave, Typed
<1>4. inbox' \in [Process -> Seq(Message)] /\ child' \in [Process -> Child]
    BY <1>2, WithoutTyped DEF Leave
<1>5. /\ bridge' = [bridge EXCEPT ![w] = NoScript]
      /\ chrome' = [chrome EXCEPT ![w] = Unset]
      /\ UNCHANGED <<gradient, pref, trail, actor>>
    BY <1>2 DEF Close, Leave
<1>6. QED
    BY <1>1, <1>3, <1>4, <1>5, FreshTyped DEF Typed

LEMMA AnswerTyped ==
    ASSUME Typed, FilesOK, NEW p \in Page, Content(Answer(p))
    PROVE  Typed'
<1> DEFINE m == [kind |-> "answer", page |-> p, css |-> ParentStyles(page[p].host)]
           o == page[p].process
<1>1. m \in Message
    BY FileParts DEF Message
<1>2. inbox' = [inbox EXCEPT ![o] = Append(@, m)]
    BY DEF Content, Answer
<1> HIDE DEF m, o
<1>3. inbox' \in [Process -> Seq(Message)]
    <2>1. o \in Process => Append(inbox[o], m) \in Seq(Message)
        BY <1>1, AppendProperties DEF Typed
    <2>2. QED
        BY <1>2, <2>1 DEF Typed
<1>4. page' \in [Page -> Document]
    <2>1. [page[p] EXCEPT !.asked = FALSE] \in Document
        BY DEF Typed, Document
    <2>2. page' = [page EXCEPT ![p] = [page[p] EXCEPT !.asked = FALSE]]
        BY DEF Content, Answer
    <2>3. QED
        BY <2>1, <2>2 DEF Typed
<1>5. UNCHANGED <<left, pref, trail, child, gradient, bridge, actor, chrome>>
    BY DEF Content, Answer
<1>6. QED
    BY <1>3, <1>4, <1>5 DEF Typed

(* A message as it comes out of an inbox.                                   *)
LEMMA FirstOut ==
    ASSUME Typed, NEW q \in Process, inbox[q] # <<>>
    PROVE  /\ Head(inbox[q]) \in Message /\ Tail(inbox[q]) \in Seq(Message)
           /\ inbox[q] = <<Head(inbox[q])>> \o Tail(inbox[q])
BY HeadThenTail DEF Typed

LEMMA MessageParts ==
    ASSUME NEW m \in Message
    PROVE  /\ m.page \in Page
           /\ m.kind = "vars" => m.vars \in Colours
           /\ m.kind # "vars" => m.css \in Css /\ m.kind \in {"styles", "answer"}
BY DEF Message

LEMMA ColouredTyped ==
    ASSUME NEW d \in Document, NEW values \in Colours
    PROVE  /\ Coloured(d, values) \in Document
           /\ Coloured(d, values).host = d.host /\ Coloured(d, values).process = d.process
           /\ Coloured(d, values).vars = WithVars(d.vars, values)
<1>1. PICK c \in Colours : c = WithVars(d.vars, values)
    BY DEF WithVars, Colours, Document
<1>2. Coloured(d, values) = [d EXCEPT !.vars = c, !.settled = TRUE]
    BY <1>1 DEF Coloured
<1>3. QED
    BY <1>1, <1>2 DEF Document

LEMMA DeliverTyped ==
    ASSUME Typed, NEW q \in Process, Content(Deliver(q))
    PROVE  Typed'
<1>1. inbox[q] # <<>> /\ inbox' = [inbox EXCEPT ![q] = Tail(@)]
    BY DEF Content, Deliver
<1>2. PICK m \in Message : m = Head(inbox[q])
    BY <1>1, FirstOut
<1>3. inbox' \in [Process -> Seq(Message)]
    BY <1>1, FirstOut DEF Typed
<1>4. page' \in [Page -> Document] /\ child' \in [Process -> Child]
    <2>1. CASE m.kind = "vars"
        <3>1. page' = [page EXCEPT ![m.page] = Coloured(@, m.vars)] /\ child' = child
            BY <1>2, <2>1 DEF Content, Deliver, ReceiveVars
        <3>2. Coloured(page[m.page], m.vars) \in Document
            BY <2>1, MessageParts, ColouredTyped DEF Typed
        <3>3. QED
            BY <3>1, <3>2 DEF Typed
    <2>2. CASE m.kind # "vars" /\ m.css = NoCss
        BY <1>2, <2>2 DEF Content, Deliver, ReceiveStyles, Typed
    <2>3. CASE m.kind # "vars" /\ m.css # NoCss
        <3>1. /\ page' = [page EXCEPT ![m.page].css = m.css]
              /\ child' = [child EXCEPT ![q].last = m.css,
                              ![q].observed = IF m.kind = "answer" THEN m.page ELSE @]
            BY <1>2, <2>3 DEF Content, Deliver, ReceiveStyles
        <3>2. m.css \in Css /\ m.page \in Page
            BY <2>3, MessageParts
        <3>3. [page[m.page] EXCEPT !.css = m.css] \in Document
            BY <3>2 DEF Typed, Document
        <3>4. page' = [page EXCEPT ![m.page] = [page[m.page] EXCEPT !.css = m.css]]
            BY <3>1
        <3> DEFINE o == IF m.kind = "answer" THEN m.page ELSE child[q].observed
                   c == [child[q] EXCEPT !.last = m.css, !.observed = o]
        <3>5. c \in Child
            BY <3>2 DEF Typed, Child
        <3>6. child' = [child EXCEPT ![q] = c]
            BY <3>1 DEF Typed
        <3> HIDE DEF c
        <3>7. QED
            BY <3>3, <3>4, <3>5, <3>6 DEF Typed
    <2>4. QED
        BY <2>1, <2>2, <2>3
<1>5. UNCHANGED <<left, pref, trail, gradient, bridge, actor, chrome>>
    BY DEF Content, Deliver
<1>6. QED
    BY <1>3, <1>4, <1>5 DEF Typed

LEMMA TimerTyped ==
    ASSUME Typed, NEW q \in Process, Content(Mutate(q)) \/ Content(Fire(q))
    PROVE  Typed'
<1>1. child[q] \in Child
    BY DEF Typed
<1>2. CASE Content(Mutate(q))
    <2>1. left' \in [EventKind -> Nat]
        BY <1>2, SpendTyped DEF Content, Mutate, Typed
    <2>2. [child[q] EXCEPT !.timer = child[q].observed] \in Child
        BY <1>1 DEF Child
    <2>3. child' = [child EXCEPT ![q] = [child[q] EXCEPT !.timer = child[q].observed]]
        BY <1>2 DEF Content, Mutate
    <2>4. QED
        BY <1>2, <2>1, <2>2, <2>3 DEF Content, Mutate, Typed
<1>3. CASE Content(Fire(q))
    <2>1. [child[q] EXCEPT !.timer = None] \in Child
        BY <1>1 DEF Child
    <2>2. child' = [child EXCEPT ![q] = [child[q] EXCEPT !.timer = None]]
        BY <1>3 DEF Content, Fire
    <2>3. page' \in [Page -> Document]
        <3> DEFINE p == child[q].timer
        <3>1. child[q].last \in Css
            BY <1>1 DEF Child
        <3>2. CASE page' = page
            BY <3>2 DEF Typed
        <3>3. CASE page' = [page EXCEPT ![p].css = child[q].last]
            <4>1. p \in Page => [page[p] EXCEPT !.css = child[q].last] \in Document
                BY <3>1 DEF Typed, Document
            <4>2. page' = [page EXCEPT ![p] = [page[p] EXCEPT !.css = child[q].last]]
                BY <3>3
            <4> HIDE DEF p
            <4>3. QED
                BY <4>1, <4>2 DEF Typed
        <3>4. QED
            BY <1>3, <3>2, <3>3 DEF Content, Fire
    <2>4. QED
        BY <1>3, <2>1, <2>2, <2>3 DEF Content, Fire, Typed
<1>4. QED
    BY <1>2, <1>3

(* The prefs, what the processes are about to have, and the chrome after    *)
(* applyJson.                                                               *)
LEMMA PassingTyped ==
    ASSUME pref \in Colours, NEW v \in Nat
    PROVE  Passing(v) \in Seq(Colours) /\ Len(Passing(v)) = Len(Changed(v))
<1>1. \A i \in DOMAIN Changed(v) : Prefixed(v, i) \in Colours
    BY PrefixedTyped
<1>2. PICK n \in Nat : DOMAIN Changed(v) = 1..n /\ n = Len(Changed(v))
    BY ChangedIs, LenProperties
<1>3. Passing(v) = [i \in 1..n |-> Prefixed(v, i)]
    BY <1>2 DEF Passing
<1>4. QED
    BY <1>1, <1>2, <1>3, IsASeq

LEMMA PrefsTyped ==
    ASSUME Typed, NEW w, NEW v \in Nat, WritePrefs(w, v)
    PROVE  /\ pref' \in Colours /\ chrome' \in [Window -> Colours]
           /\ trail' \in [Process -> Seq(Colours)]
<1>1. CASE v = 0
    BY <1>1 DEF WritePrefs, Typed
<1>2. CASE v # 0
    <2>1. /\ pref' = [k \in Key |-> v]
          /\ trail' = [q \in Process |-> trail[q] \o Passing(v)]
          /\ chrome' = [u \in Window |-> IF u \in Paints(w, v) THEN pref' ELSE chrome[u]]
        BY <1>2 DEF WritePrefs
    <2>2. pref' \in Colours
        BY <2>1 DEF Colours
    <2>3. \A q \in Process : trail[q] \o Passing(v) \in Seq(Colours)
        BY PassingTyped, ConcatProperties DEF Typed
    <2>4. QED
        BY <2>1, <2>2, <2>3 DEF Typed
<1>3. QED
    BY <1>1, <1>2

(* What the initial and the regular load of the styles record.              *)
LEMMA InitBridgeTyped ==
    ASSUME Typed, FilesOK, FilesOK', NEW w \in Window, NEW manager \in BOOLEAN,
           InitBridge(w, manager), left' \in [EventKind -> Nat]
    PROVE  Typed'
<1> DEFINE v == ReadJson
           b == [bridge[w] EXCEPT
                   !.step = "running",
                   !.ready = ~actor,
                   !.manager = manager,
                   !.jsonTime = IF v = 0 THEN 0 ELSE file'["palette"].time,
                   !.json = v,
                   !.cache = LoadAll]
           u == ReadJson'
           s == SyncUniversal(SyncTheme(Themes(b), v, FALSE), ShownHosts, u)
<1>1. v \in Nat /\ u \in Nat /\ file'["palette"].time \in Nat
    <2>1. file'["palette"] \in File
        BY DEF FilesOK, Watched
    <2>2. QED
        BY <2>1, Palette DEF ReadJson, File
<1>2. b \in Bridge
    <2>1. bridge[w] \in Bridge
        BY DEF Typed
    <2>2. PICK r \in BOOLEAN : r = ~actor
        OBVIOUS
    <2>3. PICK n \in Nat : n = IF v = 0 THEN 0 ELSE file'["palette"].time
        BY <1>1
    <2>4. PICK c \in [StyleFile -> Entry] : c = LoadAll
        BY LoadedTyped
    <2>5. b = [bridge[w] EXCEPT !.step = "running", !.ready = r, !.manager = manager,
                                !.jsonTime = n, !.json = v, !.cache = c]
        BY <2>2, <2>3, <2>4
    <2> HIDE DEF b, v
    <2>6. QED
        BY <1>1, <2>1, <2>5 DEF Bridge
<1>3. /\ UNCHANGED <<page, child>>
      /\ WritePrefs(w, v)
      /\ inbox' = Sent(ObserverCasts(w, v))
      /\ Commit(w, b, s)
      /\ actor' = TRUE
    BY DEF InitBridge
<1> HIDE DEF v, b, u
<1>4. Handled(s)
    <2>1. Handled(Themes(b))
        BY <1>2, ThemesTyped DEF Typed
    <2>2. Handled(SyncTheme(Themes(b), v, FALSE))
        BY <1>1, <2>1, SyncThemeTyped
    <2>3. QED
        BY <1>1, <2>2, SyncUniversalTyped, HostsShown DEF Typed
<1> HIDE DEF s
<1>5. bridge' \in [Window -> Bridge] /\ gradient' \in Nat
    BY <1>2, <1>3, <1>4, CommitTyped DEF Typed
<1>6. /\ pref' \in Colours /\ chrome' \in [Window -> Colours]
      /\ trail' \in [Process -> Seq(Colours)]
    BY <1>1, <1>3, PrefsTyped
<1>7. inbox' \in [Process -> Seq(Message)]
    <2>1. PICK c \in [StyleFile -> Entry] : c = LoadAll
        BY LoadedTyped
    <2>2. ObserverCasts(w, v) \in Seq(Cast)
        BY <1>1, <2>1, CastsTyped DEF Typed
    <2>3. QED
        BY <1>3, <2>2, SentTyped DEF Typed
<1>8. QED
    BY <1>3, <1>5, <1>6, <1>7 DEF Typed

LEMMA InitBoostsTyped ==
    ASSUME Typed, FilesOK, FilesOK', NEW w \in Window, NEW manager \in BOOLEAN,
           InitBoosts(w, manager), left' \in [EventKind -> Nat]
    PROVE  Typed'
<1>1. ReadJson \in Nat /\ bridge[w] \in Bridge
    BY Palette DEF Typed
<1>2. UNCHANGED <<gradient, page, child, inbox, actor>>
    BY DEF InitBoosts
<1>3. CASE manager
    <2>0. file'["palette"] \in File
        BY DEF FilesOK, Watched
    <2>1. PICK n \in Nat : n = IF ReadJson = 0 THEN 0 ELSE file'["palette"].time
        BY <2>0 DEF File
    <2>2. bridge' = [bridge EXCEPT ![w] =
                       [bridge[w] EXCEPT !.step = "running", !.manager = TRUE, !.jsonTime = n,
                                         !.json = ReadJson]]
          /\ WritePrefs(w, ReadJson)
        BY <1>3, <2>1 DEF InitBoosts
    <2>3. [bridge[w] EXCEPT !.step = "running", !.manager = TRUE, !.jsonTime = n,
                            !.json = ReadJson] \in Bridge
        BY <1>1 DEF Bridge
    <2>4. /\ pref' \in Colours /\ chrome' \in [Window -> Colours]
          /\ trail' \in [Process -> Seq(Colours)]
        BY <1>1, <2>2, PrefsTyped
    <2>5. QED
        BY <1>2, <2>2, <2>3, <2>4 DEF Typed
<1>4. CASE ~manager
    <2>1. /\ bridge' = [bridge EXCEPT ![w] = [bridge[w] EXCEPT !.step = "stopped"]]
          /\ UNCHANGED <<pref, trail, chrome>>
        BY <1>4 DEF InitBoosts
    <2>2. [bridge[w] EXCEPT !.step = "stopped"] \in Bridge
        BY <1>1 DEF Bridge
    <2>3. QED
        BY <1>2, <2>1, <2>2 DEF Typed
<1>5. QED
    BY <1>3, <1>4

LEMMA StartTyped ==
    ASSUME Typed, FilesOK, FilesOK', NEW w \in Window, Start(w)
    PROVE  Typed'
<1>1. left' \in [EventKind -> Nat]
    <2>1. \E read, events : Overtakes(read, events)
        BY DEF Start, Imports
    <2>2. QED
        BY <2>1, LateTyped DEF Typed
<1>2. \E manager \in BOOLEAN : InitBridge(w, manager) \/ InitBoosts(w, manager)
    BY DEF Start, Imports
<1>3. QED
    BY <1>1, <1>2, InitBridgeTyped, InitBoostsTyped

LEMMA PollTyped ==
    ASSUME Typed, FilesOK, FilesOK', NEW w \in Window, PollStep(w)
    PROVE  Typed'
<1>1. Overtakes(Stale(bridge[w]), {}) /\ Poll(w)
    BY DEF PollStep
<1>2. left' \in [EventKind -> Nat]
    BY <1>1, LateTyped DEF Typed
<1>3. PICK b \in Bridge : b = bridge[w]
    BY DEF Typed
<1> DEFINE json == file["palette"]
           due == json.there /\ json.time # b.jsonTime
           on == IF WebTime # b.webTime THEN WebOn ELSE b.on
           v == IF due THEN ReadJson ELSE 0
           cache == [f \in StyleFile |-> IF f \in Stale(b) THEN Loaded(f) ELSE b.cache[f]]
           after == [b EXCEPT !.on = on, !.webTime = WebTime, !.cache = cache,
                              !.jsonTime = IF due THEN json.time ELSE @,
                              !.json = IF due THEN v ELSE @]
           s == SyncTheme(Themes(b), v, FALSE)
<1>4. /\ b.webTime \in Nat /\ b.jsonTime \in Nat /\ b.json \in Nat /\ b.on \in BOOLEAN
      /\ b.cache \in [StyleFile -> Entry]
    BY DEF Bridge
<1>5. on \in BOOLEAN /\ v \in Nat /\ WebTime \in Nat /\ json.time \in Nat
    BY <1>4, FileParts, Palette DEF Watched
<1>6. cache \in [StyleFile -> Entry]
    BY <1>4, LoadedTyped
<1>7. after \in Bridge
    <2>1. PICK o \in BOOLEAN, n \in Nat, c \in [StyleFile -> Entry], j \in Nat, i \in Nat :
            /\ o = on /\ n = WebTime /\ c = cache
            /\ j = IF due THEN json.time ELSE b.jsonTime
            /\ i = IF due THEN v ELSE b.json
        BY <1>4, <1>5, <1>6
    <2>2. after = [b EXCEPT !.on = o, !.webTime = n, !.cache = c, !.jsonTime = j,
                           !.json = i]
        BY <2>1
    <2> HIDE DEF after
    <2>3. QED
        BY <2>2 DEF Bridge
<1>8. /\ UNCHANGED <<actor, page, child>>
      /\ WritePrefs(w, v)
      /\ Commit(w, after, s)
      /\ inbox' = Sent(StylesCasts(b, on # b.on, b.cache, on)
                         \o ObserverCasts(w, v)
                         \o StylesCasts(b, Stale(b) # {}, cache, on))
    BY <1>1, <1>3 DEF Poll
<1> HIDE DEF on, v, cache, after
<1>9. Handled(s)
    BY <1>5, ThemesTyped, SyncThemeTyped DEF Typed
<1> HIDE DEF s
<1>10. bridge' \in [Window -> Bridge] /\ gradient' \in Nat
    BY <1>7, <1>8, <1>9, CommitTyped DEF Typed
<1>11. /\ pref' \in Colours /\ chrome' \in [Window -> Colours]
       /\ trail' \in [Process -> Seq(Colours)]
    BY <1>5, <1>8, PrefsTyped
<1>12. inbox' \in [Process -> Seq(Message)]
    <2>1. PICK x, y, z \in Seq(Cast) :
            /\ x = StylesCasts(b, on # b.on, b.cache, on)
            /\ y = ObserverCasts(w, v)
            /\ z = StylesCasts(b, Stale(b) # {}, cache, on)
        BY <1>4, <1>5, <1>6, CastsTyped DEF Typed
    <2>2. x \o y \in Seq(Cast)
        BY ConcatLaws, Zenon DEF Closed
    <2>3. x \o y \o z \in Seq(Cast)
        BY <2>2, ConcatLaws, Zenon DEF Closed
    <2>4. QED
        BY <1>8, <2>1, <2>3, SentTyped DEF Typed
<1>13. QED
    BY <1>2, <1>8, <1>10, <1>11, <1>12 DEF Typed

LEMMA PollBoostsTyped ==
    ASSUME Typed, FilesOK, NEW w \in Window, PollBoosts(w)
    PROVE  Typed'
<1>1. ReadJson \in Nat /\ bridge[w] \in Bridge /\ file["palette"].time \in Nat
    BY Palette, FileParts DEF Typed, Watched
<1>2. [bridge[w] EXCEPT !.jsonTime = file["palette"].time, !.json = ReadJson] \in Bridge
    BY <1>1 DEF Bridge
<1>3. bridge' = [bridge EXCEPT ![w] = [bridge[w] EXCEPT !.jsonTime = file["palette"].time,
                                                        !.json = ReadJson]]
    BY DEF PollBoosts
<1>4. /\ pref' \in Colours /\ chrome' \in [Window -> Colours]
      /\ trail' \in [Process -> Seq(Colours)]
    BY <1>1, PrefsTyped DEF PollBoosts
<1>5. QED
    BY <1>2, <1>3, <1>4 DEF PollBoosts, Typed

LEMMA SlowTyped ==
    ASSUME Typed, FilesOK, NEW w \in Window, UniversalRound(w)
    PROVE  Typed'
<1>1. ReadJson \in Nat /\ bridge[w] \in Bridge
    BY Palette DEF Typed
<1>2. PICK s : /\ s = SyncUniversal(Themes(bridge[w]), ShownHosts, ReadJson)
               /\ Commit(w, bridge[w], s)
    BY DEF UniversalRound
<1>3. Handled(s)
    <2>1. Handled(Themes(bridge[w]))
        BY <1>1, ThemesTyped DEF Typed
    <2>2. QED
        BY <1>1, <1>2, <2>1, SyncUniversalTyped, HostsShown DEF Typed
<1>4. bridge' \in [Window -> Bridge] /\ gradient' \in Nat
    BY <1>1, <1>2, <1>3, CommitTyped DEF Typed
<1>5. QED
    BY <1>4 DEF UniversalRound, Typed

LEMMA OpenTyped ==
    ASSUME Typed, FilesOK, FilesOK', NEW w \in Window, Open(w)
    PROVE  Typed'
<1>1. left' \in [EventKind -> Nat]
    <2>1. PICK read : Overtakes(read, {"open"})
        BY DEF Open
    <2>2. QED
        BY <2>1, LateTyped DEF Typed
<1>2. bridge[w] \in Bridge /\ WebOn \in BOOLEAN /\ WebTime' \in Nat
    <2>1. file'["web"] \in File
        BY DEF FilesOK, Watched
    <2>2. QED
        BY <2>1, FileParts DEF Typed, WebTime, File
<1> DEFINE x == [bridge[w] EXCEPT !.kind = "bridge", !.step = "waiting",
                                  !.on = WebOn, !.webTime = WebTime']
           y == [bridge[w] EXCEPT !.kind = "boosts", !.step = "waiting"]
<1>3. x \in Bridge /\ y \in Bridge
    <2>1. PICK o \in BOOLEAN, n \in Nat : o = WebOn /\ n = WebTime'
        BY <1>2
    <2>2. x = [bridge[w] EXCEPT !.kind = "bridge", !.step = "waiting", !.on = o, !.webTime = n]
        BY <2>1
    <2> HIDE DEF x
    <2>3. QED
        BY <1>2, <2>2 DEF Bridge
<1>4. PICK z \in {x, y, bridge[w]} : bridge' = [bridge EXCEPT ![w] = z]
    BY DEF Open
<1> HIDE DEF x, y
<1>5. bridge' \in [Window -> Bridge]
    BY <1>2, <1>3, <1>4 DEF Typed
<1>6. QED
    BY <1>1, <1>5 DEF Open, Typed

LEMMA TypedNext ==
    ASSUME Inv, Typed, [Next]_vars
    PROVE  Typed'
<1>1. FilesOK /\ FilesOK'
    <2>1. Next => Inv'
        BY StepKeeps
    <2>2. UNCHANGED vars => FilesOK'
        BY DEF vars, Inv, FilesOK
    <2>3. QED
        BY <2>1, <2>2 DEF Inv
<1>2. CASE Restart
    BY <1>2, RestartTyped
<1>3. ASSUME NEW w \in Window, Open(w) \/ Start(w) \/ Round(w) \/ SlowRound(w)
      PROVE  Typed'
    BY <1>1, <1>3, OpenTyped, StartTyped, PollTyped, PollBoostsTyped, SlowTyped
    DEF Round, SlowRound
<1>4. ASSUME NEW w \in Window, Close(w) \/ StartModules(w) \/ EndImport(w)
      PROVE  Typed'
    BY <1>4, CloseTyped DEF StartModules, EndImport, theme, Typed
<1>5. ASSUME NEW q \in Process, Content(Deliver(q)) \/ Content(Mutate(q)) \/ Content(Fire(q))
      PROVE  Typed'
    BY <1>5, DeliverTyped, TimerTyped
<1>6. ASSUME NEW p \in Page, Content(Answer(p)) PROVE Typed'
    BY <1>1, <1>6, AnswerTyped
<1>7. ASSUME NEW p \in Page, NEW h \in Host, Visit(p, h) PROVE Typed'
    BY <1>7, VisitTyped
<1>8. CASE UNCHANGED vars
    BY <1>8 DEF vars, theme, Typed
<1>9. QED
    BY <1>2, <1>3, <1>4, <1>5, <1>6, <1>7, <1>8, WritersTyped, UserTyped DEF Next

LEMMA InitTyped == Init => Typed
<1>1. SUFFICES ASSUME Init PROVE Typed
    OBVIOUS
<1>2. left \in [EventKind -> Nat] /\ gradient = 0 /\ PagesInit /\ BridgeInit
    BY <1>1, ScenariosAssumption DEF Init
<1>3. <<Unset>> \in Seq(Colours)
    BY FreshTyped
<1>4. QED
    BY <1>2, <1>3, FreshTyped, EmptySeq DEF PagesInit, BridgeInit, Typed

LEMMA TypedAlways == Spec => []Typed
BY InitTyped, InvAlways, TypedNext, PTL DEF Spec

LEMMA TrailsIn == ASSUME NEW c \in Seq(Colours) PROVE Range(c) \subseteq Colours
BY ElementOfSeq, LenProperties DEF Range

LEMMA MessagesIn == ASSUME NEW c \in Seq(Message) PROVE Range(c) \subseteq Message
BY ElementOfSeq, LenProperties DEF Range

(***************************************************************************)
(* Every variable keeps its type: what the scripts read, broadcast and     *)
(* remember is of the shape the next handler takes for granted, whatever   *)
(* the files hold and in whatever order they are looked at.                *)
(***************************************************************************)
THEOREM TypeAlwaysOK == Spec => []TypeOK
<1>1. Inv /\ Typed /\ LoaderInv => TypeOK
    <2>1. SUFFICES ASSUME Inv, Typed, LoaderInv PROVE TypeOK
        OBVIOUS
    <2>2. FilesTypeOK /\ BoostsTypeOK
        BY <2>1 DEF Inv, FilesOK, Store, Typed, FilesTypeOK, BoostsTypeOK
    <2>3. PagesTypeOK
        BY <2>1, MessagesIn, TrailsIn DEF Typed, PagesTypeOK
    <2>4. BridgeTypeOK /\ LoaderTypeOK
        BY <2>1 DEF Typed, BridgeTypeOK, LoaderInv
    <2>5. QED
        BY <2>2, <2>3, <2>4 DEF TypeOK
<1>2. QED
    BY <1>1, InvAlways, TypedAlways, LoaderInvAlways, PTL

(***************************************************************************)
(* Colours of one palette, and of one that has been written.               *)
(***************************************************************************)
Even == {c \in Colours : \E v \in Nat : \A k \in Key : c[k] = v}
Whole == {c \in Colours : \E v \in Nat \ {0} : \A k \in Key : c[k] = v}

(* The colours a list of messages holds for page p, in their order.         *)
VarsFor(p) == [m \in Message |-> IF m.kind = "vars" /\ m.page = p THEN <<m.vars>> ELSE <<>>]
Told(p, box) == FlatMap(VarsFor(p), box)

(* The last of a list, if there is one, is whole.                           *)
Ends(t) == t # <<>> => t[Len(t)] \in Whole

LastIs(t, c) == t # <<>> /\ t[Len(t)] = c

(***************************************************************************)
(* What makes a page whole.  The prefs are of one palette between two      *)
(* steps, and every process has them or is about to; only the process that *)
(* shows a page is told of it; and what it still has to be told ends with  *)
(* a whole palette, or else the page has one already, unless it came       *)
(* between two prefs and was not told since.                               *)
(***************************************************************************)
Trailing == \A q \in Process : LastIs(trail[q], pref)
Housed == \A p \in Shown : page[p].process \in Process
Addressed == \A q \in Process, p \in Page : Told(p, inbox[q]) # <<>> => Shows(q, p)
EvenIf(p) == page[p].settled => page[p].vars \in Even
Awaits == \A p \in Shown : LET t == Told(p, inbox[page[p].process])
                           IN  Ends(t) /\ (t = <<>> => EvenIf(p))
Coherent == pref \in Even /\ Trailing /\ Housed /\ Addressed /\ Awaits

LEMMA VarsForTyped == \A p : VarsFor(p) \in [Message -> Seq(Colours)]
<1>1. SUFFICES ASSUME NEW p PROVE VarsFor(p) \in [Message -> Seq(Colours)]
    OBVIOUS
<1>2. ASSUME NEW m \in Message, m.kind = "vars" PROVE <<m.vars>> \in Seq(Colours)
    <2>1. m.vars \in Colours
        BY <1>2, MessageParts
    <2>2. QED
        BY <2>1
<1>3. QED
    BY <1>2, EmptySeq DEF VarsFor

LEMMA ToldTyped == \A p : \A c \in Seq(Message) : Told(p, c) \in Seq(Colours)
BY VarsForTyped, FlatMapTyped DEF Told

(* Lists that end whole, one behind the other, and without their first.     *)
LEMMA EndsJoin ==
    ASSUME NEW a \in Seq(Colours), NEW b \in Seq(Colours), Ends(a), Ends(b)
    PROVE  Ends(a \o b) /\ (a \o b = <<>> => a = <<>> /\ b = <<>>)
           /\ (a \o b # <<>> => a # <<>> \/ b # <<>>)
<1>1. Len(a) \in Nat /\ Len(b) \in Nat /\ (a = <<>> <=> Len(a) = 0) /\ (b = <<>> <=> Len(b) = 0)
    BY EmptySeq, LenProperties
<1>2. /\ a \o b \in Seq(Colours) /\ Len(a \o b) = Len(a) + Len(b)
      /\ \A i \in 1..(Len(a) + Len(b)) : (a \o b)[i] = IF i <= Len(a) THEN a[i] ELSE b[i - Len(a)]
    BY ConcatProperties
<1>3. a \o b = <<>> <=> Len(a) + Len(b) = 0
    BY <1>2, EmptySeq
<1>4. CASE b = <<>>
    BY <1>4, <1>1, <1>2, <1>3, ConcatEmptySeq DEF Ends
<1>5. CASE b # <<>>
    <2>1. PICK i \in 1..(Len(a) + Len(b)) : i = Len(a) + Len(b) /\ ~(i <= Len(a)) /\ i - Len(a) = Len(b)
        BY <1>1, <1>5
    <2>2. (a \o b)[Len(a \o b)] = b[Len(b)]
        BY <1>2, <2>1
    <2>3. QED
        BY <1>1, <1>3, <1>5, <2>2 DEF Ends
<1>6. QED
    BY <1>4, <1>5

LEMMA EndsRest ==
    ASSUME NEW x \in Colours, NEW b \in Seq(Colours), Ends(<<x>> \o b)
    PROVE  Ends(b) /\ (b = <<>> => x \in Whole)
<1> DEFINE a == <<x>>
<1>0. a \in Seq(Colours) /\ Len(a) = 1 /\ a[1] = x
    OBVIOUS
<1> HIDE DEF a
<1>1. Len(b) \in Nat /\ (b = <<>> <=> Len(b) = 0)
    BY EmptySeq, LenProperties
<1>2. /\ a \o b \in Seq(Colours) /\ Len(a \o b) = 1 + Len(b)
      /\ \A i \in 1..(1 + Len(b)) : (a \o b)[i] = IF i <= 1 THEN a[i] ELSE b[i - 1]
    <2>1. /\ a \o b \in Seq(Colours) /\ Len(a \o b) = Len(a) + Len(b)
          /\ \A i \in 1..(Len(a) + Len(b)) : (a \o b)[i] = IF i <= Len(a) THEN a[i] ELSE b[i - Len(a)]
        BY <1>0, ConcatProperties
    <2>2. QED
        BY <1>0, <2>1
<1>3. (a \o b)[Len(a \o b)] \in Whole
    <2>1. a \o b # <<>>
        BY <1>1, <1>2, EmptySeq
    <2>2. QED
        BY <2>1 DEF Ends, a
<1>4. CASE b = <<>>
    BY <1>0, <1>1, <1>2, <1>3, <1>4 DEF Ends
<1>5. CASE b # <<>>
    <2>1. PICK i \in 1..(1 + Len(b)) : i = 1 + Len(b) /\ ~(i <= 1) /\ i - 1 = Len(b)
        BY <1>1, <1>5
    <2>2. (a \o b)[Len(a \o b)] = b[Len(b)]
        BY <1>2, <2>1
    <2>3. QED
        BY <1>3, <1>5, <2>2 DEF Ends
<1>6. QED
    BY <1>4, <1>5

(* What a process is told of a page when one list follows the other.        *)
LEMMA ToldBoth ==
    ASSUME NEW p, NEW a \in Seq(Message), NEW b \in Seq(Message)
    PROVE  Told(p, a \o b) = Told(p, a) \o Told(p, b)
<1>1. PICK F \in [Message -> Seq(Colours)] : F = VarsFor(p)
    BY VarsForTyped
<1>2. FlatMap(F, a \o b) = FlatMap(F, a) \o FlatMap(F, b)
    BY FlatMapConcat
<1>3. QED
    BY <1>1, <1>2 DEF Told

LEMMA ToldRest ==
    ASSUME NEW p, NEW m \in Message, NEW b \in Seq(Message)
    PROVE  Told(p, <<m>> \o b) = VarsFor(p)[m] \o Told(p, b)
<1>1. PICK F \in [Message -> Seq(Colours)] : F = VarsFor(p)
    BY VarsForTyped
<1>2. FlatMap(F, <<m>> \o b) = F[m] \o FlatMap(F, b)
    BY FlatMapFirst
<1>3. QED
    BY <1>1, <1>2 DEF Told

LEMMA ToldLast ==
    ASSUME NEW p, NEW m \in Message, NEW b \in Seq(Message)
    PROVE  Told(p, Append(b, m)) = Told(p, b) \o VarsFor(p)[m]
<1>1. Append(b, m) = b \o <<m>>
    BY AppendIsConcat
<1>2. QED
    BY <1>1, VarsForTyped, FlatMapLast DEF Told

(* Of a page no message is for, nothing is told.                            *)
LEMMA Untold ==
    ASSUME NEW p, NEW c \in Seq(Message),
           \A m \in Range(c) : m.page # p \/ m.kind # "vars"
    PROVE  Told(p, c) = <<>>
<1> DEFINE N == {m \in Message : m.page # p \/ m.kind # "vars"}
<1>1. c \in Seq(N)
    <2>1. \A i \in 1..Len(c) : c[i] \in N
        BY ElementOfSeq, LenProperties DEF Range
    <2> HIDE DEF N
    <2>2. QED
        BY <2>1, IsASeq, LenProperties
<1>2. N \subseteq Message /\ \A m \in N : VarsFor(p)[m] = <<>>
    BY DEF VarsFor
<1> HIDE DEF N
<1>3. QED
    BY <1>1, <1>2, VarsForTyped, FlatMapNothing DEF Told

(* Of the messages of a process those for other pages than the gone are     *)
(* kept.                                                                    *)
Others(c, S, gone) == \A m \in Range(c) : m \in S <=> m.page \notin gone

LEMMA ToldKept ==
    ASSUME NEW gone, NEW r, NEW c \in Seq(Message), NEW S, Others(c, S, gone)
    PROVE  Told(r, Picked(c, S)) = IF r \in gone THEN <<>> ELSE Told(r, c)
<1>1. \A m \in Range(c) : m \in S <=> m.page \notin gone
    BY DEF Others
<1> DEFINE N == Range(c)
           F == Pick(N, S)
           G == VarsFor(r)
           H == [m \in N |-> IF r \in gone THEN <<>> ELSE VarsFor(r)[m]]
<1>2. N \subseteq Message /\ c \in Seq(N)
    <2>1. N \subseteq Message
        BY MessagesIn
    <2>2. \A i \in 1..Len(c) : c[i] \in N
        BY LenProperties DEF Range
    <2>3. QED
        BY <2>1, <2>2, IsASeq, LenProperties
<1>3. F \in [N -> Seq(Message)] /\ F \in [N -> Seq(N)]
    BY <1>2, PickTyped, WiderSeq
<1>4. G \in [Message -> Seq(Colours)] /\ H \in [N -> Seq(Colours)]
    BY <1>2, VarsForTyped, EmptySeq
<1>5. ASSUME NEW m \in N PROVE H[m] = FlatMap(G, F[m])
    <2>1. CASE m \in S
        <3>1. F[m] = <<m>> /\ m.page \notin gone
            BY <1>1, <2>1 DEF Pick
        <3>2. FlatMap(G, <<m>>) = G[m]
            BY <1>2, <1>4, FlatMapOne
        <3>3. r \in gone => VarsFor(r)[m] = <<>>
            BY <1>2, <3>1 DEF VarsFor
        <3>4. QED
            BY <3>1, <3>2, <3>3
    <2>2. CASE m \notin S
        <3>1. F[m] = <<>> /\ m.page \in gone
            BY <1>1, <2>2 DEF Pick
        <3>2. FlatMap(G, <<>>) = <<>>
            BY FlatMapEmpty
        <3>3. r \notin gone => VarsFor(r)[m] = <<>>
            BY <1>2, <3>1 DEF VarsFor
        <3>4. QED
            BY <3>1, <3>2, <3>3
    <2>3. QED
        BY <2>1, <2>2
<1>6. Picked(c, S) = FlatMap(F, c)
    BY <1>2, PickedIs
<1>7. FlatMap(G, FlatMap(F, c)) = FlatMap(H, c)
    <2>1. Chains(N, Message, Colours)
        BY FlatMapTwice, Zenon
    <2>2. Chained(N, F, G, H)
        BY <1>5 DEF Chained
    <2> HIDE DEF F, G, H, N
    <2>3. QED
        BY <1>2, <1>3, <1>4, <2>1, <2>2, Zenon DEF Chains
<1>8. FlatMap(H, c) = IF r \in gone THEN <<>> ELSE Told(r, c)
    <2>1. CASE r \in gone
        <3>1. \A m \in N : H[m] = <<>>
            BY <2>1
        <3> HIDE DEF H, N
        <3>2. FlatMap(H, c) = <<>>
            BY <1>2, <1>4, <3>1, FlatMapNothing
        <3>3. QED
            BY <2>1, <3>2
    <2>2. CASE r \notin gone
        <3>1. \A i \in DOMAIN c : H[c[i]] = VarsFor(r)[c[i]]
            BY <2>2 DEF Range
        <3>2. [k \in DOMAIN c |-> H[c[k]]] = [k \in DOMAIN c |-> VarsFor(r)[c[k]]]
            BY <3>1
        <3>3. FlatMap(H, c) = FlatMap(VarsFor(r), c)
            BY <3>2, Zenon DEF FlatMap
        <3>4. QED
            BY <2>2, <3>3 DEF Told
    <2>3. QED
        BY <2>1, <2>2
<1>9. QED
    BY <1>1, <1>6, <1>7, <1>8 DEF Told

(* Of the pages, taken in their order, only one has something.              *)
LEMMA OnlyPage ==
    ASSUME NEW p \in Page, NEW S, NEW H \in [Page -> Seq(S)],
           \A x \in Page : x # p => H[x] = <<>>
    PROVE  FlatMap(H, Order) = H[p]
<1>1. PICK n \in Nat : Page = 1..n
    BY PageIs
<1>0. PICK j, k \in Nat : j = p - 1 /\ k = n - p
    <2>1. p - 1 \in Nat /\ n - p \in Nat
        BY <1>1
    <2>2. QED
        BY <2>1
<1> DEFINE N == Page \ {p}
           a == [i \in 1..j |-> i]
           b == [i \in 1..k |-> p + i]
           o == <<p>>
<1>2. /\ a \in Seq(N) /\ Len(a) = p - 1 /\ a \in Seq(Page)
      /\ b \in Seq(N) /\ Len(b) = n - p /\ b \in Seq(Page)
      /\ o \in Seq(Page) /\ Len(o) = 1
    <2>1. o \in Seq(Page) /\ Len(o) = 1
        OBVIOUS
    <2>2. (\A i \in 1..j : i \in N) /\ (\A i \in 1..k : p + i \in N)
        BY <1>0, <1>1
    <2> HIDE DEF N, o
    <2>3. a \in Seq(N)
        BY <2>2, IsASeq
    <2>4. b \in Seq(N)
        <3>1. PICK f : f = b
            OBVIOUS
        <3>2. \A i \in 1..k : p + i \in N
            BY <2>2
        <3>3. b \in Seq(N)
            BY <3>2, IsASeq
        <3>4. QED
            BY <3>3
    <2>5. DOMAIN a = 1..j /\ DOMAIN b = 1..k
        OBVIOUS
    <2> HIDE DEF a, b
    <2>6. Len(a) = j /\ Len(b) = k
        BY <2>3, <2>4, <2>5, LenProperties
    <2>7. a \in Seq(Page) /\ b \in Seq(Page)
        <3>1. N \subseteq Page
            BY DEF N
        <3>2. QED
            BY <2>3, <2>4, <3>1, WiderSeq
    <2>8. QED
        BY <1>0, <2>1, <2>3, <2>4, <2>6, <2>7
<1>3. Order = (a \o o) \o b
    <2>1. /\ Order \in Seq(Page) /\ Len(Order) = n /\ \A i \in 1..n : Order[i] = i
        BY <1>1, OrderTyped, LenProperties DEF Order
    <2>2. (\A i \in 1..(p - 1) : a[i] = i) /\ (\A i \in 1..(n - p) : b[i] = p + i) /\ o[1] = p
        BY <1>0
    <2> HIDE DEF a, b, o
    <2>3. /\ a \o o \in Seq(Page) /\ Len(a \o o) = Len(a) + Len(o)
          /\ \A i \in 1..(Len(a) + Len(o)) : (a \o o)[i] = IF i <= Len(a) THEN a[i] ELSE o[i - Len(a)]
        BY <1>2, ConcatProperties
    <2>4. PICK c \in Seq(Page) : c = a \o o
        BY <2>3
    <2>5. Len(c) = p /\ \A i \in 1..p : c[i] = i
        <3>1. Len(a) + Len(o) = p /\ \A i \in 1..p : i <= Len(a) \/ i - Len(a) = 1
            BY <1>1, <1>2
        <3>2. \A i \in 1..p : c[i] = IF i <= Len(a) THEN a[i] ELSE o[i - Len(a)]
            BY <2>3, <2>4, <3>1
        <3>3. ASSUME NEW i \in 1..p PROVE c[i] = i
            <4>1. CASE i <= Len(a)
                <5>1. i \in 1..(p - 1)
                    BY <1>1, <1>2, <4>1
                <5>2. QED
                    BY <2>2, <3>2, <4>1, <5>1
            <4>2. CASE ~(i <= Len(a))
                <5>1. i - Len(a) = 1 /\ i = p
                    BY <1>1, <1>2, <3>1, <4>2
                <5>2. QED
                    BY <2>2, <3>2, <4>2, <5>1
            <4>3. QED
                BY <4>1, <4>2
        <3>4. QED
            BY <2>3, <2>4, <3>1, <3>3
    <2>6. /\ c \o b \in Seq(Page) /\ Len(c \o b) = Len(c) + Len(b)
          /\ \A i \in 1..(Len(c) + Len(b)) : (c \o b)[i] = IF i <= Len(c) THEN c[i] ELSE b[i - Len(c)]
        BY <1>2, ConcatProperties
    <2>7. Len(c \o b) = n
        BY <1>1, <1>2, <2>5, <2>6
    <2>8. ASSUME NEW i \in 1..n PROVE (c \o b)[i] = i
        <3>1. i \in 1..(Len(c) + Len(b))
            BY <1>1, <1>2, <2>5
        <3>2. CASE i <= Len(c)
            <4>1. i \in 1..p
                BY <1>1, <2>5, <3>2
            <4>2. QED
                BY <2>5, <2>6, <3>1, <3>2, <4>1
        <3>3. CASE ~(i <= Len(c))
            <4>1. PICK x \in 1..(n - p) : x = i - Len(c) /\ p + x = i
                <5>1. i - Len(c) \in 1..(n - p) /\ p + (i - Len(c)) = i
                    BY <1>1, <2>5, <3>3
                <5>2. QED
                    BY <5>1
            <4>2. QED
                BY <2>2, <2>6, <3>1, <3>3, <4>1
        <3>4. QED
            BY <3>2, <3>3
    <2>9. Order = c \o b
        BY <2>1, <2>6, <2>7, <2>8, SeqEqual
    <2>10. QED
        BY <2>4, <2>9
<1>4. FlatMap(H, a) = <<>> /\ FlatMap(H, b) = <<>>
    <2>1. N \subseteq Page /\ \A x \in N : H[x] = <<>>
        OBVIOUS
    <2> HIDE DEF N, a, b
    <2>2. QED
        BY <1>2, <2>1, FlatMapNothing
<1>5. FlatMap(H, o) = H[p]
    BY FlatMapOne
<1>6. H[p] \in Seq(S)
    OBVIOUS
<1> HIDE DEF N, a, b, o
<1>7. FlatMap(H, (a \o o) \o b) = FlatMap(H, a \o o) \o FlatMap(H, b)
      /\ FlatMap(H, a \o o) = FlatMap(H, a) \o FlatMap(H, o)
    <2>1. Splits(Page, S) /\ Closed(Page)
        BY FlatMapLaw, ConcatLaws, Zenon
    <2>2. QED
        BY <1>2, <2>1, Zenon DEF Splits, Closed
<1>8. <<>> \o H[p] = H[p] /\ H[p] \o <<>> = H[p]
    BY <1>6, ConcatEmptySeq
<1>9. QED
    BY <1>3, <1>4, <1>5, <1>7, <1>8, Zenon

(* Broadcasts that have each page's messages under that page.               *)
Proper == {c \in Cast : \A x \in Page : \A m \in Range(c[x]) : m.page = x}

LEMMA RowTold ==
    ASSUME NEW q, NEW p \in Page, NEW c \in Proper
    PROVE  Told(p, Row(q)[c]) = IF Shows(q, p) THEN Told(p, c[p]) ELSE <<>>
<1> DEFINE F == Piece(q, c)
           G == VarsFor(p)
           H == [x \in Page |-> Told(p, Piece(q, c)[x])]
<1>1. c \in Cast /\ F \in [Page -> Seq(Message)] /\ G \in [Message -> Seq(Colours)]
    BY RowTyped, VarsForTyped DEF Proper
<1>2. H \in [Page -> Seq(Colours)]
    <2>1. \A x \in Page : Told(p, F[x]) \in Seq(Colours)
        BY <1>1, ToldTyped
    <2>2. QED
        BY <2>1
<1>3. \A x \in Page : F[x] = IF Shows(q, x) THEN c[x] ELSE <<>>
    BY DEF Piece
<1>4. ASSUME NEW x \in Page, x # p PROVE H[x] = <<>>
    <2>1. c[x] \in Seq(Message) /\ \A m \in Range(c[x]) : m.page # p
        BY <1>1, <1>4 DEF Proper, Cast
    <2>2. Told(p, c[x]) = <<>> /\ Told(p, <<>>) = <<>>
        <3>1. Told(p, <<>>) = <<>>
            BY FlatMapEmpty DEF Told
        <3>2. QED
            BY <2>1, <3>1, Untold
    <2>3. QED
        BY <1>3, <2>2
<1>5. H[p] = IF Shows(q, p) THEN Told(p, c[p]) ELSE <<>>
    BY <1>3, FlatMapEmpty DEF Told
<1>6. Chained(Page, F, G, H)
    BY DEF Chained, Told
<1>7. Row(q)[c] = FlatMap(F, Order)
    BY <1>1 DEF Row
<1> HIDE DEF F, G, H
<1>8. FlatMap(G, FlatMap(F, Order)) = FlatMap(H, Order)
    <2>1. Chains(Page, Message, Colours)
        BY FlatMapTwice, Zenon
    <2>2. QED
        BY <1>1, <1>2, <1>6, <2>1, OrderTyped, Zenon DEF Chains
<1>9. FlatMap(H, Order) = H[p]
    BY <1>2, <1>4, OnlyPage
<1>10. QED
    BY <1>5, <1>7, <1>8, <1>9 DEF Told, G

LEMMA VarsTold ==
    ASSUME NEW values \in Colours
    PROVE  /\ VarsCast(values) \in Proper
           /\ \A p \in Page : Told(p, VarsCast(values)[p]) = <<values>>
<1>1. ASSUME NEW p \in Page
      PROVE  /\ \A m \in Range(VarsCast(values)[p]) : m.page = p
             /\ Told(p, VarsCast(values)[p]) = <<values>>
    <2>1. PICK m : m = [kind |-> "vars", page |-> p, vars |-> values]
        OBVIOUS
    <2>2. m \in Message /\ m.page = p /\ m.kind = "vars" /\ m.vars = values
        BY <2>1 DEF Message
    <2>3. VarsCast(values)[p] = <<m>>
        BY <2>1 DEF VarsCast
    <2>4. FlatMap(VarsFor(p), <<m>>) = VarsFor(p)[m]
        BY <2>2, VarsForTyped, FlatMapOne
    <2>5. VarsFor(p)[m] = <<values>>
        BY <2>2 DEF VarsFor
    <2>6. Range(<<m>>) = {m}
        BY DEF Range
    <2>7. QED
        BY <2>2, <2>3, <2>4, <2>5, <2>6 DEF Told
<1>2. QED
    BY <1>1, VarsCastTyped DEF Proper

LEMMA StylesTold ==
    ASSUME NEW cache \in [StyleFile -> Entry], NEW on
    PROVE  /\ StylesCast(cache, on) \in Proper
           /\ \A p \in Page : Told(p, StylesCast(cache, on)[p]) = <<>>
<1>1. PICK C \in Cast : C = StylesCast(cache, on)
    BY StylesCastTyped
<1>2. ASSUME NEW p \in Page
      PROVE  \A m \in Range(C[p]) : m.page = p /\ m.kind # "vars"
    <2> DEFINE host == IF on THEN page[p].host ELSE None
               css == StylesFor(host, cache["global"].css, cache["github"].css)
    <2>1. C[p] = IF css = NoCss THEN <<>>
                 ELSE <<[kind |-> "styles", page |-> p, css |-> css]>>
        BY <1>1 DEF StylesCast
    <2> HIDE DEF css
    <2>2. QED
        BY <2>1 DEF Range
<1>3. ASSUME NEW p \in Page PROVE Told(p, C[p]) = <<>>
    <2>1. C[p] \in Seq(Message)
        BY DEF Cast
    <2>2. QED
        BY <1>2, <2>1, Untold
<1>4. QED
    BY <1>1, <1>2, <1>3 DEF Proper

(* What a list of broadcasts tells process q of page p.                     *)
ToldBy(q, p) == [c \in Cast |-> Told(p, Row(q)[c])]

LEMMA ToldByTyped == \A q, p : ToldBy(q, p) \in [Cast -> Seq(Colours)]
<1>1. SUFFICES ASSUME NEW q, NEW p PROVE ToldBy(q, p) \in [Cast -> Seq(Colours)]
    OBVIOUS
<1>2. \A c \in Cast : Told(p, Row(q)[c]) \in Seq(Colours)
    BY RowTyped, ToldTyped
<1>3. QED
    BY <1>2 DEF ToldBy

LEMMA CastsTold ==
    ASSUME NEW q, NEW p, NEW casts \in Seq(Cast)
    PROVE  Told(p, FlatMap(Row(q), casts)) = FlatMap(ToldBy(q, p), casts)
<1>1. Chains(Cast, Message, Colours)
    BY FlatMapTwice, Zenon
<1>2. Chained(Cast, Row(q), VarsFor(p), ToldBy(q, p))
    BY DEF Chained, ToldBy, Told
<1>3. Row(q) \in [Cast -> Seq(Message)] /\ VarsFor(p) \in [Message -> Seq(Colours)]
      /\ ToldBy(q, p) \in [Cast -> Seq(Colours)]
    BY RowTyped, VarsForTyped, ToldByTyped
<1>4. QED
    BY <1>1, <1>2, <1>3, Zenon DEF Chains, Told

LEMMA StylesTellNothing ==
    ASSUME NEW q, NEW p \in Page, NEW b, NEW due, NEW on, NEW cache \in [StyleFile -> Entry]
    PROVE  FlatMap(ToldBy(q, p), StylesCasts(b, due, cache, on)) = <<>>
<1>1. PICK c \in Cast : c = StylesCast(cache, on)
    BY StylesCastTyped
<1>2. ToldBy(q, p)[c] = <<>>
    BY <1>1, StylesTold, RowTold DEF ToldBy
<1>3. FlatMap(ToldBy(q, p), <<c>>) = ToldBy(q, p)[c]
    <2>1. PICK F \in [Cast -> Seq(Colours)] : F = ToldBy(q, p)
        BY ToldByTyped
    <2>2. FlatMap(F, <<c>>) = F[c]
        BY FlatMapOne
    <2>3. QED
        BY <2>1, <2>2
<1>4. FlatMap(ToldBy(q, p), <<>>) = <<>>
    BY FlatMapEmpty
<1>5. QED
    BY <1>1, <1>2, <1>3, <1>4 DEF StylesCasts

LEMMA NoCacheTyped == [f \in StyleFile |-> NoEntry] \in [StyleFile -> Entry]
BY DEF NoEntry, Entry

(***************************************************************************)
(* The observers' broadcasts, one per changed pref, end with the one that  *)
(* finds every pref written, and go where the page is shown.               *)
(***************************************************************************)
LEMMA ObserversTell ==
    ASSUME pref \in Colours, NEW q, NEW p \in Page, NEW w, NEW v \in Nat
    PROVE  \E x \in Seq(Colours) :
             /\ x = FlatMap(ToldBy(q, p), ObserverCasts(w, v))
             /\ Ends(x)
             /\ x # <<>> => Shows(q, p)
<1>1. PICK casts \in Seq(Cast) : casts = ObserverCasts(w, v)
    BY NoCacheTyped, CastsTyped
<1>2. PICK F \in [Cast -> Seq(Colours)] : F = ToldBy(q, p)
    BY ToldByTyped
<1>3. FlatMap(F, casts) \in Seq(Colours)
    BY FlatMapTyped
<1>4. CASE casts = <<>>
    <2>1. FlatMap(F, casts) = <<>>
        BY <1>4, FlatMapEmpty
    <2>2. QED
        BY <1>1, <1>2, <1>3, <2>1 DEF Ends
<1>5. CASE casts # <<>>
    <2>1. /\ v # 0
          /\ casts = [i \in DOMAIN Changed(v) |-> VarsCast(Prefixed(v, i))]
        BY <1>1, <1>5 DEF ObserverCasts
    <2>2. PICK n \in Nat : n = Len(Changed(v)) /\ DOMAIN Changed(v) = 1..n
        BY ChangedIs, LenProperties
    <2>3. Len(casts) = n /\ \A i \in 1..n : casts[i] = VarsCast(Prefixed(v, i))
        BY <2>1, <2>2, LenProperties
    <2>4. \A i \in 1..n : casts[i] \in Proper
        BY <2>3, PrefixedTyped, VarsTold
    <2>5. CASE ~Shows(q, p)
        <3>1. casts \in Seq(Proper)
            BY <2>3, <2>4, IsASeq, LenProperties
        <3>2. Proper \subseteq Cast /\ \A c \in Proper : F[c] = <<>>
            BY <1>2, <2>5, RowTold DEF Proper, ToldBy
        <3>3. FlatMap(F, casts) = <<>>
            BY <3>1, <3>2, FlatMapNothing
        <3>4. QED
            BY <1>1, <1>2, <1>3, <3>3 DEF Ends
    <2>6. CASE Shows(q, p)
        <3>1. PICK r \in Seq(Cast), c \in Cast : casts = r \o <<c>> /\ c = casts[Len(casts)]
            BY <1>5, FrontAndLast
        <3>2. PICK values \in Colours : values = Prefixed(v, n)
            BY PrefixedTyped
        <3>3. values \in Whole
            BY <2>1, <2>2, <3>2, PrefixedTyped DEF Whole
        <3>4. n \in 1..n
            BY <1>5, <2>3, EmptySeq
        <3>5. c = VarsCast(values)
            BY <2>3, <3>1, <3>2, <3>4
        <3>6. F[c] = <<values>>
            BY <1>2, <2>6, <3>5, VarsTold, RowTold DEF ToldBy
        <3>7. FlatMap(F, casts) = FlatMap(F, r) \o <<values>>
            <4>1. FlatMap(F, r \o <<c>>) = FlatMap(F, r) \o F[c]
                BY FlatMapLast
            <4>2. QED
                BY <3>1, <3>6, <4>1
        <3>8. PICK x \in Seq(Colours) : x = FlatMap(F, r)
            BY FlatMapTyped
        <3>9. Ends(x \o <<values>>)
            <4>1. x \o <<values>> = Append(x, values) /\ Len(Append(x, values)) = Len(x) + 1
                  /\ Append(x, values)[Len(x) + 1] = values
                BY AppendIsConcat, AppendProperties
            <4>2. QED
                BY <3>3, <4>1 DEF Ends
        <3>10. QED
            BY <1>1, <1>2, <1>3, <2>6, <3>7, <3>8, <3>9
    <2>7. QED
        BY <2>5, <2>6
<1>6. QED
    BY <1>4, <1>5

LEMMA ShownIn ==
    ASSUME Typed, Housed, NEW p \in Shown
    PROVE  /\ p \in Page /\ page[p].host \in Host
           /\ page[p].process \in Process /\ Shows(page[p].process, p)
<1>1. p \in Page /\ page[p] \in Document /\ page[p].host # None
    BY DEF Shown, Typed
<1>2. page[p].host \in Host
    BY <1>1 DEF Document
<1>3. QED
    BY <1>1, <1>2 DEF Housed, Shows

(* A step that leaves the documents as they are and puts behind what a      *)
(* process will be told of its pages more that ends whole.                  *)
TellsMore(q, p) == \E x \in Seq(Colours) :
    /\ Told(p, inbox'[q]) = Told(p, inbox[q]) \o x
    /\ Ends(x)
    /\ x # <<>> => Shows(q, p)

Stays == \A p \in Page : /\ page'[p].host = page[p].host
                          /\ page'[p].process = page[p].process
                          /\ page'[p].settled = page[p].settled
                          /\ page'[p].vars = page[p].vars

LEMMA MoreTold ==
    ASSUME Typed, Housed, Addressed, Awaits, Stays,
           \A q \in Process, p \in Page : TellsMore(q, p)
    PROVE  Housed' /\ Addressed' /\ Awaits'
<1>1. \A q, p : Shows(q, p)' <=> Shows(q, p)
    BY DEF Shows, Shown, Stays
<1>2. Shown' = Shown
    BY DEF Shown, Stays
<1>3. \A q \in Process, p \in Page : Told(p, inbox[q]) \in Seq(Colours)
    BY ToldTyped DEF Typed
<1>4. ASSUME NEW q \in Process, NEW p \in Page, Told(p, inbox'[q]) # <<>>
      PROVE  Shows(q, p)'
    <2>1. PICK x \in Seq(Colours) : /\ Told(p, inbox'[q]) = Told(p, inbox[q]) \o x
                                    /\ x # <<>> => Shows(q, p)
        BY DEF TellsMore
    <2>2. <<>> \o <<>> = <<>>
        OBVIOUS
    <2>3. QED
        BY <1>1, <1>4, <2>1, <2>2 DEF Addressed
<1>5. ASSUME NEW p \in Shown'
      PROVE  LET t == Told(p, inbox'[page'[p].process])
             IN  Ends(t) /\ (t = <<>> => EvenIf(p)')
    <2>1. p \in Shown /\ p \in Page
        BY <1>2 DEF Shown
    <2>2. PICK q \in Process : q = page[p].process /\ q = page'[p].process
        BY <2>1, ShownIn DEF Stays
    <2>3. PICK t \in Seq(Colours) : t = Told(p, inbox[q])
        BY <1>3, <2>1
    <2>4. Ends(t) /\ (t = <<>> => EvenIf(p))
        BY <2>1, <2>2, <2>3 DEF Awaits
    <2>5. PICK x \in Seq(Colours) : Told(p, inbox'[q]) = t \o x /\ Ends(x)
        BY <2>1, <2>3 DEF TellsMore
    <2>6. Ends(t \o x) /\ (t \o x = <<>> => t = <<>>)
        BY <2>4, <2>5, EndsJoin
    <2>7. EvenIf(p) => EvenIf(p)'
        BY <2>1 DEF EvenIf, Stays
    <2>8. QED
        BY <2>2, <2>4, <2>5, <2>6, <2>7
<1>6. Addressed'
    BY <1>4 DEF Addressed
<1>7. Awaits'
    BY <1>5 DEF Awaits
<1>8. Housed'
    BY <1>2 DEF Housed, Stays, Shown
<1>9. QED
    BY <1>6, <1>7, <1>8

LEMMA SameTold ==
    ASSUME Typed, NEW q \in Process, NEW p \in Page, inbox'[q] = inbox[q]
    PROVE  TellsMore(q, p)
<1>1. PICK t \in Seq(Colours) : t = Told(p, inbox[q])
    BY ToldTyped DEF Typed
<1>2. t = t \o <<>> /\ <<>> \in Seq(Colours) /\ Ends(<<>>)
    BY ConcatEmptySeq, EmptySeq DEF Ends
<1>3. QED
    BY <1>1, <1>2 DEF TellsMore

(* A document in which only the styles change.                              *)
LEMMA OnlyCss ==
    ASSUME Typed, NEW p, NEW c, page' = [page EXCEPT ![p].css = c]
    PROVE  Stays /\ \A x \in Page : EvenIf(x)' <=> EvenIf(x)
<1>1. ASSUME NEW d \in Document
      PROVE  LET e == [d EXCEPT !.css = c]
             IN  /\ e.host = d.host /\ e.process = d.process
                 /\ e.settled = d.settled /\ e.vars = d.vars
    BY DEF Document
<1>2. \A x \in Page : page'[x] = page[x] \/ page'[x] = [page[x] EXCEPT !.css = c]
    BY DEF Typed
<1>3. Stays
    BY <1>1, <1>2 DEF Stays, Typed
<1>4. QED
    BY <1>3 DEF Stays, EvenIf

LEMMA QuietCoherent ==
    ASSUME Typed, Coherent, UNCHANGED <<pref, trail, inbox>>, Stays
    PROVE  Coherent'
BY SameTold, MoreTold DEF Coherent, Trailing

LEMMA AnswerCoherent ==
    ASSUME Typed, FilesOK, Coherent, NEW p \in Page, Content(Answer(p))
    PROVE  Coherent'
<1> DEFINE m == [kind |-> "answer", page |-> p, css |-> ParentStyles(page[p].host)]
           o == page[p].process
<1>1. m \in Message /\ m.kind = "answer"
    BY FileParts DEF Message
<1>2. /\ inbox' = [inbox EXCEPT ![o] = Append(@, m)]
      /\ page' = [page EXCEPT ![p].asked = FALSE]
      /\ UNCHANGED <<pref, trail>>
    BY DEF Content, Answer
<1> HIDE DEF m, o
<1>3. Stays
    BY <1>2 DEF Typed, Document, Stays
<1>4. ASSUME NEW q \in Process, NEW r \in Page PROVE TellsMore(q, r)
    <2>1. CASE q # o
        BY <1>2, <2>1, SameTold DEF Typed
    <2>2. CASE q = o
        <3>1. PICK b \in Seq(Message) : b = inbox[q] /\ inbox'[q] = Append(b, m)
            BY <1>2, <2>2 DEF Typed
        <3>2. Told(r, Append(b, m)) = Told(r, b) \o <<>>
            BY <1>1, ToldLast DEF VarsFor
        <3>3. QED
            BY <3>1, <3>2, EmptySeq DEF TellsMore, Ends
    <2>3. QED
        BY <2>1, <2>2
<1>5. QED
    BY <1>2, <1>3, <1>4, MoreTold DEF Coherent, Trailing

LEMMA TimerCoherent ==
    ASSUME Typed, Coherent, NEW q \in Process, Content(Mutate(q)) \/ Content(Fire(q))
    PROVE  Coherent'
<1>1. UNCHANGED <<pref, trail, inbox>>
    BY DEF Content, Mutate, Fire
<1>2. UNCHANGED page \/ \E p, c : page' = [page EXCEPT ![p].css = c]
    BY DEF Content, Mutate, Fire
<1>3. Stays
    BY <1>2, OnlyCss DEF Stays
<1>4. QED
    BY <1>1, <1>3, QuietCoherent

LEMMA RestartCoherent ==
    ASSUME Typed, Coherent, Restart
    PROVE  Coherent'
<1>1. /\ page' = [p \in Page |-> NoDocument]
      /\ inbox' = [q \in Process |-> <<>>]
      /\ trail' = [q \in Process |-> <<pref>>]
      /\ pref' = pref
    BY DEF Restart, PagesRestart
<1>2. Shown' = {}
    BY <1>1 DEF Shown, NoDocument
<1>3. \A q \in Process, p \in Page : Told(p, inbox'[q]) = <<>>
    BY <1>1, FlatMapEmpty DEF Told
<1>4. Housed' /\ Addressed' /\ Awaits'
    BY <1>2, <1>3 DEF Housed, Addressed, Awaits
<1>5. Trailing'
    BY <1>1 DEF Trailing, LastIs
<1>6. QED
    BY <1>1, <1>4, <1>5 DEF Coherent

(***************************************************************************)
(* Documents go, with what their processes would have been told of them,   *)
(* and new ones that are even, or came too early, may take their place.    *)
(***************************************************************************)
LEMMA GoneTold ==
    ASSUME Typed, NEW gone, NEW q \in Process, NEW x
    PROVE  Told(x, InboxWithout(gone)[q]) = IF x \in gone THEN <<>> ELSE Told(x, inbox[q])
<1>1. PICK c \in Seq(Message) : c = inbox[q]
    BY DEF Typed
<1>2. PICK S : S = {m \in Range(c) : m.page \notin gone}
    OBVIOUS
<1>3. InboxWithout(gone)[q] = Picked(c, S)
    BY <1>1, <1>2 DEF InboxWithout
<1>4. Others(c, S, gone)
    BY <1>2 DEF Others
<1>5. Told(x, Picked(c, S)) = IF x \in gone THEN <<>> ELSE Told(x, c)
    BY <1>4, ToldKept
<1>6. QED
    BY <1>1, <1>3, <1>5

LEMMA GoneCoherent ==
    ASSUME Typed, Housed, Addressed, Awaits, NEW gone,
           inbox' = InboxWithout(gone),
           \A x \in Page \ gone : page'[x] = page[x],
           \A x \in gone : page'[x].host # None => page'[x].process \in Process /\ EvenIf(x)'
    PROVE  Housed' /\ Addressed' /\ Awaits'
<1>1. \A q \in Process, x \in Page :
        Told(x, inbox'[q]) = IF x \in gone THEN <<>> ELSE Told(x, inbox[q])
    BY GoneTold
<1>2. Housed'
    BY DEF Housed, Shown
<1>3. \A q, x : x \in Page \ gone => (Shows(q, x)' <=> Shows(q, x))
    BY DEF Shows, Shown
<1>4. Addressed'
    BY <1>1, <1>3 DEF Addressed
<1>5. ASSUME NEW x \in Shown'
      PROVE  LET t == Told(x, inbox'[page'[x].process])
             IN  Ends(t) /\ (t = <<>> => EvenIf(x)')
    <2>1. PICK q \in Process : q = page'[x].process /\ x \in Page
        BY <1>2 DEF Housed, Shown
    <2>2. CASE x \in gone
        <3>1. Told(x, inbox'[q]) = <<>>
            BY <1>1, <2>1, <2>2
        <3>2. EvenIf(x)'
            BY <2>2 DEF Shown
        <3>3. QED
            BY <2>1, <3>1, <3>2 DEF Ends
    <2>3. CASE x \notin gone
        <3>1. page'[x] = page[x] /\ x \in Shown
            BY <2>1, <2>3 DEF Shown
        <3>2. EvenIf(x)' <=> EvenIf(x)
            BY <3>1 DEF EvenIf
        <3>3. Told(x, inbox'[q]) = Told(x, inbox[q])
            BY <1>1, <2>1, <2>3
        <3>4. QED
            BY <2>1, <3>1, <3>2, <3>3 DEF Awaits
    <2>4. QED
        BY <2>2, <2>3
<1>6. Awaits'
    BY <1>5 DEF Awaits
<1>7. QED
    BY <1>2, <1>4, <1>6

(* What is left of what a process is about to have ends as before.          *)
LEMMA TrailEnd ==
    ASSUME NEW t \in Seq(Colours), NEW c, LastIs(t, c), NEW n \in DOMAIN t
    PROVE  LastIs(SubSeq(t, n, Len(t)), c)
<1>1. PICK l \in Nat : l = Len(t) /\ n \in 1..l
    BY LenProperties
<1>2. \A i \in n..l : t[i] \in Colours
    BY <1>1, ElementOfSeq
<1>3. /\ SubSeq(t, n, l) \in Seq(Colours) /\ Len(SubSeq(t, n, l)) = l - n + 1
      /\ \A i \in 1..(l - n + 1) : SubSeq(t, n, l)[i] = t[n + i - 1]
    BY <1>1, <1>2, SubSeqProperties
<1>4. PICK k \in 1..(l - n + 1) : k = l - n + 1 /\ n + k - 1 = l
    <2>1. l - n + 1 \in 1..(l - n + 1) /\ n + (l - n + 1) - 1 = l
        BY <1>1
    <2>2. QED
        BY <2>1
<1>5. SubSeq(t, n, l) # <<>>
    BY <1>3, <1>4, EmptySeq
<1>6. QED
    BY <1>1, <1>3, <1>4, <1>5 DEF LastIs

LEMMA VisitCoherent ==
    ASSUME Typed, Coherent, NEW p \in Page, NEW h \in Host, Visit(p, h)
    PROVE  Coherent'
<1>1. Home[h] \subseteq Process
    BY HomeAssumption
<1>2. PICK q \in Process : \E n \in DOMAIN trail[q] :
        /\ trail' = [trail EXCEPT ![q] = SubSeq(@, n, Len(@))]
        /\ page' = [page EXCEPT ![p] = Fresh(h, q, actor, n)]
    BY <1>1 DEF Visit, Load
<1>3. PICK n \in DOMAIN trail[q] :
        /\ trail' = [trail EXCEPT ![q] = SubSeq(@, n, Len(@))]
        /\ page' = [page EXCEPT ![p] = Fresh(h, q, actor, n)]
    BY <1>2
<1>4. inbox' = InboxWithout({p}) /\ pref' = pref
    BY DEF Visit, Load
<1>5. Trailing'
    BY <1>3, <1>4, TrailEnd DEF Typed, Coherent, Trailing
<1>6. \A x \in Page \ {p} : page'[x] = page[x]
    BY <1>3 DEF Typed
<1>7. page'[p] = Fresh(h, q, actor, n)
    BY <1>3 DEF Typed
<1>8. EvenIf(p)'
    <2>1. Unset \in Even
        BY DEF Unset, Even, Colours
    <2>2. n = Len(trail[q]) => trail[q][n] \in Even
        BY DEF Coherent, Trailing, LastIs
    <2>3. PICK b, v : /\ b = (actor => n = Len(trail[q]))
                      /\ v = IF actor THEN trail[q][n] ELSE Unset
        OBVIOUS
    <2>4. page'[p].settled = b /\ page'[p].vars = v
        BY <1>7, <2>3 DEF Fresh
    <2>5. b => v \in Even
        BY <2>1, <2>2, <2>3
    <2>6. QED
        BY <2>4, <2>5 DEF EvenIf
<1>9. page'[p].process \in Process
    BY <1>7 DEF Fresh
<1>10. Housed' /\ Addressed' /\ Awaits'
    BY <1>4, <1>6, <1>8, <1>9, GoneCoherent DEF Coherent
<1>11. QED
    BY <1>4, <1>5, <1>10 DEF Coherent

LEMMA CloseCoherent ==
    ASSUME Typed, Coherent, NEW w \in Window, Close(w)
    PROVE  Coherent'
<1>1. PICK gone \in SUBSET Shown : Leave(gone)
    BY DEF Close
<1>2. inbox' = InboxWithout(gone) /\ UNCHANGED <<pref, trail>>
    BY <1>1 DEF Leave
<1>3. /\ \A x \in Page \ gone : page'[x] = page[x]
      /\ \A x \in gone : page'[x].host = None
    BY <1>1 DEF Leave, Shown, NoDocument
<1>4. Housed' /\ Addressed' /\ Awaits'
    BY <1>2, <1>3, GoneCoherent DEF Coherent
<1>5. QED
    BY <1>2, <1>4 DEF Coherent, Trailing

(***************************************************************************)
(* A delivered message takes the first of what the page is told to the     *)
(* page; if it was the last, it was whole and the page becomes so.         *)
(***************************************************************************)
LEMMA DeliverCoherent ==
    ASSUME Typed, Coherent, NEW q \in Process, Content(Deliver(q))
    PROVE  Coherent'
<1>1. inbox[q] # <<>> /\ inbox' = [inbox EXCEPT ![q] = Tail(@)] /\ UNCHANGED <<pref, trail>>
    BY DEF Content, Deliver
<1>2. PICK m \in Message, b \in Seq(Message) :
        m = Head(inbox[q]) /\ b = Tail(inbox[q]) /\ inbox[q] = <<m>> \o b
    BY <1>1, FirstOut
<1>3. inbox'[q] = b /\ \A o \in Process : o # q => inbox'[o] = inbox[o]
    BY <1>1, <1>2 DEF Typed
<1>4. \A x : Told(x, inbox[q]) = VarsFor(x)[m] \o Told(x, b)
    BY <1>2, ToldRest
<1>5. \A x \in Page : /\ page'[x].host = page[x].host /\ page'[x].process = page[x].process
                      /\ m.kind # "vars" \/ m.page # x => (EvenIf(x)' <=> EvenIf(x))
    <2>1. CASE m.kind = "vars"
        <3>1. page' = [page EXCEPT ![m.page] = Coloured(@, m.vars)]
            BY <1>2, <2>1 DEF Content, Deliver, ReceiveVars
        <3>2. \A x \in Page : page'[x] = IF x = m.page THEN Coloured(page[x], m.vars) ELSE page[x]
            BY <3>1 DEF Typed
        <3>3. \A x \in Page : page'[x].host = page[x].host /\ page'[x].process = page[x].process
            <4>1. PICK values \in Colours : values = m.vars
                BY <2>1, MessageParts
            <4>2. ASSUME NEW x \in Page
                  PROVE  page'[x].host = page[x].host /\ page'[x].process = page[x].process
                <5>1. PICK d \in Document : d = page[x]
                    BY DEF Typed
                <5>2. QED
                    BY <3>2, <4>1, <5>1, ColouredTyped
            <4>3. QED
                BY <4>2
        <3>4. \A x \in Page : m.page # x => (EvenIf(x)' <=> EvenIf(x))
            BY <3>2 DEF EvenIf
        <3>5. QED
            BY <2>1, <3>3, <3>4
    <2>2. CASE m.kind # "vars"
        <3>1. page' = page \/ \E c : page' = [page EXCEPT ![m.page].css = c]
            BY <1>2, <2>2 DEF Content, Deliver, ReceiveStyles
        <3>2. CASE page' = page
            <4>1. \A x \in Page : EvenIf(x)' <=> EvenIf(x)
                BY <3>2 DEF EvenIf
            <4>2. QED
                BY <3>2, <4>1
        <3>3. CASE \E c : page' = [page EXCEPT ![m.page].css = c]
            <4>1. Stays /\ \A x \in Page : EvenIf(x)' <=> EvenIf(x)
                BY <3>3, OnlyCss
            <4>2. QED
                BY <4>1 DEF Stays
        <3>4. QED
            BY <3>1, <3>2, <3>3
    <2>3. QED
        BY <2>1, <2>2
<1>6. m.kind = "vars" => page'[m.page].vars = WithVars(page[m.page].vars, m.vars)
    <2>1. m.page \in Page
        BY MessageParts
    <2>2. m.kind = "vars" => page' = [page EXCEPT ![m.page] = Coloured(@, m.vars)]
        BY <1>2 DEF Content, Deliver, ReceiveVars
    <2>3. QED
        BY <2>1, <2>2, MessageParts, ColouredTyped DEF Typed
<1>8. \A x : VarsFor(x)[m] = IF m.kind = "vars" /\ m.page = x THEN <<m.vars>> ELSE <<>>
    BY DEF VarsFor
<1>9. \A x : Told(x, b) \in Seq(Colours)
    BY ToldTyped
<1>10. ASSUME NEW x, m.kind # "vars" \/ m.page # x PROVE Told(x, inbox[q]) = Told(x, b)
    <2>1. <<>> \o Told(x, b) = Told(x, b)
        BY <1>9, ConcatEmptySeq
    <2>2. QED
        BY <1>4, <1>8, <1>10, <2>1
<1>11. ASSUME m.kind = "vars"
       PROVE  /\ m.vars \in Colours /\ m.page \in Page
              /\ Told(m.page, inbox[q]) = <<m.vars>> \o Told(m.page, b)
              /\ Shows(q, m.page)
    <2>1. m.vars \in Colours /\ m.page \in Page
        BY <1>11, MessageParts
    <2>2. Told(m.page, inbox[q]) = <<m.vars>> \o Told(m.page, b)
        BY <1>4, <1>8, <1>11
    <2>3. PICK t \in Seq(Colours), v \in Colours : t = Told(m.page, b) /\ v = m.vars
        BY <1>9, <2>1
    <2>4. <<v>> \o t # <<>>
        <3>1. <<v>> \in Seq(Colours) /\ <<v>> # <<>>
            OBVIOUS
        <3>2. QED
            BY <3>1, HeadOfFirst
    <2>5. QED
        BY <2>1, <2>2, <2>3, <2>4 DEF Coherent, Addressed
<1>12. Shown' = Shown /\ \A o, x : x \in Page => (Shows(o, x)' <=> Shows(o, x))
    BY <1>5 DEF Shows, Shown
<1>13. Addressed'
    <2>1. ASSUME NEW o \in Process, NEW x \in Page, Told(x, inbox'[o]) # <<>>
          PROVE  Shows(o, x)'
        <3>1. Told(x, inbox[o]) # <<>> \/ Shows(o, x)
            BY <1>3, <1>10, <1>11, <2>1
        <3>2. QED
            BY <1>12, <3>1 DEF Coherent, Addressed
    <2>2. QED
        BY <2>1 DEF Addressed
<1>14. ASSUME NEW x \in Shown'
       PROVE  LET t == Told(x, inbox'[page'[x].process])
              IN  Ends(t) /\ (t = <<>> => EvenIf(x)')
    <2>1. x \in Shown /\ x \in Page
        BY <1>12 DEF Shown
    <2>2. PICK o \in Process : o = page[x].process
        BY <2>1, ShownIn DEF Coherent
    <2>3. PICK t \in Seq(Colours) : t = Told(x, inbox[o])
        BY ToldTyped DEF Typed
    <2>4. Ends(t) /\ (t = <<>> => EvenIf(x))
        BY <2>1, <2>2, <2>3 DEF Coherent, Awaits
    <2>5. CASE m.kind # "vars" \/ m.page # x
        <3>1. Told(x, inbox'[o]) = t
            BY <1>3, <1>10, <2>3, <2>5
        <3>2. QED
            BY <1>5, <2>1, <2>2, <2>4, <2>5, <3>1
    <2>6. CASE m.kind = "vars" /\ m.page = x
        <3>1. o = q
            BY <1>11, <2>2, <2>6 DEF Shows
        <3>2. PICK u \in Seq(Colours) : u = Told(x, b)
            BY <1>9
        <3>3. t = <<m.vars>> \o u
            BY <1>11, <2>3, <2>6, <3>1, <3>2
        <3>4. Ends(u) /\ (u = <<>> => m.vars \in Whole)
            BY <1>11, <2>4, <2>6, <3>3, EndsRest
        <3>5. m.vars \in Whole => EvenIf(x)'
            <4>1. m.vars \in Whole => page'[x].vars \in Even
                BY <1>6, <2>1, <2>6 DEF WithVars, Whole, Even, Colours
            <4>2. QED
                BY <4>1 DEF EvenIf
        <3>6. QED
            BY <1>3, <1>5, <2>1, <2>2, <3>1, <3>2, <3>4, <3>5
    <2>7. QED
        BY <2>5, <2>6
<1>15. Awaits'
    BY <1>14 DEF Awaits
<1>16. Housed'
    BY <1>5, <1>12 DEF Coherent, Housed, Shown
<1>17. QED
    BY <1>1, <1>13, <1>15, <1>16 DEF Coherent, Trailing

(* The prefs as they are written one after the other end with all of them.  *)
LEMMA LastJoined ==
    ASSUME NEW a \in Seq(Colours), NEW b \in Seq(Colours), NEW c, LastIs(b, c)
    PROVE  LastIs(a \o b, c)
<1>1. PICK k, l \in Nat : k = Len(a) /\ l = Len(b) /\ l # 0
    BY EmptySeq, LenProperties DEF LastIs
<1>2. /\ a \o b \in Seq(Colours) /\ Len(a \o b) = k + l
      /\ \A i \in 1..(k + l) : (a \o b)[i] = IF i <= k THEN a[i] ELSE b[i - k]
    BY <1>1, ConcatProperties
<1>3. PICK i \in 1..(k + l) : i = k + l /\ ~(i <= k) /\ i - k = l
    BY <1>1
<1>4. a \o b # <<>> /\ (a \o b)[Len(a \o b)] = b[l]
    BY <1>1, <1>2, <1>3, EmptySeq
<1>5. QED
    BY <1>1, <1>4 DEF LastIs

LEMMA PrefsCoherent ==
    ASSUME Typed, Coherent, NEW w, NEW v \in Nat, WritePrefs(w, v)
    PROVE  pref' \in Even /\ Trailing'
<1>1. CASE v = 0
    BY <1>1 DEF WritePrefs, Coherent, Trailing
<1>2. CASE v # 0
    <2>1. /\ pref' = [k \in Key |-> v]
          /\ trail' = [q \in Process |-> trail[q] \o Passing(v)]
        BY <1>2 DEF WritePrefs
    <2>2. pref' \in Even
        BY <2>1 DEF Even, Colours
    <2>3. PICK n \in Nat, passing \in Seq(Colours) :
            /\ n = Len(Changed(v)) /\ passing = Passing(v) /\ Len(passing) = n
            /\ DOMAIN Changed(v) = 1..n
        BY PassingTyped, ChangedIs, LenProperties DEF Typed
    <2>4. CASE n = 0
        <3>1. {k \in Key : pref[k] # v} = {}
            <4>1. {Changed(v)[j] : j \in 1..n} = {}
                BY <2>4
            <4>2. QED
                BY <2>3, <4>1, ChangedIs
        <3>2. pref' = pref
            BY <2>1, <3>1 DEF Typed, Colours
        <3>3. passing = <<>>
            BY <2>3, <2>4, EmptySeq
        <3>4. trail' = trail
            <4>1. \A q \in Process : trail[q] \o passing = trail[q]
                BY <3>3, ConcatEmptySeq DEF Typed
            <4>2. QED
                BY <2>1, <2>3, <4>1 DEF Typed
        <3>5. QED
            BY <2>2, <3>2, <3>4 DEF Coherent, Trailing
    <2>5. CASE n # 0
        <3>1. PICK c \in Colours : c = Prefixed(v, n) /\ \A k \in Key : c[k] = v
            BY <2>3, PrefixedTyped DEF Typed
        <3>2. c = pref'
            BY <2>1, <3>1 DEF Colours
        <3>3. LastIs(passing, c)
            <4>1. n \in 1..n
                BY <2>5
            <4>2. passing[n] = c
                BY <2>3, <3>1, <4>1 DEF Passing
            <4>3. QED
                BY <2>3, <2>5, <4>2, EmptySeq DEF LastIs
        <3>4. \A q \in Process : LastIs(trail[q] \o passing, c)
            BY <3>3, LastJoined DEF Typed
        <3>5. QED
            BY <2>1, <2>2, <2>3, <3>2, <3>4 DEF Trailing
    <2>6. QED
        BY <2>4, <2>5
<1>3. QED
    BY <1>1, <1>2

(* A round's broadcasts: the styles before and after say nothing of colours.*)
LEMMA SentCoherent ==
    ASSUME Typed, Coherent, NEW w, NEW v \in Nat, WritePrefs(w, v), page' = page,
           NEW a \in Seq(Cast), NEW c \in Seq(Cast),
           \A q \in Process, p \in Page : /\ FlatMap(ToldBy(q, p), a) = <<>>
                                          /\ FlatMap(ToldBy(q, p), c) = <<>>,
           inbox' = Sent((a \o ObserverCasts(w, v)) \o c)
    PROVE  Coherent'
<1>1. PICK o \in Seq(Cast) : o = ObserverCasts(w, v)
    BY NoCacheTyped, CastsTyped DEF Typed
<1>2. PICK casts \in Seq(Cast) : casts = (a \o o) \o c
    BY ConcatProperties
<1>3. ASSUME NEW q \in Process, NEW p \in Page PROVE TellsMore(q, p)
    <2>1. PICK x \in Seq(Colours) : /\ x = FlatMap(ToldBy(q, p), o)
                                    /\ Ends(x) /\ (x # <<>> => Shows(q, p))
        BY <1>1, ObserversTell DEF Typed
    <2>2. FlatMap(ToldBy(q, p), casts) = x
        <3>1. PICK F \in [Cast -> Seq(Colours)] : F = ToldBy(q, p)
            BY ToldByTyped
        <3>2. FlatMap(F, (a \o o) \o c) = (FlatMap(F, a) \o FlatMap(F, o)) \o FlatMap(F, c)
            <4>1. Splits(Cast, Colours) /\ Closed(Cast)
                BY FlatMapLaw, ConcatLaws, Zenon
            <4>2. PICK d \in Seq(Cast) : d = a \o o
                BY <4>1, Zenon DEF Closed
            <4>3. FlatMap(F, d \o c) = FlatMap(F, d) \o FlatMap(F, c)
                BY <4>1, Zenon DEF Splits
            <4>4. FlatMap(F, a \o o) = FlatMap(F, a) \o FlatMap(F, o)
                BY <4>1, Zenon DEF Splits
            <4>5. QED
                BY <4>2, <4>3, <4>4, Zenon
        <3>3. FlatMap(F, a) = <<>> /\ FlatMap(F, c) = <<>> /\ FlatMap(F, o) = x
            BY <2>1, <3>1
        <3>4. <<>> \o x = x /\ x \o <<>> = x
            BY ConcatEmptySeq
        <3>5. QED
            BY <1>2, <3>1, <3>2, <3>3, <3>4
    <2>3. inbox'[q] = inbox[q] \o FlatMap(Row(q), casts)
        BY <1>1, <1>2, SentRows
    <2>4. PICK y \in Seq(Message) : y = FlatMap(Row(q), casts)
        BY RowTyped, FlatMapTyped
    <2>5. Told(p, inbox[q] \o y) = Told(p, inbox[q]) \o Told(p, y)
        BY ToldBoth DEF Typed
    <2>6. Told(p, y) = x
        BY <2>2, <2>4, CastsTold
    <2>7. QED
        BY <2>1, <2>3, <2>4, <2>5, <2>6 DEF TellsMore
<1>4. pref' \in Even /\ Trailing'
    BY PrefsCoherent
<1>5. Stays
    BY DEF Stays
<1>6. QED
    BY <1>3, <1>4, <1>5, MoreTold DEF Coherent

LEMMA InitBridgeCoherent ==
    ASSUME Typed, FilesOK, Coherent, NEW w \in Window, NEW manager, InitBridge(w, manager)
    PROVE  Coherent'
<1>1. ReadJson \in Nat
    BY Palette
<1>2. WritePrefs(w, ReadJson) /\ page' = page /\ inbox' = Sent(ObserverCasts(w, ReadJson))
    BY DEF InitBridge
<1>3. PICK o \in Seq(Cast) : o = ObserverCasts(w, ReadJson)
    BY <1>1, NoCacheTyped, CastsTyped DEF Typed
<1>4. (<<>> \o o) \o <<>> = o /\ <<>> \in Seq(Cast)
    BY ConcatEmptySeq, EmptySeq
<1>5. \A q, p : FlatMap(ToldBy(q, p), <<>>) = <<>>
    BY FlatMapEmpty
<1>6. QED
    BY <1>1, <1>2, <1>3, <1>4, <1>5, SentCoherent

LEMMA PollCoherent ==
    ASSUME Typed, FilesOK, FilesOK', Coherent, NEW w \in Window, Poll(w)
    PROVE  Coherent'
<1>1. PICK b \in Bridge : b = bridge[w]
    BY DEF Typed
<1> DEFINE json == file["palette"]
           due == json.there /\ json.time # b.jsonTime
           on == IF WebTime # b.webTime THEN WebOn ELSE b.on
           v == IF due THEN ReadJson ELSE 0
           cache == [f \in StyleFile |-> IF f \in Stale(b) THEN Loaded(f) ELSE b.cache[f]]
           a == StylesCasts(b, on # b.on, b.cache, on)
           c == StylesCasts(b, Stale(b) # {}, cache, on)
<1>2. /\ WritePrefs(w, v) /\ page' = page
      /\ inbox' = Sent((a \o ObserverCasts(w, v)) \o c)
    BY <1>1 DEF Poll
<1>3. v \in Nat
    BY Palette
<1>4. cache \in [StyleFile -> Entry] /\ b.cache \in [StyleFile -> Entry]
    BY <1>1, LoadedTyped DEF Bridge
<1> HIDE DEF v, cache, on
<1>5. a \in Seq(Cast) /\ c \in Seq(Cast)
    BY <1>3, <1>4, CastsTyped DEF Typed
<1>6. \A q \in Process, p \in Page : /\ FlatMap(ToldBy(q, p), a) = <<>>
                                     /\ FlatMap(ToldBy(q, p), c) = <<>>
    BY <1>4, StylesTellNothing
<1> HIDE DEF a, c
<1>7. QED
    BY <1>2, <1>3, <1>5, <1>6, SentCoherent

LEMMA BoostsCoherent ==
    ASSUME Typed, FilesOK, Coherent, NEW w \in Window,
           PollBoosts(w) \/ \E manager \in BOOLEAN : InitBoosts(w, manager)
    PROVE  Coherent'
<1>1. ReadJson \in Nat
    BY Palette
<1>2. WritePrefs(w, ReadJson) \/ UNCHANGED <<pref, trail>>
    BY DEF PollBoosts, InitBoosts
<1>3. pref' \in Even /\ Trailing'
    BY <1>1, <1>2, PrefsCoherent DEF Coherent, Trailing
<1>4. Stays /\ inbox' = inbox
    BY DEF PollBoosts, InitBoosts, Stays
<1>5. Housed' /\ Addressed' /\ Awaits'
    BY <1>4, SameTold, MoreTold DEF Coherent
<1>6. QED
    BY <1>3, <1>5 DEF Coherent

LEMMA CoherentNext ==
    ASSUME Inv, Typed, Coherent, [Next]_vars
    PROVE  Coherent'
<1>1. FilesOK /\ FilesOK'
    <2>1. Next => Inv'
        BY StepKeeps
    <2>2. UNCHANGED vars => FilesOK'
        BY DEF vars, Inv, FilesOK
    <2>3. QED
        BY <2>1, <2>2 DEF Inv
<1>2. CASE UNCHANGED <<pref, trail, page, inbox>>
    BY <1>2, QuietCoherent DEF Stays
<1>3. ASSUME NEW w \in Window, Start(w) PROVE Coherent'
    BY <1>1, <1>3, InitBridgeCoherent, BoostsCoherent DEF Start, Imports
<1>4. ASSUME NEW w \in Window, Round(w) PROVE Coherent'
    BY <1>1, <1>4, PollCoherent, BoostsCoherent DEF Round, PollStep
<1>5. ASSUME NEW q \in Process, Content(Deliver(q)) \/ Content(Mutate(q)) \/ Content(Fire(q))
      PROVE  Coherent'
    BY <1>5, DeliverCoherent, TimerCoherent
<1>6. ASSUME NEW p \in Page, Content(Answer(p)) PROVE Coherent'
    BY <1>1, <1>6, AnswerCoherent
<1>7. ASSUME NEW p \in Page, NEW h \in Host, Visit(p, h) PROVE Coherent'
    BY <1>7, VisitCoherent
<1>8. ASSUME NEW w \in Window, Open(w) \/ SlowRound(w) \/ StartModules(w) \/ EndImport(w)
      PROVE  UNCHANGED <<pref, trail, page, inbox>>
    BY <1>8 DEF Open, SlowRound, UniversalRound, StartModules, EndImport, theme
<1>9. ASSUME NEW f \in Watched, Finish(f) \/ Writer(f) PROVE UNCHANGED <<pref, trail, page, inbox>>
    BY <1>9 DEF Finish, Writer, theme
<1>10. ASSUME NEW h \in Host, EditBoost(h) PROVE UNCHANGED <<pref, trail, page, inbox>>
    BY <1>10 DEF EditBoost
<1>11. ASSUME NEW s \in Script, Toggle(s) PROVE UNCHANGED <<pref, trail, page, inbox>>
    BY <1>11 DEF Toggle, theme
<1>12. UNCHANGED vars => UNCHANGED <<pref, trail, page, inbox>>
    BY DEF vars, theme
<1>13. ASSUME NEW w \in Window, Close(w) PROVE Coherent'
    BY <1>13, CloseCoherent
<1>14. QED
    BY <1>2, <1>3, <1>4, <1>5, <1>6, <1>7, <1>8, <1>9, <1>10, <1>11, <1>12, <1>13,
       RestartCoherent
    DEF Next

LEMMA InitCoherent == Init => Coherent
<1>1. SUFFICES ASSUME Init PROVE Coherent
    OBVIOUS
<1>2. PagesInit
    BY <1>1 DEF Init
<1>3. pref \in Even
    BY <1>2 DEF PagesInit, Unset, Even, Colours
<1>4. Shown = {} /\ \A q \in Process, p \in Page : Told(p, inbox[q]) = <<>>
    BY <1>2, FlatMapEmpty DEF PagesInit, Shown, NoDocument, Told
<1>5. Trailing
    BY <1>2 DEF PagesInit, Trailing, LastIs
<1>6. QED
    BY <1>3, <1>4, <1>5 DEF Coherent, Housed, Addressed, Awaits

(***************************************************************************)
(* A page no message is on its way to has colours of one palette, however  *)
(* many prefs a palette changes, whichever window writes them, and however *)
(* loads, closings and deliveries fall between the broadcasts and between  *)
(* the prefs' arrivals in its process: but for a page that read them in    *)
(* the middle and has not been told since.                                 *)
(***************************************************************************)
THEOREM PageAlwaysWhole == Spec => []PageWhole
<1>1. Typed /\ Coherent => PageWhole
    <2>1. SUFFICES ASSUME Typed, Coherent, NEW p \in Shown, page[p].settled,
                          \A m \in Range(inbox[page[p].process]) : m.page # p,
                          NEW k \in Key, NEW l \in Key
                   PROVE  page[p].vars[k] = page[p].vars[l]
        BY DEF PageWhole
    <2>2. PICK q \in Process : q = page[p].process
        BY <2>1, ShownIn DEF Coherent
    <2>3. inbox[q] \in Seq(Message)
        BY <2>1 DEF Typed
    <2>4. Told(p, inbox[q]) = <<>>
        BY <2>1, <2>2, <2>3, Untold
    <2>5. page[p].vars \in Even
        BY <2>1, <2>2, <2>4 DEF Coherent, Awaits, EvenIf
    <2>6. QED
        BY <2>5 DEF Even
<1>2. QED
    BY <1>1, InvAlways, TypedAlways, InitCoherent, CoherentNext, PTL DEF Spec
=============================================================================

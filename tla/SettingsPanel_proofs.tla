------------------------ MODULE SettingsPanel_proofs ------------------------
(***************************************************************************)
(* What a page of the settings panel shows and what it has stored when it  *)
(* comes to rest, for any controls, values and users.                      *)
(***************************************************************************)
EXTENDS SettingsPanel, TLAPS

LEMMA PageIsPage == \A s \in Slots : PageOf(s) \in Pages
    BY DEF Slots, Pages, PageOf

LEMMA NoEditIsNone == NoEdit \notin Edit
    BY PanelAssumption DEF Edit

LEMMA UserType == \A u \in Users : u.keys \subseteq Key /\ u.waits \in BOOLEAN
    BY PanelAssumption

-----------------------------------------------------------------------------
(* An edit on its way through slot s is one of the user's, for that slot.   *)
Own(e, s) == e = NoEdit \/ (e \in Edit /\ SlotOf[e.key] = s /\ e.key \in user.keys)

ProcsOK ==
    /\ Own(timer, "theme")
    /\ \A s \in Slots :
         /\ Own(proc[s].edit, s) /\ Own(proc[s].next, s)
         /\ proc[s].step = "idle" => proc[s] = IdleProc
         /\ proc[s].step # "idle" => proc[s].edit # NoEdit

Listings == {<<>>} \cup UNION {[KeysOf(g) -> Value] : g \in Pages}

LEMMA ListingsHold == <<>> \in Listings /\ \A g \in Pages : [KeysOf(g) -> Value] \subseteq Listings
    BY DEF Listings

ReadingsOK ==
    /\ reading \in [Pages -> [step : {"idle", "started", "read"},
                              got : Listings, again : BOOLEAN]]
    /\ \A g \in Pages :
         /\ reading[g].step = "idle" => reading[g] = NotReading
         /\ reading[g].step = "read" => reading[g].got \in [KeysOf(g) -> Value]

(* What a reading of page g holds at each of its steps.                     *)
Sound(r, g) ==
    /\ r.step = "idle" => r = NotReading
    /\ r.step = "read" => r.got \in [KeysOf(g) -> Value]
    /\ r.again => r.step # "idle"

WellFormed == TypeOK /\ ProcsOK /\ ReadingsOK

LEMMA RunType ==
    ASSUME WellFormed, NEW s \in Slots, NEW e, Own(e, s), e # NoEdit, Run(s, e),
           UNCHANGED user
    PROVE  /\ proc' \in [Slots -> [step : {"idle", "running", "ok", "failed"},
                                   edit : Edit \cup {NoEdit}, next : Edit \cup {NoEdit}]]
           /\ \A t \in Slots :
                /\ Own(proc[t].edit, t)' /\ Own(proc[t].next, t)'
                /\ proc'[t].step = "idle" => proc'[t] = IdleProc
                /\ proc'[t].step # "idle" => proc'[t].edit # NoEdit
<1>1. e \in Edit
    BY DEF Own
<1>2. proc'[s] = IF proc[s] = IdleProc THEN Running(e) ELSE [proc[s] EXCEPT !.next = e]
    BY DEF Run, WellFormed, TypeOK
<1>3. \A t \in Slots : t # s => proc'[t] = proc[t]
    BY DEF Run, WellFormed, TypeOK
<1>4. proc'[s] \in [step : {"idle", "running", "ok", "failed"},
                    edit : Edit \cup {NoEdit}, next : Edit \cup {NoEdit}]
    BY <1>1, <1>2 DEF WellFormed, TypeOK, Running, IdleProc
<1>5. /\ Own(proc[s].edit, s)' /\ Own(proc[s].next, s)'
      /\ proc'[s].step = "idle" => proc'[s] = IdleProc
      /\ proc'[s].step # "idle" => proc'[s].edit # NoEdit
    <2>1. CASE proc[s] = IdleProc
        <3>1. proc'[s] = [step |-> "running", edit |-> e, next |-> NoEdit]
            BY <1>2, <2>1 DEF Running, IdleProc
        <3>2. QED
            BY <3>1 DEF Own
    <2>2. CASE proc[s] # IdleProc
        <3>1. proc'[s] = [proc[s] EXCEPT !.next = e] /\ proc[s].step # "idle"
            BY <1>2, <2>2 DEF WellFormed, ProcsOK
        <3>2. /\ proc'[s].step = proc[s].step /\ proc'[s].edit = proc[s].edit
              /\ proc'[s].next = e
            BY <3>1 DEF WellFormed, TypeOK
        <3>3. QED
            BY <3>1, <3>2 DEF WellFormed, ProcsOK, Own
    <2>3. QED
        BY <2>1, <2>2
<1>6. QED
    BY <1>3, <1>4, <1>5 DEF Run, WellFormed, TypeOK, ProcsOK, Own

LEMMA EndedType ==
    ASSUME WellFormed, NEW s \in Slots
    PROVE  /\ Ended(s) \in [step : {"idle", "running"}, edit : Edit \cup {NoEdit},
                            next : {NoEdit}]
           /\ Own(Ended(s).edit, s)
           /\ Ended(s).step = "idle" <=> Ended(s) = IdleProc
           /\ Ended(s).step = "running" => Ended(s).edit = proc[s].next /\ proc[s].next # NoEdit
           /\ proc[s].next = NoEdit => Ended(s) = IdleProc
<1>1. CASE proc[s].next = NoEdit
    BY <1>1 DEF Ended, IdleProc, Own
<1>2. CASE proc[s].next # NoEdit
    <2>1. Ended(s) = [step |-> "running", edit |-> proc[s].next, next |-> NoEdit]
        BY <1>2 DEF Ended, Running, IdleProc
    <2>2. Own(proc[s].next, s)
        BY DEF WellFormed, ProcsOK
    <2>3. QED
        BY <1>2, <2>1, <2>2 DEF Own, IdleProc
<1>3. QED
    BY <1>1, <1>2

LEMMA RefetchType ==
    ASSUME WellFormed, NEW gs, Refetch(gs)
    PROVE  ReadingsOK' /\ loading' \in [Pages -> BOOLEAN]
           /\ \A g \in Pages : /\ g \notin gs => reading'[g] = reading[g]
                               /\ g \in gs => \/ reading[g] = NotReading /\ reading'[g] = Reading
                                              \/ /\ reading[g] # NotReading
                                                 /\ reading'[g].step = reading[g].step
                                                 /\ reading'[g].got = reading[g].got
                                                 /\ reading'[g].again
                               /\ reading'[g].again => reading'[g].step # "idle"
<1>1. loading' \in [Pages -> BOOLEAN]
    BY DEF Refetch, WellFormed, TypeOK
<1>2. \A g \in Pages : g \notin gs => reading'[g] = reading[g]
    BY DEF Refetch
<1>3. \A g \in Pages : g \in gs /\ reading[g] = NotReading => reading'[g] = Reading
    BY DEF Refetch
<1>4. ASSUME NEW g \in Pages, g \in gs, reading[g] # NotReading
      PROVE  /\ reading'[g] = [reading[g] EXCEPT !.again = TRUE]
             /\ reading[g].step # "idle"
             /\ reading'[g].step = reading[g].step
             /\ reading'[g].got = reading[g].got
             /\ reading'[g].again
    BY <1>4 DEF Refetch, WellFormed, ReadingsOK
<1>5. \A g \in Pages : reading'[g] \in [step : {"idle", "started", "read"},
                                        got : Listings, again : BOOLEAN]
    <2> SUFFICES ASSUME NEW g \in Pages
                 PROVE  reading'[g] \in [step : {"idle", "started", "read"},
                                         got : Listings, again : BOOLEAN]
        OBVIOUS
    <2>1. reading[g] \in [step : {"idle", "started", "read"}, got : Listings, again : BOOLEAN]
        BY DEF WellFormed, ReadingsOK
    <2>2. CASE g \notin gs
        BY <1>2, <2>1, <2>2
    <2>3. CASE g \in gs /\ reading[g] = NotReading
        BY <1>3, <2>3, ListingsHold DEF Reading, NotReading
    <2>4. CASE g \in gs /\ reading[g] # NotReading
        BY <1>4, <2>1, <2>4
    <2>5. QED
        BY <2>2, <2>3, <2>4
<1>6. reading' \in [Pages -> [step : {"idle", "started", "read"},
                              got : Listings, again : BOOLEAN]]
    BY <1>5 DEF Refetch
<1>7. \A g \in Pages :
         /\ reading'[g].step = "idle" => reading'[g] = NotReading
         /\ reading'[g].step = "read" => reading'[g].got \in [KeysOf(g) -> Value]
         /\ reading'[g].again => reading'[g].step # "idle"
    <2> SUFFICES ASSUME NEW g \in Pages
                 PROVE  Sound(reading'[g], g)
        BY DEF Sound
    <2>1. Sound(reading[g], g)
        BY DEF Sound, WellFormed, TypeOK, ReadingsOK, NotReading
    <2>2. CASE g \notin gs
        BY <1>2, <2>1, <2>2
    <2>3. CASE g \in gs /\ reading[g] = NotReading
        BY <1>3, <2>3 DEF Sound, Reading, NotReading
    <2>4. CASE g \in gs /\ reading[g] # NotReading
        BY <1>4, <2>1, <2>4 DEF Sound
    <2>5. QED
        BY <2>2, <2>3, <2>4
<1>8. ReadingsOK'
    BY <1>6, <1>7 DEF ReadingsOK, NotReading
<1>9. QED
    BY <1>1, <1>2, <1>3, <1>4, <1>7, <1>8

LEMMA ReadEndedType ==
    ASSUME WellFormed, NEW g \in Pages, reading' = [reading EXCEPT ![g] = ReadEnded(g)]
    PROVE  /\ ReadingsOK'
           /\ \A h \in Pages : h # g => reading'[h] = reading[h]
           /\ reading'[g] = IF reading[g].again THEN Reading ELSE NotReading
           /\ \A h \in Pages : reading'[h].again => reading'[h].step # "idle"
<1>1. reading'[g] = IF reading[g].again THEN Reading ELSE NotReading
    BY DEF ReadEnded, WellFormed, ReadingsOK
<1>2. \A h \in Pages : h # g => reading'[h] = reading[h]
    BY DEF WellFormed, ReadingsOK
<1>3. Reading \in [step : {"idle", "started", "read"}, got : Listings, again : BOOLEAN]
      /\ NotReading \in [step : {"idle", "started", "read"}, got : Listings, again : BOOLEAN]
    BY ListingsHold DEF Reading, NotReading
<1>4. reading' \in [Pages -> [step : {"idle", "started", "read"},
                              got : Listings, again : BOOLEAN]]
    BY <1>3 DEF ReadEnded, WellFormed, ReadingsOK
<1>5. \A h \in Pages :
         /\ reading'[h].step = "idle" => reading'[h] = NotReading
         /\ reading'[h].step = "read" => reading'[h].got \in [KeysOf(h) -> Value]
         /\ reading'[h].again => reading'[h].step # "idle"
    <2> SUFFICES ASSUME NEW h \in Pages
                 PROVE  Sound(reading'[h], h)
        BY DEF Sound
    <2>1. Sound(reading[h], h)
        BY DEF Sound, WellFormed, TypeOK, ReadingsOK, NotReading
    <2>2. CASE h # g
        BY <1>2, <2>1, <2>2
    <2>3. CASE h = g
        BY <1>1, <2>3 DEF Sound, Reading, NotReading
    <2>4. QED
        BY <2>2, <2>3
<1>6. QED
    BY <1>1, <1>2, <1>4, <1>5 DEF ReadingsOK, NotReading
-----------------------------------------------------------------------------
(* A slot whose write process is replaced, the others staying as they are.  *)
LEMMA ProcEnds ==
    ASSUME WellFormed, NEW s \in Slots, proc' = [proc EXCEPT ![s] = Ended(s)],
           UNCHANGED user
    PROVE  /\ proc' \in [Slots -> [step : {"idle", "running", "ok", "failed"},
                                   edit : Edit \cup {NoEdit}, next : Edit \cup {NoEdit}]]
           /\ \A t \in Slots :
                /\ Own(proc[t].edit, t)' /\ Own(proc[t].next, t)'
                /\ proc'[t].step = "idle" => proc'[t] = IdleProc
                /\ proc'[t].step # "idle" => proc'[t].edit # NoEdit
<1>1. proc'[s] = Ended(s) /\ \A t \in Slots : t # s => proc'[t] = proc[t]
    BY DEF WellFormed, TypeOK
<1>2. Ended(s) \in [step : {"idle", "running", "ok", "failed"},
                    edit : Edit \cup {NoEdit}, next : Edit \cup {NoEdit}]
    BY EndedType
<1>3. /\ Own(proc[s].edit, s)' /\ Own(proc[s].next, s)'
      /\ proc'[s].step = "idle" => proc'[s] = IdleProc
      /\ proc'[s].step # "idle" => proc'[s].edit # NoEdit
    BY <1>1, EndedType DEF Own
<1>4. QED
    BY <1>1, <1>2, <1>3 DEF WellFormed, TypeOK, ProcsOK, Own

LEMMA ProcMoves ==
    ASSUME WellFormed, NEW s \in Slots, NEW st \in {"ok", "failed"},
           proc[s].step = "running", proc' = [proc EXCEPT ![s].step = st],
           UNCHANGED user
    PROVE  /\ proc' \in [Slots -> [step : {"idle", "running", "ok", "failed"},
                                   edit : Edit \cup {NoEdit}, next : Edit \cup {NoEdit}]]
           /\ \A t \in Slots :
                /\ proc'[t].edit = proc[t].edit /\ proc'[t].next = proc[t].next
                /\ Own(proc[t].edit, t)' /\ Own(proc[t].next, t)'
                /\ proc'[t].step = "idle" => proc'[t] = IdleProc
                /\ proc'[t].step # "idle" => proc'[t].edit # NoEdit
<1>1. proc'[s] = [proc[s] EXCEPT !.step = st] /\ \A t \in Slots : t # s => proc'[t] = proc[t]
    BY DEF WellFormed, TypeOK
<1>2. proc'[s].step = st /\ proc'[s].edit = proc[s].edit /\ proc'[s].next = proc[s].next
    BY <1>1 DEF WellFormed, TypeOK
<1>3. QED
    BY <1>1, <1>2 DEF WellFormed, TypeOK, ProcsOK, Own

LEMMA WellFormedInit == Init => WellFormed
<1> SUFFICES ASSUME Init PROVE WellFormed
    OBVIOUS
<1>1. PICK listed \in [user.keys -> Value] :
         stored = [k \in Key |-> IF k \in user.keys THEN listed[k] ELSE Untouched]
    BY DEF Init
<1>2. Untouched \in Value
    BY PanelAssumption DEF Untouched
<1>3. stored \in [Key -> Value]
    BY <1>1, <1>2
<1>4. TypeOK
    BY <1>3 DEF Init, TypeOK, IdleProc, NotReading
<1>5. ProcsOK
    BY DEF Init, ProcsOK, Own, IdleProc
<1>6. ReadingsOK
    BY ListingsHold DEF Init, ReadingsOK, NotReading
<1>7. QED
    BY <1>4, <1>5, <1>6 DEF WellFormed

LEMMA WellFormedNext == WellFormed /\ [Next]_vars => WellFormed'
<1> SUFFICES ASSUME WellFormed, [Next]_vars PROVE WellFormed'
    OBVIOUS
<1> USE DEF WellFormed
<1>1. ASSUME NEW e \in Edit, e.key \in user.keys, Act(e) PROVE WellFormed'
    <2> DEFINE s == SlotOf[e.key]
    <2>0. s \in Slots /\ e \in Edit /\ e # NoEdit /\ Own(e, s)
        BY <1>1, PanelAssumption, NoEditIsNone DEF Own, Edit
    <2>1. e.key \in Key /\ e.value \in Value
        BY DEF Edit
    <2>2. shown' \in [Key -> Value \cup {Blank}] /\ wanted' \in [Key -> Value]
        BY <1>1, <2>1 DEF Act, TypeOK
    <2>3. UNCHANGED <<stored, reading, loading, user>>
        BY <1>1 DEF Act
    <2>4. CASE s = "theme"
        <3>1. timer' = e /\ UNCHANGED proc
            BY <1>1, <2>4 DEF Act
        <3>2. TypeOK' /\ ReadingsOK'
            BY <2>2, <2>3, <3>1 DEF TypeOK, ReadingsOK
        <3>3. ProcsOK'
            BY <2>0, <2>3, <2>4, <3>1 DEF ProcsOK, Own
        <3>4. QED
            BY <3>2, <3>3
    <2>5. CASE s # "theme"
        <3>1. Run(s, e) /\ UNCHANGED timer
            BY <1>1, <2>5 DEF Act
        <3>2. TypeOK' /\ ReadingsOK' /\ ProcsOK'
            BY <2>0, <2>2, <2>3, <3>1, RunType DEF TypeOK, ReadingsOK, ProcsOK, Own
        <3>3. QED
            BY <3>2
    <2>6. QED
        BY <2>4, <2>5
<1>2. CASE Fire
    <2>1. "theme" \in Slots /\ Own(timer, "theme") /\ timer # NoEdit /\ Run("theme", timer)
        BY <1>2 DEF Fire, Slots, ProcsOK
    <2>2. UNCHANGED <<shown, stored, reading, loading, wanted, user>> /\ timer' = NoEdit
        BY <1>2 DEF Fire
    <2>3. QED
        BY <2>1, <2>2, RunType DEF TypeOK, ReadingsOK, ProcsOK, Own
<1>3. ASSUME NEW s \in Slots, Accept(s) PROVE WellFormed'
    <2>1. proc[s].edit \in Edit
        BY <1>3, NoEditIsNone DEF Accept, TypeOK, ProcsOK
    <2>2. stored' \in [Key -> Value]
        BY <1>3, <2>1 DEF Accept, TypeOK, Edit
    <2>3. UNCHANGED <<shown, timer, reading, loading, wanted, user>>
        BY <1>3 DEF Accept
    <2>4. proc' = [proc EXCEPT ![s].step = "ok"] /\ proc[s].step = "running"
        BY <1>3 DEF Accept
    <2>5. QED
        BY <2>2, <2>3, <2>4, ProcMoves DEF TypeOK, ReadingsOK, ProcsOK, Own
<1>4. ASSUME NEW s \in Slots, Reject(s) PROVE WellFormed'
    <2>1. proc[s].edit \in Edit
        BY <1>4, NoEditIsNone DEF Reject, TypeOK, ProcsOK
    <2>2. wanted' \in [Key -> Value]
        BY <1>4, <2>1 DEF Reject, TypeOK, Edit
    <2>3. UNCHANGED <<shown, stored, timer, reading, loading, user>>
        BY <1>4 DEF Reject
    <2>4. proc' = [proc EXCEPT ![s].step = "failed"] /\ proc[s].step = "running"
        BY <1>4 DEF Reject
    <2>5. QED
        BY <2>2, <2>3, <2>4, ProcMoves DEF TypeOK, ReadingsOK, ProcsOK, Own
<1>5. ASSUME NEW s \in Slots, Exited(s) PROVE WellFormed'
    <2>1. UNCHANGED <<shown, stored, timer, wanted, user>>
          /\ proc' = [proc EXCEPT ![s] = Ended(s)]
          /\ Refetch(ReadBack(s, proc[s].step = "ok"))
        BY <1>5 DEF Exited
    <2>2. QED
        BY <2>1, ProcEnds, RefetchType DEF TypeOK, ReadingsOK, ProcsOK, Own
<1>6. ASSUME NEW g \in Pages, ListRead(g) PROVE WellFormed'
    <2>1. UNCHANGED <<shown, stored, timer, proc, loading, wanted, user>>
        BY <1>6 DEF ListRead
    <2> DEFINE got == [k \in KeysOf(g) |-> stored[k]]
    <2>2. got \in [KeysOf(g) -> Value] /\ got \in Listings
        BY ListingsHold DEF TypeOK, KeysOf
    <2> HIDE DEF got
    <2>3. reading' = [reading EXCEPT ![g].step = "read", ![g].got = got]
        BY <1>6 DEF ListRead, got
    <2>4. reading'[g].step = "read" /\ reading'[g].got = got
          /\ \A h \in Pages : h # g => reading'[h] = reading[h]
        BY <2>3 DEF ReadingsOK
    <2>5. ReadingsOK'
        <3>1. reading'[g] = [reading[g] EXCEPT !.step = "read", !.got = got]
            BY <2>3 DEF ReadingsOK
        <3>2. reading'[g] \in [step : {"idle", "started", "read"}, got : Listings, again : BOOLEAN]
            BY <2>2, <3>1 DEF ReadingsOK
        <3>3. reading' \in [Pages -> [step : {"idle", "started", "read"},
                                      got : Listings, again : BOOLEAN]]
            BY <2>3, <2>4, <3>2 DEF ReadingsOK
        <3>4. ASSUME NEW h \in Pages
              PROVE  /\ reading'[h].step = "idle" => reading'[h] = NotReading
                     /\ reading'[h].step = "read" => reading'[h].got \in [KeysOf(h) -> Value]
            BY <2>2, <2>4 DEF ReadingsOK
        <3>5. QED
            BY <3>3, <3>4 DEF ReadingsOK, NotReading
    <2>6. TypeOK' /\ ProcsOK'
        BY <2>1, <2>4 DEF TypeOK, ProcsOK, Own
    <2>7. QED
        BY <2>5, <2>6
<1>7. ASSUME NEW g \in Pages, ShowRead(g) \/ ShowFailure(g) PROVE WellFormed'
    <2>1. /\ UNCHANGED <<stored, timer, proc, wanted, user>>
          /\ reading' = [reading EXCEPT ![g] = ReadEnded(g)]
          /\ loading' = [loading EXCEPT ![g] = FALSE]
        BY <1>7 DEF ShowRead, ShowFailure
    <2>2. shown' \in [Key -> Value \cup {Blank}]
        BY <1>7 DEF ShowRead, ShowFailure, ReadingsOK, TypeOK
    <2>3. ReadingsOK' /\ \A h \in Pages : reading'[h].again => reading'[h].step # "idle"
        BY <2>1, ReadEndedType
    <2>4. TypeOK' /\ ProcsOK'
        BY <2>1, <2>2, <2>3 DEF TypeOK, ProcsOK, Own, ReadingsOK
    <2>5. QED
        BY <2>3, <2>4
<1>8. ASSUME NEW g \in Pages, Refresh(g) PROVE WellFormed'
    <2>1. UNCHANGED <<shown, stored, timer, proc, wanted, user>> /\ Refetch({g})
        BY <1>8 DEF Refresh
    <2>2. QED
        BY <2>1, RefetchType DEF TypeOK, ReadingsOK, ProcsOK, Own
<1>9. CASE UNCHANGED vars
    BY <1>9 DEF vars, TypeOK, ProcsOK, ReadingsOK, Own
<1>10. \A k \in user.keys : PageOf(SlotOf[k]) \in Pages
    BY UserType, PageIsPage, PanelAssumption DEF TypeOK
<1>11. QED
    BY <1>1, <1>2, <1>3, <1>4, <1>5, <1>6, <1>7, <1>8, <1>9, <1>10 DEF Next, Internal

(* Every reachable state of the panel has the types of TypeOK.              *)
THEOREM PanelTypeCorrect == Spec => []TypeOK
<1>1. WellFormed => TypeOK
    BY DEF WellFormed
<1>2. QED
    BY <1>1, WellFormedInit, WellFormedNext, PTL DEF Spec

-----------------------------------------------------------------------------
(* A user who waits, or who touches only settings, finds the slot he uses   *)
(* idle.                                                                    *)
Calm == user.waits \/ \A k \in user.keys : SlotOf[k] = "settings"

Kept ==
    /\ \A s \in Slots :
         /\ proc[s].next = NoEdit
         /\ proc[s].step = "running" => proc[s].edit.value = wanted[proc[s].edit.key]
    /\ timer # NoEdit => proc["theme"] = IdleProc /\ timer.value = wanted[timer.key]
    /\ \A k \in Key :
         \/ stored[k] = wanted[k]
         \/ timer # NoEdit /\ timer.key = k
         \/ proc[SlotOf[k]].step = "running" /\ proc[SlotOf[k]].edit.key = k

LEMMA ActAlone ==
    ASSUME WellFormed, Calm, NEW e \in Edit, e.key \in user.keys, Act(e)
    PROVE  /\ SlotOf[e.key] \in Slots
           /\ proc[SlotOf[e.key]] = IdleProc
           /\ SlotOf[e.key] = "theme" => timer = NoEdit
<1> DEFINE s == SlotOf[e.key]
<1>1. s \in Slots /\ Enabled(e)
    BY PanelAssumption DEF Act, Edit
<1>2. CASE user.waits
    BY <1>1, <1>2 DEF Enabled, QuietPage, PageOf
<1>3. CASE s = "settings"
    BY <1>1, <1>3, PanelAssumption DEF Enabled, PageOn, SettingOn, AppOn, UserOn, PageOf
<1>4. QED
    BY <1>1, <1>2, <1>3 DEF Calm

LEMMA RunAlone ==
    ASSUME WellFormed, NEW s \in Slots, NEW e, Run(s, e), proc[s] = IdleProc
    PROVE  /\ proc'[s] = [step |-> "running", edit |-> e, next |-> NoEdit]
           /\ \A t \in Slots : t # s => proc'[t] = proc[t]
    BY DEF Run, WellFormed, TypeOK, Running, IdleProc

LEMMA KeptNext == WellFormed /\ Calm /\ Kept /\ [Next]_vars => Kept'
<1> SUFFICES ASSUME WellFormed, Calm, Kept, [Next]_vars PROVE Kept'
    OBVIOUS
<1>0. /\ \A k \in Key : SlotOf[k] \in Slots
      /\ "theme" \in Slots
      /\ IdleProc.step = "idle" /\ IdleProc.next = NoEdit
    BY PanelAssumption DEF Slots, IdleProc
<1>1. ASSUME NEW e \in Edit, e.key \in user.keys, Act(e) PROVE Kept'
    <2> DEFINE s == SlotOf[e.key]
    <2>1. s \in Slots /\ proc[s] = IdleProc /\ (s = "theme" => timer = NoEdit)
        BY <1>1, ActAlone
    <2>2. e.key \in Key /\ e # NoEdit
        BY NoEditIsNone DEF Edit
    <2>3. wanted'[e.key] = e.value /\ \A k \in Key : k # e.key => wanted'[k] = wanted[k]
        BY <1>1, <2>2 DEF Act, WellFormed, TypeOK
    <2>4. UNCHANGED stored
        BY <1>1 DEF Act
    <2>5. \A t \in Slots : proc[t].step = "running" =>
              proc[t].edit \in Edit /\ SlotOf[proc[t].edit.key] = t
        BY DEF WellFormed, ProcsOK, Own
    <2>6. timer # NoEdit => timer \in Edit /\ SlotOf[timer.key] = "theme"
        BY DEF WellFormed, ProcsOK, Own
    <2>7. CASE s = "theme"
        <3>1. timer' = e /\ UNCHANGED proc
            BY <1>1, <2>7 DEF Act
        <3>2. \A t \in Slots : proc[t].step = "running" => proc[t].edit.key # e.key
            BY <1>0, <2>1, <2>5
        <3>3. QED
            BY <1>0, <2>1, <2>2, <2>3, <2>4, <2>5, <2>7, <3>1, <3>2 DEF Kept, Edit
    <2>8. CASE s # "theme"
        <3>1. Run(s, e) /\ UNCHANGED timer
            BY <1>1, <2>8 DEF Act
        <3>2. /\ proc'[s] = [step |-> "running", edit |-> e, next |-> NoEdit]
              /\ \A t \in Slots : t # s => proc'[t] = proc[t]
            BY <2>1, <3>1, RunAlone
        <3>3. \A t \in Slots : t # s /\ proc[t].step = "running" => proc[t].edit.key # e.key
            BY <2>5
        <3>4. timer # NoEdit => timer.key # e.key
            BY <2>6, <2>8
        <3>5. \A t \in Slots :
                /\ proc'[t].next = NoEdit
                /\ proc'[t].step = "running" => proc'[t].edit.value = wanted'[proc'[t].edit.key]
            BY <2>3, <2>5, <3>2, <3>3 DEF Kept, Edit
        <3>6. timer' # NoEdit => proc'["theme"] = IdleProc /\ timer'.value = wanted'[timer'.key]
            BY <1>0, <2>3, <2>6, <2>8, <3>1, <3>2, <3>4 DEF Kept, Edit
        <3>7. ASSUME NEW k \in Key
              PROVE  \/ stored'[k] = wanted'[k]
                     \/ timer' # NoEdit /\ timer'.key = k
                     \/ proc'[SlotOf[k]].step = "running" /\ proc'[SlotOf[k]].edit.key = k
            BY <1>0, <2>1, <2>3, <2>4, <3>1, <3>2 DEF Kept
        <3>8. QED
            BY <3>5, <3>6, <3>7 DEF Kept
    <2>9. QED
        BY <2>7, <2>8
<1>2. CASE Fire
    <2>1. timer \in Edit /\ SlotOf[timer.key] = "theme" /\ proc["theme"] = IdleProc
        BY <1>2 DEF Fire, WellFormed, ProcsOK, Own, Kept
    <2>2. /\ timer' = NoEdit /\ UNCHANGED <<stored, wanted>>
          /\ proc'["theme"] = [step |-> "running", edit |-> timer, next |-> NoEdit]
          /\ \A t \in Slots : t # "theme" => proc'[t] = proc[t]
        BY <1>0, <1>2, <2>1, RunAlone DEF Fire
    <2>3. timer.value = wanted[timer.key]
        BY <1>2 DEF Fire, Kept
    <2>4. \A t \in Slots :
            /\ proc'[t].next = NoEdit
            /\ proc'[t].step = "running" => proc'[t].edit.value = wanted'[proc'[t].edit.key]
        BY <2>2, <2>3 DEF Kept
    <2>5. ASSUME NEW k \in Key
          PROVE  \/ stored'[k] = wanted'[k]
                 \/ proc'[SlotOf[k]].step = "running" /\ proc'[SlotOf[k]].edit.key = k
        <3>1. CASE k = timer.key
            BY <2>1, <2>2, <3>1
        <3>2. CASE k # timer.key
            BY <1>0, <2>1, <2>2, <3>2 DEF Kept
        <3>3. QED
            BY <3>1, <3>2
    <2>6. QED
        BY <2>2, <2>4, <2>5 DEF Kept
<1>3. ASSUME NEW s \in Slots, Accept(s) \/ Reject(s) PROVE Kept'
    <2> DEFINE e == proc[s].edit
    <2>1. e \in Edit /\ e.key \in Key /\ SlotOf[e.key] = s /\ proc[s].step = "running"
        BY <1>3 DEF Accept, Reject, WellFormed, ProcsOK, Own, Edit
    <2>2. PICK st \in {"ok", "failed"} : proc' = [proc EXCEPT ![s].step = st]
        BY <1>3 DEF Accept, Reject
    <2>3. /\ proc'[s].step = st /\ proc'[s].next = proc[s].next
          /\ \A t \in Slots : t # s => proc'[t] = proc[t]
        BY <2>2 DEF WellFormed, TypeOK
    <2>4. UNCHANGED timer
        BY <1>3 DEF Accept, Reject
    <2>5. /\ stored'[e.key] = wanted'[e.key]
          /\ \A k \in Key : k # e.key => stored'[k] = stored[k] /\ wanted'[k] = wanted[k]
        <3>1. CASE Accept(s)
            BY <2>1, <3>1 DEF Accept, WellFormed, TypeOK, Kept
        <3>2. CASE Reject(s)
            BY <2>1, <3>2 DEF Reject, WellFormed, TypeOK, Kept
        <3>3. QED
            BY <1>3, <3>1, <3>2
    <2>6. timer # NoEdit => s # "theme" /\ timer \in Edit /\ SlotOf[timer.key] = "theme"
        BY <1>0, <2>1 DEF Kept, WellFormed, ProcsOK, Own
    <2>7. \A t \in Slots :
            /\ proc'[t].next = NoEdit
            /\ proc'[t].step = "running" => proc'[t].edit.value = wanted'[proc'[t].edit.key]
        <3>1. \A t \in Slots : t # s /\ proc[t].step = "running" =>
                  proc[t].edit.key \in Key /\ proc[t].edit.key # e.key
            BY <2>1 DEF WellFormed, ProcsOK, Own, Edit
        <3>2. QED
            BY <2>3, <2>5, <3>1 DEF Kept
    <2>8. timer' # NoEdit => proc'["theme"] = IdleProc /\ timer'.value = wanted'[timer'.key]
        <3>1. timer # NoEdit => timer.key \in Key /\ timer.key # e.key
            BY <2>1, <2>6 DEF Edit
        <3>2. QED
            BY <1>0, <2>3, <2>4, <2>5, <2>6, <3>1 DEF Kept
    <2>9. \A k \in Key :
            \/ stored'[k] = wanted'[k]
            \/ timer' # NoEdit /\ timer'.key = k
            \/ proc'[SlotOf[k]].step = "running" /\ proc'[SlotOf[k]].edit.key = k
        <3> SUFFICES ASSUME NEW k \in Key, k # e.key
                     PROVE  \/ stored'[k] = wanted'[k]
                            \/ timer' # NoEdit /\ timer'.key = k
                            \/ proc'[SlotOf[k]].step = "running" /\ proc'[SlotOf[k]].edit.key = k
            BY <2>5
        <3>1. SlotOf[k] = s => ~(proc[SlotOf[k]].step = "running" /\ proc[SlotOf[k]].edit.key = k)
            OBVIOUS
        <3>2. QED
            BY <1>0, <2>3, <2>4, <2>5, <3>1 DEF Kept
    <2>10. QED
        BY <2>7, <2>8, <2>9 DEF Kept
<1>4. ASSUME NEW s \in Slots, Exited(s) PROVE Kept'
    <2>1. /\ UNCHANGED <<stored, timer, wanted>>
          /\ proc[s].step \in {"ok", "failed"}
          /\ proc' = [proc EXCEPT ![s] = Ended(s)]
        BY <1>4 DEF Exited
    <2>2. Ended(s) = IdleProc
        BY EndedType DEF Kept
    <2>3. proc'[s] = IdleProc /\ \A t \in Slots : t # s => proc'[t] = proc[t]
        BY <2>1, <2>2 DEF WellFormed, TypeOK
    <2>4. QED
        BY <1>0, <2>1, <2>3 DEF Kept
<1>5. ASSUME NEW g \in Pages, ListRead(g) \/ ShowRead(g) \/ ShowFailure(g) \/ Refresh(g)
      PROVE  Kept'
    BY <1>5 DEF ListRead, ShowRead, ShowFailure, Refresh, Kept
<1>6. CASE UNCHANGED vars
    BY <1>6 DEF vars, Kept
<1>7. \A k \in user.keys : PageOf(SlotOf[k]) \in Pages
    BY UserType, PageIsPage, PanelAssumption DEF WellFormed, TypeOK
<1>8. QED
    BY <1>1, <1>2, <1>3, <1>4, <1>5, <1>6, <1>7 DEF Next, Internal

LEMMA KeptInit == Init => Kept
    BY NoEditIsNone DEF Init, Kept, IdleProc

LEMMA KeptAtRest ==
    ASSUME WellFormed, Kept, NEW k \in Key, QuietPage(PageOf(SlotOf[k]))
    PROVE  stored[k] = wanted[k]
<1>1. SlotOf[k] \in Slots /\ proc[SlotOf[k]] = IdleProc
    BY PanelAssumption DEF QuietPage
<1>2. SlotOf[k] = "theme" => timer = NoEdit
    BY DEF QuietPage, PageOf
<1>3. timer # NoEdit /\ timer.key = k => SlotOf[k] = "theme"
    BY DEF WellFormed, ProcsOK, Own
<1>4. QED
    BY <1>1, <1>2, <1>3 DEF Kept, IdleProc

(* Whatever a user asks for who waits for each page, or who only changes    *)
(* settings, however fast, is stored when the page is at rest, or was       *)
(* reported as failed: there is one Process per kind of write, and neither  *)
(* user ever finds it running.                                              *)
THEOREM NothingEverLost ==
    ASSUME \A u \in Users : u.waits \/ \A k \in u.keys : SlotOf[k] = "settings"
    PROVE  Spec => []NothingLost
<1>1. WellFormed => Calm
    BY DEF WellFormed, TypeOK, Calm
<1>2. WellFormed /\ Kept => NothingLost
    <2> SUFFICES ASSUME WellFormed, Kept, NEW s \in Slots, NEW k \in Key,
                        SlotOf[k] = s, QuietPage(PageOf(s))
                 PROVE  stored[k] = wanted[k]
        BY DEF NothingLost, NotLost
    <2>1. QED
        BY KeptAtRest
<1>3. Init => WellFormed /\ Kept
    BY WellFormedInit, KeptInit
<1>4. WellFormed /\ Kept /\ [Next]_vars => WellFormed' /\ Kept'
    BY <1>1, WellFormedNext, KeptNext
<1>5. QED
    BY <1>2, <1>3, <1>4, PTL DEF Spec

-----------------------------------------------------------------------------
(* Controls that are not optimistic show what was read, and each write of   *)
(* theirs is followed by a reading; a control of a kind the user never      *)
(* touches only ever shows readings too.                                    *)
Used(s) == \E k \in user.keys : SlotOf[k] = s

AsRead(k) ==
    LET s == SlotOf[k]  r == reading[PageOf(SlotOf[k])] IN
    /\ \/ shown[k] \in {stored[k], Blank}
       \/ proc[s].step = "ok"
       \/ r.step = "started"
       \/ r.again
       \/ r.step = "read" /\ r.got[k] = stored[k]
    /\ r.step = "read" => r.got[k] = stored[k] \/ proc[s].step = "ok" \/ r.again
    /\ s = "theme" => /\ shown[k] \in {stored[k], Blank}
                      /\ r.step = "read" => r.got[k] = stored[k]

Followed == \A k \in Key : SlotOf[k] \notin Optimistic \/ ~Used(SlotOf[k]) => AsRead(k)

LEMMA UserStays == [Next]_vars => user' = user
<1>1. ASSUME NEW e, Act(e) PROVE user' = user
    BY <1>1 DEF Act
<1>2. ASSUME NEW s, Accept(s) \/ Reject(s) \/ Exited(s) PROVE user' = user
    BY <1>2 DEF Accept, Reject, Exited
<1>3. ASSUME NEW g, ListRead(g) \/ ShowRead(g) \/ ShowFailure(g) \/ Refresh(g)
      PROVE  user' = user
    BY <1>3 DEF ListRead, ShowRead, ShowFailure, Refresh
<1>4. Fire => user' = user
    BY DEF Fire
<1>5. QED
    BY <1>1, <1>2, <1>3, <1>4 DEF Next, Internal, vars

LEMMA FollowedNext == WellFormed /\ Followed /\ [Next]_vars => Followed'
<1> SUFFICES ASSUME WellFormed, Followed, [Next]_vars, NEW k \in Key,
                    SlotOf[k] \notin Optimistic \/ ~Used(SlotOf[k])
             PROVE  AsRead(k)'
    BY UserStays DEF Followed, Used
<1> DEFINE s == SlotOf[k]  g == PageOf(SlotOf[k])
<1>0. s \in Slots /\ g \in Pages /\ k \in KeysOf(g) /\ AsRead(k) /\ Optimistic \subseteq Slots
    BY PanelAssumption, PageIsPage DEF KeysOf, Followed, Optimistic, Slots
<1>01. \A h \in Pages : h # g => k \notin KeysOf(h)
    BY DEF KeysOf
<1> HIDE DEF s, g
<1>02. AsRead(k) <=>
         /\ \/ shown[k] \in {stored[k], Blank}
            \/ proc[s].step = "ok"
            \/ reading[g].step = "started"
            \/ reading[g].again
            \/ reading[g].step = "read" /\ reading[g].got[k] = stored[k]
         /\ reading[g].step = "read" =>
              reading[g].got[k] = stored[k] \/ proc[s].step = "ok" \/ reading[g].again
         /\ s = "theme" => /\ shown[k] \in {stored[k], Blank}
                           /\ reading[g].step = "read" => reading[g].got[k] = stored[k]
    BY DEF AsRead, s, g
<1>03. AsRead(k)' <=>
         /\ \/ shown'[k] \in {stored'[k], Blank}
            \/ proc'[s].step = "ok"
            \/ reading'[g].step = "started"
            \/ reading'[g].again
            \/ reading'[g].step = "read" /\ reading'[g].got[k] = stored'[k]
         /\ reading'[g].step = "read" =>
              reading'[g].got[k] = stored'[k] \/ proc'[s].step = "ok" \/ reading'[g].again
         /\ s = "theme" => /\ shown'[k] \in {stored'[k], Blank}
                           /\ reading'[g].step = "read" => reading'[g].got[k] = stored'[k]
    BY DEF AsRead, s, g
<1>04. s \notin Optimistic \/ proc[s] = IdleProc
    <2>1. s \notin Optimistic \/ ~Used(s)
        BY DEF s
    <2>2. proc[s].edit # NoEdit => Used(s)
        BY <1>0 DEF WellFormed, ProcsOK, Own, Used
    <2>3. QED
        BY <1>0, <2>1, <2>2 DEF WellFormed, TypeOK, ProcsOK
<1>1. ASSUME NEW e \in Edit, e.key \in user.keys, Act(e) PROVE AsRead(k)'
    <2> DEFINE t == SlotOf[e.key]
    <2>1. t \in Slots /\ e.key \in Key
        BY PanelAssumption DEF Edit
    <2>2. UNCHANGED <<stored, reading>>
        BY <1>1 DEF Act
    <2>3. shown'[k] = shown[k]
        <3>1. CASE t \in Optimistic
            <4>1. k # e.key
                BY <1>1, <3>1 DEF Used
            <4>2. QED
                BY <1>1, <2>1, <3>1, <4>1 DEF Act, WellFormed, TypeOK
        <3>2. CASE t \notin Optimistic
            BY <1>1, <3>2 DEF Act
        <3>3. QED
            BY <3>1, <3>2
    <2>4. proc[s].step = "ok" => proc'[s].step = "ok"
        <3>1. CASE t = "theme"
            BY <1>1, <3>1 DEF Act
        <3>2. CASE t # "theme"
            <4>1. Run(t, e)
                BY <1>1, <3>2 DEF Act
            <4>2. proc' = [proc EXCEPT ![t] = IF @ = IdleProc THEN Running(e) ELSE [@ EXCEPT !.next = e]]
                BY <4>1 DEF Run
            <4>3. QED
                BY <1>0, <2>1, <4>2 DEF WellFormed, TypeOK, IdleProc
        <3>3. QED
            BY <3>1, <3>2
    <2>5. QED
        BY <1>0, <1>02, <1>03, <2>2, <2>3, <2>4
<1>2. CASE Fire
    <2>1. UNCHANGED <<shown, stored, reading>> /\ Run("theme", timer)
        BY <1>2 DEF Fire
    <2>2. proc[s].step = "ok" => proc'[s].step = "ok"
        BY <1>0, <2>1 DEF Run, WellFormed, TypeOK, IdleProc, Slots
    <2>3. QED
        BY <1>0, <1>02, <1>03, <2>1, <2>2
<1>3. ASSUME NEW t \in Slots, Accept(t) PROVE AsRead(k)'
    <2>1. UNCHANGED <<shown, reading>>
        BY <1>3 DEF Accept
    <2>2. CASE t = s
        <3>1. proc'[s].step = "ok"
            BY <1>3, <2>2 DEF Accept, WellFormed, TypeOK
        <3>2. s # "theme"
            BY <1>04, <1>3, <2>2 DEF Accept, IdleProc, Optimistic
        <3>3. QED
            BY <1>03, <3>1, <3>2
    <2>3. CASE t # s
        <3>1. proc[t].edit.key # k
            BY <1>3, <2>3 DEF Accept, WellFormed, ProcsOK, Own, s
        <3>2. stored'[k] = stored[k] /\ proc'[s] = proc[s]
            BY <1>0, <1>3, <2>3, <3>1 DEF Accept, WellFormed, TypeOK
        <3>3. QED
            BY <1>0, <1>02, <1>03, <2>1, <3>2
    <2>4. QED
        BY <2>2, <2>3
<1>4. ASSUME NEW t \in Slots, Reject(t) PROVE AsRead(k)'
    <2>1. UNCHANGED <<shown, stored, reading>>
        BY <1>4 DEF Reject
    <2>2. proc[s].step = "ok" => proc'[s].step = "ok"
        BY <1>0, <1>4 DEF Reject, WellFormed, TypeOK
    <2>3. QED
        BY <1>0, <1>02, <1>03, <2>1, <2>2
<1>5. ASSUME NEW t \in Slots, Exited(t) PROVE AsRead(k)'
    <2>1. UNCHANGED <<shown, stored>> /\ Refetch(ReadBack(t, proc[t].step = "ok"))
        BY <1>5 DEF Exited
    <2>2. \/ reading'[g] = reading[g]
          \/ reading'[g] = Reading
          \/ /\ reading'[g].again /\ reading'[g].step = reading[g].step
             /\ reading'[g].got = reading[g].got
        BY <1>0, <2>1, RefetchType
    <2>3. CASE t = s
        <3>1. s \notin Optimistic
            BY <1>04, <1>5, <2>3 DEF Exited, IdleProc
        <3>2. g \in ReadBack(s, proc[s].step = "ok")
            BY <1>0, <3>1 DEF ReadBack, Optimistic, Slots, PageOf, g, s
        <3>3. reading'[g] = Reading \/ reading'[g].again
            BY <1>0, <2>1, <2>3, <3>2, RefetchType
        <3>4. QED
            BY <1>03, <3>1, <3>3 DEF Reading, NotReading, Optimistic
    <2>4. CASE t # s
        <3>1. proc'[s] = proc[s]
            BY <1>0, <1>5, <2>4 DEF Exited, WellFormed, TypeOK
        <3>2. QED
            BY <1>0, <1>02, <1>03, <2>1, <2>2, <3>1 DEF Reading, NotReading
    <2>5. QED
        BY <2>3, <2>4
<1>6. ASSUME NEW h \in Pages, ListRead(h) PROVE AsRead(k)'
    <2>1. UNCHANGED <<shown, stored, proc>>
        BY <1>6 DEF ListRead
    <2>2. CASE h = g
        <3>1. reading'[g].step = "read" /\ reading'[g].got = [j \in KeysOf(g) |-> stored[j]]
            BY <1>0, <1>6, <2>2 DEF ListRead, WellFormed, ReadingsOK
        <3>2. reading'[g].got[k] = stored'[k]
            BY <1>0, <2>1, <3>1
        <3>3. QED
            BY <1>0, <1>02, <1>03, <2>1, <3>1, <3>2
    <2>3. CASE h # g
        <3>1. reading'[g] = reading[g]
            BY <1>0, <1>6, <2>3 DEF ListRead, WellFormed, ReadingsOK
        <3>2. QED
            BY <1>0, <1>02, <1>03, <2>1, <3>1
    <2>4. QED
        BY <2>2, <2>3
<1>7. ASSUME NEW h \in Pages, ShowRead(h) \/ ShowFailure(h) PROVE AsRead(k)'
    <2>1. UNCHANGED <<stored, proc>> /\ reading' = [reading EXCEPT ![h] = ReadEnded(h)]
        BY <1>7 DEF ShowRead, ShowFailure
    <2>2. \A i \in Pages : i # h => reading'[i] = reading[i]
        BY <2>1, ReadEndedType
    <2>3. reading'[h] = IF reading[h].again THEN Reading ELSE NotReading
        BY <2>1, ReadEndedType
    <2>4. CASE h # g
        <3>1. shown'[k] = shown[k]
            BY <1>01, <1>7, <2>4 DEF ShowRead, ShowFailure
        <3>2. QED
            BY <1>0, <1>02, <1>03, <2>1, <2>2, <2>4, <3>1
    <2>5. CASE h = g /\ ShowRead(h)
        <3>1. shown'[k] = reading[g].got[k] /\ reading[g].step = "read"
            BY <1>0, <2>5 DEF ShowRead
        <3>2. QED
            BY <1>0, <1>02, <1>03, <2>1, <2>3, <2>5, <3>1 DEF Reading, NotReading
    <2>6. CASE h = g /\ ShowFailure(h)
        <3>1. g = "theme" <=> s = "theme"
            BY <1>0 DEF PageOf, Slots, g, s
        <3>2. shown'[k] = IF s = "theme" THEN shown[k] ELSE Blank
            BY <1>0, <2>6, <3>1 DEF ShowFailure
        <3>3. QED
            BY <1>0, <1>02, <1>03, <2>1, <2>3, <2>6, <3>2 DEF Reading, NotReading
    <2>7. QED
        BY <1>7, <2>4, <2>5, <2>6
<1>8. ASSUME NEW h \in Pages, Refresh(h) PROVE AsRead(k)'
    <2>1. UNCHANGED <<shown, stored, proc>> /\ Refetch({h})
        BY <1>8 DEF Refresh
    <2>2. \/ reading'[g] = reading[g]
          \/ reading'[g] = Reading
          \/ /\ reading'[g].again /\ reading'[g].step = reading[g].step
             /\ reading'[g].got = reading[g].got
        BY <1>0, <2>1, RefetchType
    <2>3. QED
        BY <1>0, <1>02, <1>03, <2>1, <2>2 DEF Reading, NotReading
<1>9. CASE UNCHANGED vars
    BY <1>0, <1>02, <1>03, <1>9 DEF vars
<1>10. \A j \in user.keys : PageOf(SlotOf[j]) \in Pages
    BY UserType, PageIsPage, PanelAssumption DEF WellFormed, TypeOK
<1>11. QED
    BY <1>1, <1>2, <1>3, <1>4, <1>5, <1>6, <1>7, <1>8, <1>9, <1>10 DEF Next, Internal

-----------------------------------------------------------------------------
(* While a careful user is at an optimistic page one thing at a time        *)
(* happens on it: a timer, a write or a reading.                            *)
Careful == user.waits /\ ~user.fails

OneAtATime(g) ==
    /\ \A s, t \in Slots :
         PageOf(s) = g /\ PageOf(t) = g /\ proc[s] # IdleProc /\ proc[t] # IdleProc => s = t
    /\ reading[g] # NotReading =>
         /\ \A s \in Slots : PageOf(s) = g => proc[s] = IdleProc
         /\ g = "theme" => timer = NoEdit
         /\ ~reading[g].again

(* An optimistic control shows what was asked for until its write fails,    *)
(* and the reading that follows a failure ends with what is stored.         *)
AsAsked(k) ==
    LET s == SlotOf[k] IN
    /\ reading[s] = NotReading => proc[s].step = "failed" \/ shown[k] = wanted[k]
    /\ reading[s].step = "read" => reading[s].got[k] = stored[k]

Orderly ==
    /\ \A g \in Optimistic : OneAtATime(g)
    /\ \A k \in Key : SlotOf[k] \in Optimistic => AsAsked(k)

LEMMA OneAtATimeNext ==
    ASSUME WellFormed, Careful, Kept, NEW g \in Optimistic, OneAtATime(g), [Next]_vars
    PROVE  OneAtATime(g)'
<1>0. g \in Pages /\ Calm /\ IdleProc.step = "idle"
    BY DEF Optimistic, Pages, Calm, Careful, IdleProc
<1>01. ASSUME UNCHANGED <<proc, timer>>, reading'[g] = reading[g] PROVE OneAtATime(g)'
    BY <1>01 DEF OneAtATime
(* A write starts on a page where nothing else goes on.                     *)
<1>02. ASSUME NEW s \in Slots, PageOf(s) = g => \A t \in Slots : PageOf(t) = g => proc[t] = IdleProc,
              PageOf(s) = g => reading[g] = NotReading,
              \A t \in Slots : t # s => proc'[t] = proc[t],
              UNCHANGED <<timer, reading>> \/ (timer' = NoEdit /\ UNCHANGED reading)
       PROVE  OneAtATime(g)'
    BY <1>02 DEF OneAtATime
(* A write goes on or ends.                                                 *)
<1>03. ASSUME NEW s \in Slots, proc[s] # IdleProc,
              \A t \in Slots : t # s => proc'[t] = proc[t],
              UNCHANGED <<timer, reading>>
       PROVE  OneAtATime(g)'
    BY <1>03 DEF OneAtATime
<1>1. ASSUME NEW e \in Edit, e.key \in user.keys, Act(e) PROVE OneAtATime(g)'
    <2> DEFINE s == SlotOf[e.key]
    <2>1. s \in Slots /\ QuietPage(PageOf(s))
        BY <1>1, PanelAssumption DEF Act, Enabled, Careful, Edit
    <2>2. UNCHANGED reading
        BY <1>1 DEF Act
    <2>3. CASE s = "theme"
        <3>1. UNCHANGED proc
            BY <1>1, <2>3 DEF Act
        <3>2. g = "theme" => reading[g] = NotReading
            BY <2>1, <2>3 DEF QuietPage, PageOf
        <3>3. QED
            BY <2>2, <3>1, <3>2 DEF OneAtATime
    <2>4. CASE s # "theme"
        <3>1. Run(s, e) /\ UNCHANGED timer
            BY <1>1, <2>4 DEF Act
        <3>2. \A t \in Slots : t # s => proc'[t] = proc[t]
            BY <3>1 DEF Run, WellFormed, TypeOK
        <3>3. QED
            BY <1>02, <2>1, <2>2, <3>1, <3>2 DEF QuietPage
    <2>5. QED
        BY <2>3, <2>4
<1>2. CASE Fire
    <2>1. "theme" \in Slots /\ proc["theme"] = IdleProc /\ \A t \in Slots : PageOf(t) = "theme" => t = "theme"
        BY <1>2 DEF Fire, Kept, Slots, PageOf
    <2>2. /\ \A t \in Slots : t # "theme" => proc'[t] = proc[t]
          /\ timer # NoEdit /\ timer' = NoEdit /\ UNCHANGED reading
        BY <1>2 DEF Fire, Run, WellFormed, TypeOK
    <2>3. PageOf("theme") = "theme"
        BY DEF PageOf
    <2>4. g = "theme" => reading[g] = NotReading
        BY <2>2 DEF OneAtATime
    <2>5. QED
        BY <1>02, <2>1, <2>2, <2>3, <2>4
<1>3. ASSUME NEW s \in Slots, Accept(s) \/ Reject(s) PROVE OneAtATime(g)'
    <2>1. proc[s] # IdleProc /\ UNCHANGED <<timer, reading>>
        BY <1>0, <1>3 DEF Accept, Reject
    <2>2. \A t \in Slots : t # s => proc'[t] = proc[t]
        BY <1>3 DEF Accept, Reject, WellFormed, TypeOK
    <2>3. QED
        BY <1>03, <2>1, <2>2
<1>4. ASSUME NEW s \in Slots, Exited(s) PROVE OneAtATime(g)'
    <2> DEFINE back == ReadBack(s, proc[s].step = "ok")
    <2>1. proc[s] # IdleProc /\ UNCHANGED timer /\ Refetch(back)
        BY <1>0, <1>4 DEF Exited
    <2>2. Ended(s) = IdleProc
        BY EndedType DEF Kept
    <2>3. proc'[s] = IdleProc /\ \A t \in Slots : t # s => proc'[t] = proc[t]
        BY <1>4, <2>2 DEF Exited, WellFormed, TypeOK
    <2>4. CASE g \notin back
        <3>1. reading'[g] = reading[g]
            BY <1>0, <2>1, <2>4, RefetchType
        <3>2. QED
            BY <2>1, <2>3, <3>1 DEF OneAtATime
    <2>5. CASE g \in back
        <3>1. PageOf(s) = g
            BY <2>5 DEF ReadBack, PageOf, Optimistic, Slots
        <3>2. reading[g] = NotReading
            BY <2>1, <3>1 DEF OneAtATime
        <3>3. reading'[g] = Reading
            BY <1>0, <2>1, <2>5, <3>2, RefetchType DEF WellFormed, ReadingsOK, NotReading
        <3>4. \A t \in Slots : PageOf(t) = g => proc'[t] = IdleProc
            BY <2>1, <2>3, <3>1 DEF OneAtATime
        <3>5. g = "theme" => timer = NoEdit
            BY <2>1, <3>1 DEF Kept, PageOf, Slots
        <3>6. QED
            BY <2>1, <3>3, <3>4, <3>5 DEF OneAtATime, Reading, NotReading
    <2>6. QED
        BY <2>4, <2>5
<1>5. ASSUME NEW h \in Pages, ListRead(h) PROVE OneAtATime(g)'
    <2>1. UNCHANGED <<proc, timer>>
        BY <1>5 DEF ListRead
    <2>2. CASE h = g
        <3>1. reading[g] # NotReading /\ reading'[g].again = reading[g].again
            BY <1>0, <1>5, <2>2 DEF ListRead, NotReading, WellFormed, ReadingsOK
        <3>2. QED
            BY <2>1, <3>1 DEF OneAtATime
    <2>3. CASE h # g
        BY <1>0, <1>01, <1>5, <2>1, <2>3 DEF ListRead, WellFormed, ReadingsOK
    <2>4. QED
        BY <2>2, <2>3
<1>6. ASSUME NEW h \in Pages, ShowRead(h) \/ ShowFailure(h) PROVE OneAtATime(g)'
    <2>1. UNCHANGED <<proc, timer>> /\ reading' = [reading EXCEPT ![h] = ReadEnded(h)]
        BY <1>6 DEF ShowRead, ShowFailure
    <2>2. CASE h = g
        <3>1. reading[g] # NotReading
            BY <1>6, <2>2 DEF ShowRead, ShowFailure, NotReading
        <3>2. reading'[g] = NotReading
            BY <2>1, <2>2, <3>1, ReadEndedType DEF OneAtATime
        <3>3. QED
            BY <2>1, <3>1, <3>2 DEF OneAtATime
    <2>3. CASE h # g
        BY <1>0, <1>01, <2>1, <2>3, ReadEndedType
    <2>4. QED
        BY <2>2, <2>3
<1>7. ASSUME NEW h \in Pages, Refresh(h) PROVE OneAtATime(g)'
    <2>1. UNCHANGED <<proc, timer>> /\ Refetch({h}) /\ QuietPage(h)
        BY <1>7 DEF Refresh, Careful
    <2>2. CASE h = g
        <3>1. reading'[g] = Reading
            BY <1>0, <2>1, <2>2, RefetchType DEF QuietPage
        <3>2. QED
            BY <2>1, <2>2, <3>1 DEF OneAtATime, QuietPage, Reading, NotReading
    <2>3. CASE h # g
        BY <1>0, <1>01, <2>1, <2>3, RefetchType
    <2>4. QED
        BY <2>2, <2>3
<1>8. CASE UNCHANGED vars
    BY <1>01, <1>8 DEF vars
<1>9. \A k \in user.keys : PageOf(SlotOf[k]) \in Pages
    BY UserType, PageIsPage, PanelAssumption DEF WellFormed, TypeOK
<1>10. QED
    BY <1>1, <1>2, <1>3, <1>4, <1>5, <1>6, <1>7, <1>8, <1>9 DEF Next, Internal

LEMMA AsAskedNext ==
    ASSUME WellFormed, Careful, Kept, NEW k \in Key, SlotOf[k] \in Optimistic,
           OneAtATime(SlotOf[k]), AsAsked(k), [Next]_vars
    PROVE  AsAsked(k)'
<1> DEFINE s == SlotOf[k]
<1>0. /\ s \in Slots /\ s \in Pages /\ PageOf(s) = s /\ k \in KeysOf(s)
      /\ reading[s] # NotReading => proc[s] = IdleProc /\ ~reading[s].again
      /\ s = "theme" /\ reading[s] # NotReading => timer = NoEdit
      /\ OneAtATime(s)
    BY DEF Optimistic, Slots, Pages, PageOf, KeysOf, OneAtATime
<1>01. \A h \in Pages : h # s => k \notin KeysOf(h)
    BY <1>0 DEF KeysOf
<1>02. \A t \in Slots : proc[t].edit # NoEdit =>
          proc[t].edit \in Edit /\ proc[t].edit.key \in Key /\ SlotOf[proc[t].edit.key] = t
    BY DEF WellFormed, ProcsOK, Own, Edit
<1> HIDE DEF s
<1>03. AsAsked(k) <=>
         /\ reading[s] = NotReading => proc[s].step = "failed" \/ shown[k] = wanted[k]
         /\ reading[s].step = "read" => reading[s].got[k] = stored[k]
    BY DEF AsAsked, s
<1>04. AsAsked(k)' <=>
         /\ reading'[s] = NotReading => proc'[s].step = "failed" \/ shown'[k] = wanted'[k]
         /\ reading'[s].step = "read" => reading'[s].got[k] = stored'[k]
    BY DEF AsAsked, s
<1>05. IdleProc.step = "idle" /\ NotReading.step = "idle"
    BY DEF IdleProc, NotReading
<1>1. ASSUME NEW e \in Edit, e.key \in user.keys, Act(e) PROVE AsAsked(k)'
    <2> DEFINE t == SlotOf[e.key]
    <2>1. t \in Slots /\ e.key \in Key /\ QuietPage(PageOf(t))
        BY <1>1, PanelAssumption DEF Act, Enabled, Careful, Edit
    <2>2. UNCHANGED <<stored, reading>>
        BY <1>1 DEF Act
    <2>3. CASE t = s
        <3>1. reading[s] = NotReading /\ proc[s] = IdleProc
            BY <1>0, <2>1, <2>3 DEF QuietPage
        <3>2. shown' = [shown EXCEPT ![e.key] = e.value] /\ wanted' = [wanted EXCEPT ![e.key] = e.value]
            BY <1>1, <2>3 DEF Act, s
        <3>3. shown'[k] = wanted'[k]
            BY <1>03, <1>05, <2>1, <3>1, <3>2 DEF WellFormed, TypeOK
        <3>4. QED
            BY <1>04, <1>05, <2>2, <3>1, <3>3
    <2>4. CASE t # s
        <3>1. shown'[k] = shown[k] /\ wanted'[k] = wanted[k]
            BY <1>1, <2>1, <2>4 DEF Act, WellFormed, TypeOK, s
        <3>2. proc'[s] = proc[s]
            BY <1>0, <1>1, <2>4 DEF Act, Run, WellFormed, TypeOK
        <3>3. QED
            BY <1>03, <1>04, <1>0, <2>2, <3>1, <3>2
    <2>5. QED
        BY <2>3, <2>4
<1>2. CASE Fire
    <2>1. UNCHANGED <<shown, stored, reading, wanted>> /\ Run("theme", timer)
        BY <1>2 DEF Fire
    <2>2. proc[s].step = "failed" => proc'[s].step = "failed"
        BY <1>0, <2>1 DEF Run, WellFormed, TypeOK, IdleProc, Slots
    <2>3. QED
        BY <1>0, <1>03, <1>04, <2>1, <2>2
<1>3. ASSUME NEW t \in Slots, Accept(t) \/ Reject(t) PROVE AsAsked(k)'
    <2>1. proc[t] # IdleProc /\ UNCHANGED <<shown, reading>> /\ proc[t].step = "running"
        BY <1>05, <1>3 DEF Accept, Reject
    <2>2. CASE t = s
        <3>1. reading[s] = NotReading /\ shown[k] = wanted[k]
            BY <1>0, <1>03, <2>1, <2>2
        <3>2. proc'[s].step = "failed" \/ wanted' = wanted
            BY <1>3, <2>2 DEF Accept, Reject, WellFormed, TypeOK
        <3>3. QED
            BY <1>04, <1>05, <2>1, <3>1, <3>2
    <2>3. CASE t # s
        <3>1. proc[t].edit.key # k /\ proc[t].edit.key \in Key
            BY <1>02, <2>1, <2>3 DEF s, WellFormed, ProcsOK
        <3>2. stored'[k] = stored[k] /\ wanted'[k] = wanted[k] /\ proc'[s] = proc[s]
            BY <1>0, <1>3, <2>3, <3>1 DEF Accept, Reject, WellFormed, TypeOK
        <3>3. QED
            BY <1>0, <1>03, <1>04, <2>1, <3>2
    <2>4. QED
        BY <2>2, <2>3
<1>4. ASSUME NEW t \in Slots, Exited(t) PROVE AsAsked(k)'
    <2> DEFINE back == ReadBack(t, proc[t].step = "ok")
    <2>1. /\ UNCHANGED <<shown, stored, wanted>> /\ Refetch(back)
          /\ proc[t] # IdleProc /\ proc[t].step \in {"ok", "failed"}
        BY <1>05, <1>4 DEF Exited
    <2>2. /\ s \notin back => reading'[s] = reading[s]
          /\ s \in back => \/ reading'[s] = Reading
                           \/ /\ reading'[s].again /\ reading'[s].step = reading[s].step
                              /\ reading'[s].got = reading[s].got
        BY <1>0, <2>1, RefetchType
    <2>3. Reading # NotReading /\ Reading.step = "started" /\ ~NotReading.again
        BY DEF Reading, NotReading
    <2>4. CASE t = s
        <3>1. reading[s] = NotReading
            BY <1>0, <2>1, <2>4
        <3>2. CASE proc[s].step = "failed"
            <4>1. s \in back
                BY <2>4, <3>2 DEF ReadBack, Optimistic, s
            <4>2. QED
                BY <1>04, <1>05, <2>2, <2>3, <3>1, <4>1
        <3>3. CASE proc[s].step # "failed"
            BY <1>03, <1>04, <2>1, <2>2, <2>3, <1>05, <3>1, <3>3
        <3>4. QED
            BY <3>2, <3>3
    <2>5. CASE t # s
        <3>1. proc'[s] = proc[s]
            BY <1>0, <1>4, <2>5 DEF Exited, WellFormed, TypeOK
        <3>2. QED
            BY <1>03, <1>04, <2>1, <2>2, <2>3, <3>1
    <2>6. QED
        BY <2>4, <2>5
<1>5. ASSUME NEW h \in Pages, ListRead(h) PROVE AsAsked(k)'
    <2>1. UNCHANGED <<shown, stored, proc, wanted>>
        BY <1>5 DEF ListRead
    <2>2. CASE h = s
        <3>1. reading'[s].step = "read" /\ reading'[s].got = [j \in KeysOf(s) |-> stored[j]]
            BY <1>0, <1>5, <2>2 DEF ListRead, WellFormed, ReadingsOK
        <3>2. QED
            BY <1>0, <1>04, <1>05, <2>1, <3>1
    <2>3. CASE h # s
        BY <1>0, <1>03, <1>04, <1>5, <2>1, <2>3 DEF ListRead, WellFormed, ReadingsOK
    <2>4. QED
        BY <2>2, <2>3
<1>6. ASSUME NEW h \in Pages, ShowRead(h) PROVE AsAsked(k)'
    <2>1. UNCHANGED <<stored, proc, wanted>> /\ reading' = [reading EXCEPT ![h] = ReadEnded(h)]
        BY <1>6 DEF ShowRead
    <2>2. CASE h = s
        <3>1. reading[s] # NotReading /\ reading[s].step = "read"
            BY <1>05, <1>6, <2>2 DEF ShowRead
        <3>2. proc[s] = IdleProc /\ (s = "theme" => timer = NoEdit) /\ ~reading[s].again
            BY <1>0, <3>1
        <3>3. stored[k] = wanted[k]
            <4>1. timer # NoEdit /\ timer.key = k => s = "theme"
                BY DEF WellFormed, ProcsOK, Own, s
            <4>2. QED
                BY <1>05, <3>2, <4>1 DEF Kept, s
        <3>4. shown'[k] = stored[k]
            BY <1>0, <1>03, <1>6, <2>2, <3>1 DEF ShowRead
        <3>5. reading'[s] = NotReading
            BY <1>0, <2>1, <2>2, <3>2, ReadEndedType
        <3>6. QED
            BY <1>04, <1>05, <2>1, <3>3, <3>4, <3>5
    <2>3. CASE h # s
        <3>1. shown'[k] = shown[k] /\ reading'[s] = reading[s]
            BY <1>0, <1>01, <1>6, <2>1, <2>3, ReadEndedType DEF ShowRead
        <3>2. QED
            BY <1>03, <1>04, <2>1, <3>1
    <2>4. QED
        BY <2>2, <2>3
<1>7. ASSUME NEW h \in Pages, ShowFailure(h) PROVE AsAsked(k)'
    BY <1>7 DEF ShowFailure, Careful
<1>8. ASSUME NEW h \in Pages, Refresh(h) PROVE AsAsked(k)'
    <2>1. UNCHANGED <<shown, stored, proc, wanted>> /\ Refetch({h})
        BY <1>8 DEF Refresh
    <2>2. \/ reading'[s] = reading[s]
          \/ reading'[s] = Reading
          \/ /\ reading'[s].again /\ reading'[s].step = reading[s].step
             /\ reading'[s].got = reading[s].got
        BY <1>0, <2>1, RefetchType
    <2>3. QED
        BY <1>03, <1>04, <2>1, <2>2 DEF Reading, NotReading
<1>9. CASE UNCHANGED vars
    BY <1>03, <1>04, <1>9 DEF vars
<1>10. \A j \in user.keys : PageOf(SlotOf[j]) \in Pages
    BY UserType, PageIsPage, PanelAssumption DEF WellFormed, TypeOK
<1>11. QED
    BY <1>1, <1>2, <1>3, <1>4, <1>5, <1>6, <1>7, <1>8, <1>9, <1>10 DEF Next, Internal

LEMMA OrderlyInit == Init => Followed /\ Orderly
<1> SUFFICES ASSUME Init PROVE Followed /\ Orderly
    OBVIOUS
<1>0. \A k \in Key : SlotOf[k] \in Slots /\ PageOf(SlotOf[k]) \in Pages
    BY PanelAssumption, PageIsPage
<1>1. Followed
    BY <1>0 DEF Init, Followed, AsRead, NotReading
<1>2. \A g \in Optimistic : g \in Pages /\ g \in Slots
    BY DEF Optimistic, Pages, Slots
<1>3. \A g \in Optimistic : OneAtATime(g)
    BY <1>2 DEF Init, OneAtATime
<1>4. \A k \in Key : SlotOf[k] \in Optimistic => AsAsked(k)
    BY <1>2 DEF Init, AsAsked, NotReading
<1>5. QED
    BY <1>1, <1>3, <1>4 DEF Orderly

(* A page at rest shows what is stored, or nothing after a failed listing,  *)
(* for a user who waits for each page and whose listings succeed, and for   *)
(* one who leaves the optimistic controls alone (setFont, setAppEnabled,    *)
(* setUserGroup and their like), however hasty and whatever fails.          *)
THEOREM ShownAlwaysStored ==
    ASSUME \A u \in Users :
             (u.waits /\ ~u.fails) \/ \A k \in u.keys : SlotOf[k] \notin Optimistic
    PROVE  Spec => []ShownIsStored
<1> DEFINE PageInv == WellFormed /\ Followed /\ (Careful => Kept /\ Orderly)
<1>1. Init => PageInv
    BY WellFormedInit, KeptInit, OrderlyInit
<1>2. PageInv /\ [Next]_vars => PageInv'
    <2> SUFFICES ASSUME PageInv, [Next]_vars PROVE PageInv'
        OBVIOUS
    <2>1. Careful' <=> Careful
        BY UserStays DEF Careful
    <2>2. ASSUME Careful PROVE Kept' /\ Orderly'
        <3>1. Kept'
            BY <2>2, KeptNext DEF Calm, Careful
        <3>2. \A g \in Optimistic : OneAtATime(g)'
            BY <2>2, OneAtATimeNext DEF Orderly
        <3>3. \A k \in Key : SlotOf[k] \in Optimistic => AsAsked(k)'
            BY <2>2, AsAskedNext DEF Orderly
        <3>4. QED
            BY <3>1, <3>2, <3>3 DEF Orderly
    <2>3. QED
        BY <2>1, <2>2, WellFormedNext, FollowedNext
<1>3. PageInv => ShownIsStored
    <2> SUFFICES ASSUME PageInv, NEW k \in Key, QuietPage(PageOf(SlotOf[k]))
                 PROVE  shown[k] \in {stored[k], Blank}
        BY DEF ShownIsStored
    <2> DEFINE s == SlotOf[k]
    <2>1. s \in Slots /\ proc[s] = IdleProc /\ reading[PageOf(s)] = NotReading
        BY PanelAssumption DEF QuietPage
    <2>2. CASE s \notin Optimistic \/ ~Used(s)
        <3>1. AsRead(k)
            BY <2>2 DEF Followed
        <3>2. QED
            BY <2>1, <3>1 DEF AsRead, IdleProc, NotReading
    <2>3. CASE s \in Optimistic /\ Used(s)
        <3>1. Careful
            BY <2>3 DEF Used, Careful, WellFormed, TypeOK
        <3>2. AsAsked(k) /\ PageOf(s) = s
            BY <2>3, <3>1 DEF Orderly, Optimistic, PageOf
        <3>3. shown[k] = wanted[k]
            BY <2>1, <3>2 DEF AsAsked, IdleProc
        <3>4. stored[k] = wanted[k]
            BY <3>1, KeptAtRest
        <3>5. QED
            BY <3>3, <3>4
    <2>4. QED
        BY <2>2, <2>3
<1>4. QED
    BY <1>1, <1>2, <1>3, PTL DEF Spec
=============================================================================

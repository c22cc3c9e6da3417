-------------------------- MODULE ConfigEdit_proofs --------------------------
(***************************************************************************)
(* Theorems about vayume-config's editing processes, for any number of     *)
(* them, any users, apps, fields and settings, any commands and any of the *)
(* faults: type correctness, and the invariants that survive every         *)
(* interleaving.                                                           *)
(***************************************************************************)
EXTENDS ConfigRefinesStore, TLAPS

(* Every field editor maps a version of the file to a version of the file.  *)
LEMMA WithAttrType ==
    ASSUME NEW c \in Content, NEW u \in User, NEW a \in Attr, NEW items \in SUBSET Item
    PROVE  WithAttr(c, u, a, items) \in Content
BY DEF WithAttr, Content

LEMMA WithUserType ==
    ASSUME NEW c \in Content, NEW u \in User
    PROVE  WithUser(c, u) \in Content
<1>1. NewUserAttrs \in [Attr -> SUBSET Item]
    BY ConfigAssumption DEF NewUserAttrs
<1>2. CASE u \in c.users
    BY <1>2 DEF WithUser, Content
<1>3. CASE u \notin c.users
    BY <1>1, <1>3 DEF WithUser, Content
<1>4. QED
    BY <1>2, <1>3

LEMMA WithoutUserType ==
    ASSUME NEW c \in Content, NEW u \in User
    PROVE  WithoutUser(c, u) \in Content
<1>1. NewUserAttrs \in [Attr -> SUBSET Item]
    BY ConfigAssumption DEF NewUserAttrs
<1>2. NoAttrs \in [Attr -> SUBSET Item]
    BY DEF NoAttrs
<1>3. CASE u \in c.twice
    BY <1>1, <1>3 DEF WithoutUser, Content
<1>4. CASE u \notin c.twice
    BY <1>2, <1>4 DEF WithoutUser, Content
<1>5. QED
    BY <1>3, <1>4

LEMMA LineTypes ==
    ASSUME NEW c \in Content
    PROVE  /\ \A a \in App, on \in BOOLEAN : AppLine(c, a, on) \in Content
           /\ \A f \in Field, v \in Value : BlockLine(c, f, v) \in Content
           /\ \A k \in Setting, on \in BOOLEAN : FlatLine(c, k, on) \in Content
BY DEF AppLine, BlockLine, FlatLine, Content

(* What every command computes from a version of the file is one too.       *)
LEMMA ApplyType ==
    ASSUME NEW e \in AllEdits, NEW c \in Content, NEW s \in SUBSET Item
    PROVE  Apply(e, c, s) \in Content
<1>1. CASE e \in AppsSet
    BY <1>1, LineTypes DEF Apply, AppsSet
<1>2. CASE e \in BlockSet
    BY <1>2, LineTypes DEF Apply, BlockSet
<1>3. CASE e \in UserMerge
    <2>1. Merged(e, s) \in SUBSET Item
        BY <1>3 DEF Merged, UserMerge
    <2>2. e.user \in User /\ e.attr \in Attr
        BY <1>3 DEF UserMerge, MergedAttr
    <2>3. Apply(e, c, s) = WithAttr(c, e.user, e.attr, Merged(e, s))
        BY <1>3 DEF Apply, UserMerge
    <2>4. QED
        BY <2>1, <2>2, <2>3, WithAttrType
<1>4. CASE e \in UserReplace
    <2>1. e.user \in User /\ e.attr \in Attr /\ {e.item} \in SUBSET Item
        BY <1>4 DEF UserReplace, ReplacedAttr
    <2>2. Apply(e, c, s) = WithAttr(c, e.user, e.attr, {e.item})
        BY <1>4 DEF Apply, UserReplace
    <2>3. QED
        BY <2>1, <2>2, WithAttrType
<1>5. CASE e \in UserAdd
    BY <1>5, WithUserType DEF Apply, UserAdd
<1>6. CASE e \in UserRemove
    BY <1>6, WithoutUserType DEF Apply, UserRemove
<1>7. CASE e \in SettingEdit
    BY <1>7, LineTypes DEF Apply, SettingEdit
<1>8. QED
    BY <1>1, <1>2, <1>3, <1>4, <1>5, <1>6, <1>7 DEF AllEdits

LEMMA WriteTimeType == now \in Nat => WriteTime \in Nat
BY EditAssumption DEF WriteTime

LEMMA EditsType == Edits \cup HandEdits \subseteq AllEdits
BY EditAssumption

(* What the merging commands read is a set of items.                        *)
LEMMA AttrOfType ==
    ASSUME NEW e \in AllEdits, NEW c \in Content
    PROVE  AttrOf(e, c) \in SUBSET Item
<1>1. CASE e \in UserMerge
    BY <1>1 DEF AttrOf, UserMerge, MergedAttr, Content
<1>2. CASE e \notin UserMerge
    <2>1. e.op # "merge"
        BY <1>2 DEF AllEdits, AppsSet, BlockSet, UserReplace, UserAdd, UserRemove, SettingEdit
    <2>2. QED
        BY <2>1 DEF AttrOf
<1>3. QED
    BY <1>1, <1>2

(* A process leaves "idle" only with a command of Edits: what the other     *)
(* steps read from cmd is a command.                                        *)
Busy == \A p \in Proc : pc[p] # "idle" => cmd[p] \in AllEdits

(* A command about to rename has a temporary file, with an edit in it.      *)
Written == \A p \in Proc : pc[p] \in {"backup", "swap"} => tmp[p] \in File

TypeInv == TypeOK /\ Busy /\ Written

LEMMA TypeInit == Init => TypeInv
<1> SUFFICES ASSUME Init PROVE TypeInv
    OBVIOUS
<1>1. config \in File
    BY EditAssumption DEF Init, File
<1>2. QED
    BY <1>1 DEF Init, TypeInv, TypeOK, Busy, Written, Steps, Results

LEMMA TypeNext == TypeInv /\ [Next]_vars => TypeInv'
<1> SUFFICES ASSUME TypeInv, [Next]_vars PROVE TypeInv'
    OBVIOUS
<1> USE DEF TypeInv, TypeOK, Busy, Written
<1>0. WriteTime \in Nat
    BY WriteTimeType
<1>1. ASSUME NEW p \in Proc, CallerReads(p) PROVE TypeInv'
    BY <1>1 DEF CallerReads
<1>2. ASSUME NEW p \in Proc, NEW e \in Edits, NEW g \in Guards, Begin(p, e, g)
      PROVE  TypeInv'
    <2>1. e \in AllEdits /\ g \in BOOLEAN
        BY EditAssumption
    <2>2. pc' \in [Proc -> Steps] /\ pc'[p] \notin {"backup", "swap"}
        BY <1>2 DEF Begin, Start, Steps
    <2>3. result' \in [Proc -> Results] /\ cmd' \in [Proc -> AllEdits \cup {NoEdit}]
        BY <1>2, <2>1 DEF Begin, Start, Results
    <2>4. snap' \in [Proc -> SUBSET Item] /\ guarded' \in [Proc -> BOOLEAN]
        BY <1>2, <2>1 DEF Begin, Start
    <2>5. Busy' /\ Written'
        BY <1>2, <2>1, <2>2 DEF Begin, Start
    <2>6. QED
        BY <1>2, <2>2, <2>3, <2>4, <2>5 DEF Begin, Start
<1>3. ASSUME NEW p \in Proc, NEW e \in Edits, RefuseStale(p, e) \/ RefuseSelf(p, e)
      PROVE  TypeInv'
    <2>1. e \in AllEdits
        BY EditAssumption
    <2>2. QED
        BY <1>3, <2>1 DEF RefuseStale, RefuseSelf, Results
<1>4. ASSUME NEW p \in Proc, Evaluate(p) PROVE TypeInv'
    <2>1. cmd[p] \in AllEdits /\ config.c \in Content
        BY <1>4 DEF Evaluate, File
    <2>2. AttrOf(cmd[p], config.c) \in SUBSET Item
        BY <2>1, AttrOfType
    <2>3. /\ pc' \in [Proc -> Steps]
          /\ result' \in [Proc -> Results]
          /\ snap' \in [Proc -> SUBSET Item]
        BY <1>4, <2>2 DEF Evaluate, Exit, Steps, Results
    <2>4. Busy' /\ Written'
        BY <1>4 DEF Evaluate, Exit
    <2>5. QED
        BY <1>4, <2>3, <2>4 DEF Evaluate
<1>5. ASSUME NEW p \in Proc, CheckAdmins(p) PROVE TypeInv'
    BY <1>5 DEF CheckAdmins, Exit, Steps, Results
<1>6. ASSUME NEW p \in Proc, WriteTmp(p) PROVE TypeInv'
    <2>1. cmd[p] \in AllEdits /\ config.c \in Content /\ snap[p] \in SUBSET Item
        BY <1>6 DEF WriteTmp, File
    <2>2. [c |-> Apply(cmd[p], config.c, snap[p]), t |-> WriteTime] \in File
        BY <2>1, <1>0, ApplyType DEF File
    <2>3. CASE Finds(cmd[p], config.c)
        BY <1>6, <2>2, <2>3, <1>0 DEF WriteTmp, Exit, Steps
    <2>4. CASE ~Finds(cmd[p], config.c)
        BY <1>6, <2>4 DEF WriteTmp, Exit, Steps, Results
    <2>5. QED
        BY <2>3, <2>4
<1>7. ASSUME NEW p \in Proc, Backup(p) PROVE TypeInv'
    BY <1>7 DEF Backup, Steps
<1>8. ASSUME NEW p \in Proc, Swap(p) PROVE TypeInv'
    BY <1>8 DEF Swap, Exit, Steps, Results
<1>9. ASSUME NEW p \in Proc, Validate(p) PROVE TypeInv'
    BY <1>9 DEF Validate, Steps
<1>10. ASSUME NEW p \in Proc, Keep(p) PROVE TypeInv'
    BY <1>10 DEF Keep, Exit, Steps, Results
<1>11. ASSUME NEW p \in Proc, Revert(p) PROVE TypeInv'
    <2>1. config' \in File
        BY <1>11 DEF Revert
    <2>2. QED
        BY <1>11, <2>1 DEF Revert, Exit, Steps, Results
<1>12. ASSUME NEW p \in Proc, Interrupt(p) PROVE TypeInv'
    BY <1>12 DEF Interrupt, Exit, Steps, Results
<1>13. ASSUME NEW e \in HandEdits, HandEdit(e) PROVE TypeInv'
    <2>1. e \in AllEdits /\ config.c \in Content
        BY EditAssumption DEF File
    <2>2. Apply(e, config.c, AttrOf(e, config.c)) \in Content
        BY <2>1, AttrOfType, ApplyType
    <2>3. config' \in File /\ now' \in Nat
        BY <1>13, <2>2, <1>0 DEF HandEdit, File
    <2>4. QED
        BY <1>13, <2>3 DEF HandEdit
<1>14. CASE UNCHANGED vars
    BY <1>14 DEF vars
<1>15. QED
    BY <1>1, <1>2, <1>3, <1>4, <1>5, <1>6, <1>7, <1>8, <1>9, <1>10, <1>11, <1>12,
       <1>13, <1>14 DEF Next, Step

(* vayume-config's files, program counters and clock keep their types in    *)
(* every behaviour.                                                         *)
THEOREM TypeCorrect == Spec => []TypeOK
<1>1. Spec => []TypeInv
    BY TypeInit, TypeNext, PTL DEF Spec
<1>2. TypeInv => TypeOK
    BY DEF TypeInv
<1>3. QED
    BY <1>1, <1>2, PTL

-----------------------------------------------------------------------------
(* What must survive every interleaving has to hold of every version of the *)
(* file that can come back: the file itself, a backup of it, and a          *)
(* temporary file about to be renamed over it.                              *)

(* No editing command but a removal of Self takes Self's block away.        *)
LEMMA ApplyKeepsSelf ==
    ASSUME NEW e \in AllEdits, NEW c \in Content, NEW s,
           Self \in c.users, ~(e.op = "remove" /\ e.user = Self)
    PROVE  Self \in Apply(e, c, s).users
<1> USE DEF Content
<1>1. CASE e \in AppsSet
    BY <1>1 DEF Apply, AppsSet, AppLine
<1>2. CASE e \in BlockSet
    BY <1>2 DEF Apply, BlockSet, BlockLine
<1>3. CASE e \in UserMerge
    BY <1>3 DEF Apply, UserMerge, WithAttr
<1>4. CASE e \in UserReplace
    BY <1>4 DEF Apply, UserReplace, WithAttr
<1>5. CASE e \in UserAdd
    BY <1>5 DEF Apply, UserAdd, WithUser
<1>6. CASE e \in UserRemove
    BY <1>6 DEF Apply, UserRemove, WithoutUser
<1>7. CASE e \in SettingEdit
    BY <1>7 DEF Apply, SettingEdit, FlatLine
<1>8. QED
    BY <1>1, <1>2, <1>3, <1>4, <1>5, <1>6, <1>7 DEF AllEdits

RemovesSelf(e) == e.op = "remove" /\ e.user = Self

SelfInv ==
    /\ Self \in config.c.users
    /\ bak # NoFile => Self \in bak.c.users
    /\ \A p \in Proc : pc[p] \in {"backup", "swap"} => Self \in tmp[p].c.users
    /\ \A p \in Proc : pc[p] # "idle" => ~RemovesSelf(cmd[p])

LEMMA SelfInit == Init => SelfInv
<1> SUFFICES ASSUME Init PROVE SelfInv
    OBVIOUS
<1>1. Self \in config.c.users
    BY EditAssumption DEF Init, Working
<1>2. QED
    BY <1>1 DEF Init, SelfInv

LEMMA SelfNext ==
    ASSUME \A e \in HandEdits : ~RemovesSelf(e)
    PROVE  TypeInv /\ SelfInv /\ [Next]_vars => SelfInv'
<1> SUFFICES ASSUME TypeInv, SelfInv, [Next]_vars PROVE SelfInv'
    OBVIOUS
<1> USE DEF TypeInv, TypeOK, SelfInv
<1>1. ASSUME NEW p \in Proc, CallerReads(p) PROVE SelfInv'
    BY <1>1 DEF CallerReads
<1>2. ASSUME NEW p \in Proc, NEW e \in Edits, NEW g \in Guards, Begin(p, e, g)
      PROVE  SelfInv'
    BY <1>2 DEF Begin, Start, RemovesSelf
<1>3. ASSUME NEW p \in Proc, NEW e \in Edits, RefuseStale(p, e) \/ RefuseSelf(p, e)
      PROVE  SelfInv'
    BY <1>3 DEF RefuseStale, RefuseSelf
<1>4. ASSUME NEW p \in Proc, Evaluate(p) PROVE SelfInv'
    BY <1>4 DEF Evaluate, Exit
<1>5. ASSUME NEW p \in Proc, CheckAdmins(p) PROVE SelfInv'
    BY <1>5 DEF CheckAdmins, Exit
<1>6. ASSUME NEW p \in Proc, WriteTmp(p) PROVE SelfInv'
    <2>1. cmd[p] \in AllEdits /\ config.c \in Content
        BY <1>6 DEF WriteTmp, File, Busy
    <2>2. Self \in Apply(cmd[p], config.c, snap[p]).users
        BY <1>6, <2>1, ApplyKeepsSelf DEF WriteTmp, RemovesSelf
    <2>3. CASE Finds(cmd[p], config.c)
        <3>1. tmp'[p].c = Apply(cmd[p], config.c, snap[p])
            BY <1>6, <2>3 DEF WriteTmp
        <3>2. \A q \in Proc : q # p => tmp'[q] = tmp[q] /\ pc'[q] = pc[q]
            BY <1>6, <2>3 DEF WriteTmp
        <3>3. \A q \in Proc : pc'[q] \in {"backup", "swap"} => Self \in tmp'[q].c.users
            BY <2>2, <3>1, <3>2
        <3>4. QED
            BY <1>6, <2>3, <3>3 DEF WriteTmp
    <2>4. CASE ~Finds(cmd[p], config.c)
        BY <1>6, <2>4 DEF WriteTmp, Exit
    <2>5. QED
        BY <2>3, <2>4
<1>7. ASSUME NEW p \in Proc, Backup(p) PROVE SelfInv'
    BY <1>7 DEF Backup
<1>8. ASSUME NEW p \in Proc, Swap(p) PROVE SelfInv'
    BY <1>8 DEF Swap, Exit
<1>9. ASSUME NEW p \in Proc, Validate(p) PROVE SelfInv'
    BY <1>9 DEF Validate
<1>10. ASSUME NEW p \in Proc, Keep(p) PROVE SelfInv'
    BY <1>10 DEF Keep, Exit
<1>11. ASSUME NEW p \in Proc, Revert(p) PROVE SelfInv'
    BY <1>11 DEF Revert, Exit
<1>12. ASSUME NEW p \in Proc, Interrupt(p) PROVE SelfInv'
    BY <1>12 DEF Interrupt, Exit
<1>13. ASSUME NEW e \in HandEdits, HandEdit(e) PROVE SelfInv'
    <2>1. e \in AllEdits /\ config.c \in Content
        BY EditAssumption DEF File
    <2>2. Self \in config'.c.users
        BY <1>13, <2>1, ApplyKeepsSelf DEF HandEdit, RemovesSelf
    <2>3. QED
        BY <1>13, <2>2 DEF HandEdit
<1>14. CASE UNCHANGED vars
    BY <1>14 DEF vars
<1>15. QED
    BY <1>1, <1>2, <1>3, <1>4, <1>5, <1>6, <1>7, <1>8, <1>9, <1>10, <1>11, <1>12,
       <1>13, <1>14 DEF Next, Step

(* The id -un guard of cmd_users_remove is enough for any number of         *)
(* overlapping, interrupted or reverted commands: the account that runs     *)
(* vayume-config never loses its block, unless its owner deletes it by hand.*)
THEOREM SelfAlwaysStays ==
    ASSUME \A e \in HandEdits : ~RemovesSelf(e)
    PROVE  Spec => []SelfStays
<1>1. Spec => []TypeInv
    BY TypeInit, TypeNext, PTL DEF Spec
<1>2. TypeInv /\ SelfInv /\ [Next]_vars => SelfInv'
    BY SelfNext
<1>3. SelfInv => SelfStays
    BY DEF SelfInv, SelfStays
<1>4. QED
    BY <1>1, <1>2, <1>3, SelfInit, PTL DEF Spec

-----------------------------------------------------------------------------
(* Only a command that validates reaches the backup, and each that reached  *)
(* it still has to pass its rm or its mv.                                   *)
BackupInv ==
    /\ \A p \in Proc : pc[p] \in {"backup", "validate", "keep", "revert"} => cmd[p].op # "setting"
    /\ BackupOwned

LEMMA BackupNext ==
    ASSUME "interrupt" \notin Faults
    PROVE  TypeInv /\ BackupInv /\ [Next]_vars => BackupInv'
<1> SUFFICES ASSUME TypeInv, BackupInv, [Next]_vars PROVE BackupInv'
    OBVIOUS
<1> USE DEF TypeInv, TypeOK, BackupInv, BackupOwned, Validating
<1>1. ASSUME NEW p \in Proc, CallerReads(p) PROVE BackupInv'
    BY <1>1 DEF CallerReads
<1>2. ASSUME NEW p \in Proc, NEW e \in Edits, NEW g \in Guards, Begin(p, e, g)
      PROVE  BackupInv'
    BY <1>2 DEF Begin, Start
<1>3. ASSUME NEW p \in Proc, NEW e \in Edits, RefuseStale(p, e) \/ RefuseSelf(p, e)
      PROVE  BackupInv'
    BY <1>3 DEF RefuseStale, RefuseSelf
<1>4. ASSUME NEW p \in Proc, Evaluate(p) PROVE BackupInv'
    BY <1>4 DEF Evaluate, Exit
<1>5. ASSUME NEW p \in Proc, CheckAdmins(p) PROVE BackupInv'
    BY <1>5 DEF CheckAdmins, Exit
<1>6. ASSUME NEW p \in Proc, WriteTmp(p) PROVE BackupInv'
    BY <1>6 DEF WriteTmp, Exit
<1>7. ASSUME NEW p \in Proc, Backup(p) PROVE BackupInv'
    <2>1. Validating(p)'
        BY <1>7 DEF Backup
    <2>2. QED
        BY <1>7, <2>1 DEF Backup
<1>8. ASSUME NEW p \in Proc, Swap(p) PROVE BackupInv'
    BY <1>8 DEF Swap, Exit
<1>9. ASSUME NEW p \in Proc, Validate(p) PROVE BackupInv'
    BY <1>9 DEF Validate
<1>10. ASSUME NEW p \in Proc, Keep(p) \/ Revert(p) PROVE BackupInv'
    BY <1>10 DEF Keep, Revert, Exit
<1>11. ASSUME NEW p \in Proc, Interrupt(p) PROVE BackupInv'
    BY <1>11 DEF Interrupt
<1>12. ASSUME NEW e \in HandEdits, HandEdit(e) PROVE BackupInv'
    BY <1>12 DEF HandEdit
<1>13. CASE UNCHANGED vars
    BY <1>13 DEF vars
<1>14. QED
    BY <1>1, <1>2, <1>3, <1>4, <1>5, <1>6, <1>7, <1>8, <1>9, <1>10, <1>11, <1>12,
       <1>13 DEF Next, Step

(* Backups do not pile up: whatever commands overlap, a .bak lies there     *)
(* only while one of them has still to remove it or rename it back.         *)
THEOREM BackupAlwaysOwned ==
    ASSUME "interrupt" \notin Faults
    PROVE  Spec => []BackupOwned
<1>1. Spec => []TypeInv
    BY TypeInit, TypeNext, PTL DEF Spec
<1>2. Init => BackupInv
    BY DEF Init, BackupInv, BackupOwned
<1>3. TypeInv /\ BackupInv /\ [Next]_vars => BackupInv'
    BY BackupNext
<1>4. BackupInv => BackupOwned
    BY DEF BackupInv
<1>5. QED
    BY <1>1, <1>2, <1>3, <1>4, PTL DEF Spec

-----------------------------------------------------------------------------
(* Edits that cannot break a file that evaluates: no app or setting the     *)
(* flake does not declare, and no second block for a user.                  *)
Sound(e) ==
    /\ e.op = "apps" => e.app \in KnownApp
    /\ e.op = "setting" => (e.on => e.key \in KnownSetting)
    /\ e.op # "add"

LEMMA SoundApply ==
    ASSUME NEW e \in AllEdits, NEW c \in Content, NEW s, Sound(e), Evaluates(c)
    PROVE  Evaluates(Apply(e, c, s))
<1> USE DEF Content, Evaluates, Sound
<1>1. CASE e \in AppsSet
    <2>1. Apply(e, c, s) = AppLine(c, e.app, e.on) /\ e.app \in KnownApp
        BY <1>1 DEF Apply, AppsSet
    <2>2. /\ AppLine(c, e.app, e.on).twice = c.twice
          /\ AppLine(c, e.app, e.on).settings = c.settings
          /\ \A a \in App \ KnownApp : AppLine(c, e.app, e.on).apps[a] = c.apps[a]
        BY <2>1 DEF AppLine
    <2>3. QED
        BY <2>1, <2>2
<1>2. CASE e \in BlockSet
    BY <1>2 DEF Apply, BlockSet, BlockLine
<1>3. CASE e \in UserMerge
    BY <1>3 DEF Apply, UserMerge, WithAttr
<1>4. CASE e \in UserReplace
    BY <1>4 DEF Apply, UserReplace, WithAttr
<1>5. CASE e \in UserAdd
    BY <1>5 DEF UserAdd
<1>6. CASE e \in UserRemove
    BY <1>6 DEF Apply, UserRemove, WithoutUser
<1>7. CASE e \in SettingEdit
    BY <1>7 DEF Apply, SettingEdit, FlatLine
<1>8. QED
    BY <1>1, <1>2, <1>3, <1>4, <1>5, <1>6, <1>7 DEF AllEdits

SoundInv ==
    /\ Evaluates(config.c)
    /\ bak # NoFile => Evaluates(bak.c)
    /\ \A p \in Proc : pc[p] \in {"backup", "swap"} => Evaluates(tmp[p].c)
    /\ \A p \in Proc : pc[p] # "idle" => Sound(cmd[p])

LEMMA SoundNext ==
    ASSUME \A e \in Edits \cup HandEdits : Sound(e)
    PROVE  TypeInv /\ SoundInv /\ [Next]_vars => SoundInv'
<1> SUFFICES ASSUME TypeInv, SoundInv, [Next]_vars PROVE SoundInv'
    OBVIOUS
<1> USE DEF TypeInv, TypeOK, SoundInv
<1>1. ASSUME NEW p \in Proc, NEW e \in Edits, NEW g \in Guards, Begin(p, e, g)
      PROVE  SoundInv'
    BY <1>1 DEF Begin, Start
<1>2. ASSUME NEW p \in Proc, NEW e \in Edits, RefuseStale(p, e) \/ RefuseSelf(p, e)
      PROVE  SoundInv'
    BY <1>2 DEF RefuseStale, RefuseSelf
<1>3. ASSUME NEW p \in Proc, Evaluate(p) PROVE SoundInv'
    BY <1>3 DEF Evaluate, Exit
<1>4. ASSUME NEW p \in Proc, CheckAdmins(p) PROVE SoundInv'
    BY <1>4 DEF CheckAdmins, Exit
<1>5. ASSUME NEW p \in Proc, WriteTmp(p) PROVE SoundInv'
    <2>1. cmd[p] \in AllEdits /\ config.c \in Content /\ Sound(cmd[p])
        BY <1>5 DEF WriteTmp, File, Busy
    <2>2. Evaluates(Apply(cmd[p], config.c, snap[p]))
        BY <2>1, SoundApply
    <2>3. CASE Finds(cmd[p], config.c)
        <3>1. tmp'[p].c = Apply(cmd[p], config.c, snap[p])
            BY <1>5, <2>3 DEF WriteTmp
        <3>2. \A q \in Proc : q # p => tmp'[q] = tmp[q] /\ pc'[q] = pc[q]
            BY <1>5, <2>3 DEF WriteTmp
        <3>3. \A q \in Proc : pc'[q] \in {"backup", "swap"} => Evaluates(tmp'[q].c)
            BY <2>2, <3>1, <3>2
        <3>4. QED
            BY <1>5, <2>3, <3>3 DEF WriteTmp
    <2>4. CASE ~Finds(cmd[p], config.c)
        BY <1>5, <2>4 DEF WriteTmp, Exit
    <2>5. QED
        BY <2>3, <2>4
<1>6. ASSUME NEW p \in Proc, Backup(p) PROVE SoundInv'
    BY <1>6 DEF Backup
<1>7. ASSUME NEW p \in Proc, Swap(p) PROVE SoundInv'
    BY <1>7 DEF Swap, Exit
<1>8. ASSUME NEW p \in Proc, Validate(p) PROVE SoundInv'
    BY <1>8 DEF Validate
<1>9. ASSUME NEW p \in Proc, Keep(p) \/ Revert(p) PROVE SoundInv'
    BY <1>9 DEF Keep, Revert, Exit
<1>10. ASSUME NEW p \in Proc, Interrupt(p) PROVE SoundInv'
    BY <1>10 DEF Interrupt, Exit
<1>11. ASSUME NEW e \in HandEdits, HandEdit(e) PROVE SoundInv'
    <2>1. e \in AllEdits /\ config.c \in Content
        BY EditAssumption DEF File
    <2>2. Evaluates(config'.c)
        BY <1>11, <2>1, SoundApply DEF HandEdit
    <2>3. QED
        BY <1>11, <2>2 DEF HandEdit
<1>12. ASSUME UNCHANGED <<config, bak, tmp, pc, cmd>> PROVE SoundInv'
    BY <1>12
<1>13. QED
    BY <1>1, <1>2, <1>3, <1>4, <1>5, <1>6, <1>7, <1>8, <1>9, <1>10, <1>11, <1>12
    DEF Next, Step, vars, CallerReads

(* Only an edit that fails on its own can leave a broken file behind: if    *)
(* every edit is sound, no interleaving, failing copy or interruption of    *)
(* the unlocked commands does.                                              *)
THEOREM SoundEditsNeverBreak ==
    ASSUME \A e \in Edits \cup HandEdits : Sound(e)
    PROVE  Spec => []NeverLeftBroken
<1>1. Spec => []TypeInv
    BY TypeInit, TypeNext, PTL DEF Spec
<1>2. Init => SoundInv
    BY EditAssumption DEF Init, SoundInv, Working
<1>3. TypeInv /\ SoundInv /\ [Next]_vars => SoundInv'
    BY SoundNext
<1>4. SoundInv => NeverLeftBroken
    BY DEF SoundInv, NeverLeftBroken
<1>5. QED
    BY <1>1, <1>2, <1>3, <1>4, PTL DEF Spec

-----------------------------------------------------------------------------
(* refuse_last_admin, one command at a time.  Between the evaluation and    *)
(* the write nothing else touches the file, so what was evaluated still     *)
(* holds when the editor reads it.                                          *)
Current(p) ==
    LET e == cmd[p] IN
    /\ pc[p] \in {"admins", "write"} /\ e.op = "merge" =>
          snap[p] = config.c.attrs[e.user][e.attr]
    /\ pc[p] = "write" /\ DropsAdmin(e) => Admins(config.c) \ {e.user} # {}

(* An edit computed from what the file says now leaves an admin.            *)
LEMMA ApplyKeepsAdmin ==
    ASSUME NEW e \in AllEdits, NEW c \in Content, NEW s \in SUBSET Item,
           e.op = "merge" => s = c.attrs[e.user][e.attr],
           DropsAdmin(e) => Admins(c) \ {e.user} # {},
           Admins(c) # {}
    PROVE  Admins(Apply(e, c, s)) # {}
<1> USE DEF Content, Admins
<1> DEFINE d == Apply(e, c, s)
<1>a. "extraGroups" \in Attr
    BY ConfigAssumption
<1>1. CASE e \in AppsSet
    BY <1>1 DEF Apply, AppsSet, AppLine
<1>2. CASE e \in BlockSet
    BY <1>2 DEF Apply, BlockSet, BlockLine
<1>3. CASE e \in UserMerge
    <2>1. PICK u \in Admins(c) : DropsAdmin(e) => u # e.user
        OBVIOUS
    <2>2. d = [c EXCEPT !.attrs[e.user][e.attr] = Merged(e, s)] /\ e.op = "merge"
        BY <1>3 DEF Apply, UserMerge, WithAttr
    <2>3. u \in User /\ e.user \in User /\ e.attr \in Attr
        BY <2>1, <1>3 DEF UserMerge, MergedAttr
    <2>4. d.users = c.users
        BY <2>2
    <2>5. CASE u = e.user /\ e.attr = "extraGroups"
        <3>1. d.attrs[u]["extraGroups"] = Merged(e, s)
            BY <2>2, <2>3, <2>5, <1>a
        <3>2. "wheel" \in s
            BY <2>1, <2>2, <2>5
        <3>3. ~(e.item = "wheel" /\ ~e.on)
            BY <2>1, <2>2, <2>5 DEF DropsAdmin
        <3>4. "wheel" \in Merged(e, s)
            BY <3>2, <3>3 DEF Merged
        <3>5. QED
            BY <3>1, <3>4, <2>1, <2>4
    <2>6. CASE ~(u = e.user /\ e.attr = "extraGroups")
        <3>1. d.attrs[u]["extraGroups"] = c.attrs[u]["extraGroups"]
            BY <2>2, <2>3, <2>6, <1>a
        <3>2. QED
            BY <3>1, <2>1, <2>4
    <2>7. QED
        BY <2>5, <2>6
<1>4. CASE e \in UserReplace
    <2>1. d = [c EXCEPT !.attrs[e.user][e.attr] = {e.item}]
        BY <1>4 DEF Apply, UserReplace, WithAttr
    <2>2. e.user \in User /\ e.attr \in Attr /\ e.attr # "extraGroups"
        BY <1>4 DEF UserReplace, ReplacedAttr
    <2>3. \A u \in User : d.attrs[u]["extraGroups"] = c.attrs[u]["extraGroups"]
        BY <2>1, <2>2, <1>a
    <2>4. QED
        BY <2>1, <2>3
<1>5. CASE e \in UserAdd
    BY <1>5 DEF Apply, UserAdd, WithUser
<1>6. CASE e \in UserRemove
    <2>1. d = WithoutUser(c, e.user) /\ DropsAdmin(e)
        BY <1>6 DEF Apply, UserRemove, DropsAdmin
    <2>2. PICK u \in Admins(c) : u # e.user
        BY <2>1
    <2>3. u \in d.users /\ d.attrs[u] = c.attrs[u]
        BY <2>1, <2>2 DEF WithoutUser
    <2>4. QED
        BY <2>2, <2>3
<1>7. CASE e \in SettingEdit
    BY <1>7 DEF Apply, SettingEdit, FlatLine
<1>8. QED
    BY <1>1, <1>2, <1>3, <1>4, <1>5, <1>6, <1>7 DEF AllEdits

AdminInv ==
    /\ Admins(config.c) # {}
    /\ bak # NoFile => Admins(bak.c) # {}
    /\ \A p \in Proc : pc[p] \in {"backup", "swap"} => Admins(tmp[p].c) # {}
    /\ \A p \in Proc : Current(p)

LEMMA AdminNext ==
    ASSUME \A p, q \in Proc : p = q, HandEdits = {}
    PROVE  TypeInv /\ AdminInv /\ [Next]_vars => AdminInv'
<1> SUFFICES ASSUME TypeInv, AdminInv, [Next]_vars PROVE AdminInv'
    OBVIOUS
<1> USE DEF TypeInv, TypeOK, AdminInv, Current
<1>1. ASSUME NEW p \in Proc, NEW e \in Edits, NEW g \in Guards, Begin(p, e, g)
      PROVE  AdminInv'
    <2>1. pc'[p] = "write" => ~DropsAdmin(e) /\ e.op # "merge"
        BY <1>1 DEF Begin, Start, Evaluating
    <2>2. pc'[p] = "admins" => e.op # "merge"
        BY <1>1 DEF Begin, Start, Evaluating
    <2>3. cmd'[p] = e /\ pc'[p] \in {"evaluate", "admins", "write"}
        BY <1>1 DEF Begin, Start
    <2>4. Current(p)'
        BY <2>1, <2>2, <2>3
    <2>5. QED
        BY <1>1, <2>3, <2>4 DEF Begin, Start
<1>2. ASSUME NEW p \in Proc, NEW e \in Edits, RefuseStale(p, e) \/ RefuseSelf(p, e)
      PROVE  AdminInv'
    BY <1>2 DEF RefuseStale, RefuseSelf
<1>3. ASSUME NEW p \in Proc, Evaluate(p) PROVE AdminInv'
    <2>1. UNCHANGED <<config, bak, tmp, cmd>>
        BY <1>3 DEF Evaluate
    <2>2. pc'[p] \in {"idle", "admins", "write"}
        BY <1>3 DEF Evaluate, Exit
    <2>3. pc'[p] # "idle" => snap'[p] = AttrOf(cmd[p], config.c)
        BY <1>3 DEF Evaluate, Exit
    <2>4. pc'[p] = "write" => ~DropsAdmin(cmd[p])
        BY <1>3 DEF Evaluate, Exit
    <2>5. Current(p)'
        BY <2>1, <2>2, <2>3, <2>4 DEF AttrOf
    <2>6. QED
        BY <2>1, <2>2, <2>5
<1>4. ASSUME NEW p \in Proc, CheckAdmins(p) PROVE AdminInv'
    <2>1. UNCHANGED <<config, bak, tmp, cmd, snap>>
        BY <1>4 DEF CheckAdmins
    <2>2. pc'[p] \in {"idle", "write"}
        BY <1>4 DEF CheckAdmins, Exit
    <2>3. pc'[p] = "write" => Admins(config.c) \ {cmd[p].user} # {}
        BY <1>4 DEF CheckAdmins, Exit
    <2>4. Current(p)'
        BY <1>4, <2>1, <2>2, <2>3 DEF CheckAdmins
    <2>5. QED
        BY <2>1, <2>2, <2>4
<1>5. ASSUME NEW p \in Proc, WriteTmp(p) PROVE AdminInv'
    <2>1. cmd[p] \in AllEdits /\ config.c \in Content /\ snap[p] \in SUBSET Item
        BY <1>5 DEF WriteTmp, File, Busy
    <2>2. Admins(Apply(cmd[p], config.c, snap[p])) # {}
        BY <1>5, <2>1, ApplyKeepsAdmin DEF WriteTmp
    <2>3. pc'[p] \in {"idle", "backup", "swap"} /\ UNCHANGED <<config, bak>>
        BY <1>5 DEF WriteTmp, Exit
    <2>4. pc'[p] \in {"backup", "swap"} => tmp'[p].c = Apply(cmd[p], config.c, snap[p])
        BY <1>5 DEF WriteTmp, Exit
    <2>5. QED
        BY <2>2, <2>3, <2>4
<1>6. ASSUME NEW p \in Proc, Backup(p) PROVE AdminInv'
    BY <1>6 DEF Backup
<1>7. ASSUME NEW p \in Proc, Swap(p) PROVE AdminInv'
    <2>1. pc'[p] \in {"idle", "validate"} /\ config' = tmp[p] /\ bak' = bak
        BY <1>7 DEF Swap, Exit
    <2>2. QED
        BY <1>7, <2>1 DEF Swap
<1>8. ASSUME NEW p \in Proc, Validate(p) PROVE AdminInv'
    BY <1>8 DEF Validate
<1>9. ASSUME NEW p \in Proc, Keep(p) \/ Revert(p) PROVE AdminInv'
    <2>1. pc'[p] = "idle" /\ config' \in {config, bak} /\ bak' = NoFile
        BY <1>9 DEF Keep, Revert, Exit
    <2>2. Admins(config'.c) # {}
        BY <1>9 DEF Keep, Revert
    <2>3. QED
        BY <2>1, <2>2
<1>10. ASSUME NEW p \in Proc, Interrupt(p) PROVE AdminInv'
    <2>1. pc'[p] = "idle" /\ UNCHANGED <<config, bak>>
        BY <1>10 DEF Interrupt, Exit
    <2>2. QED
        BY <2>1
<1>11. ASSUME UNCHANGED <<config, bak, tmp, pc, cmd, snap>> PROVE AdminInv'
    BY <1>11
<1>12. QED
    BY <1>1, <1>2, <1>3, <1>4, <1>5, <1>6, <1>7, <1>8, <1>9, <1>10, <1>11
    DEF Next, Step, vars, CallerReads

(* One command at a time, interrupted or not, the file always names an      *)
(* admin: refuse_last_admin is right for every set of users, groups and     *)
(* commands as long as no two commands overlap.                             *)
THEOREM SerialAdminAlways ==
    ASSUME \A p, q \in Proc : p = q, HandEdits = {}
    PROVE  Spec => []SomeAdmin
<1>1. Spec => []TypeInv
    BY TypeInit, TypeNext, PTL DEF Spec
<1>2. Init => AdminInv
    BY EditAssumption DEF Init, AdminInv, Current, Working
<1>3. TypeInv /\ AdminInv /\ [Next]_vars => AdminInv'
    BY AdminNext
<1>4. AdminInv => SomeAdmin
    BY DEF AdminInv, SomeAdmin
<1>5. QED
    BY <1>1, <1>2, <1>3, <1>4, PTL DEF Spec

-----------------------------------------------------------------------------
(***************************************************************************)
(* One command at a time, with no fault and no text editor, vayume-config  *)
(* implements ConfigStore, whatever the users, apps, fields and settings:  *)
(* every command either commits the edit it was given, computed from the   *)
(* configuration that was stored, or leaves that configuration and its     *)
(* modification time alone.                                                *)
(***************************************************************************)

(* The abstract store reads a configuration the way the commands do.        *)
LEMMA SameWords ==
    ASSUME NEW c, NEW e, NEW s
    PROVE  /\ Store!Evaluates(c) <=> Evaluates(c)
           /\ Store!Admins(c) = Admins(c)
           /\ Store!DropsAdmin(e) <=> DropsAdmin(e)
           /\ Store!Apply(e, c, s) = Apply(e, c, s)
<1>1. Store!Evaluates(c) <=> Evaluates(c)
    BY DEF Store!Evaluates, Evaluates
<1>2. Store!Admins(c) = Admins(c)
    BY DEF Store!Admins, Admins
<1>3. Store!DropsAdmin(e) <=> DropsAdmin(e)
    BY DEF Store!DropsAdmin, DropsAdmin
<1>4. Store!Apply(e, c, s) = Apply(e, c, s)
    BY DEF Store!Apply, Apply, Store!AppLine, AppLine, Store!BlockLine, BlockLine,
           Store!FlatLine, FlatLine, Store!WithAttr, WithAttr, Store!WithUser, WithUser,
           Store!WithoutUser, WithoutUser, Store!Merged, Merged,
           Store!NewUserAttrs, NewUserAttrs, Store!NoAttrs, NoAttrs
<1>5. QED
    BY <1>1, <1>2, <1>3, <1>4

-----------------------------------------------------------------------------
(* What the checks of a command have established of the file it edits.      *)
Granted(e, c) ==
    /\ e.op = "add" => e.user \notin c.users
    /\ DropsAdmin(e) => Admins(c) \ {e.user} # {}
    /\ ~RemovesSelf(e)
    /\ e.op = "remove" => e.user \notin c.twice
    /\ Finds(e, c)

(* File new is the edit e of file old, and not older than it.               *)
Replaces(e, old, new) ==
    /\ new.c = Apply(e, old.c, AttrOf(e, old.c))
    /\ new.t >= old.t
    /\ Granted(e, old.c)

(* A committed edit is a step of the abstract store.                        *)
LEMMA Commits ==
    ASSUME NEW e \in Edits, Stored \in File, Stored' \in File,
           Replaces(e, Stored, Stored'),
           e.op # "setting" => Evaluates(Stored'.c)
    PROVE  Store!StoreNext
<1> DEFINE new == Apply(e, Stored.c, AttrOf(e, Stored.c))
<1>1. Stored'.c = new /\ Stored'.t >= Stored.t /\ Granted(e, Stored.c)
    BY DEF Replaces
<1>2. Stored' = [c |-> new, t |-> Stored'.t]
    BY <1>1 DEF File
<1>3. Store!Allowed(e, Stored.c, new)
    BY <1>1, SameWords DEF Store!Allowed, Granted, RemovesSelf, Finds
<1>4. Store!Apply(e, Stored.c, AttrOf(e, Stored.c)) = new
    BY SameWords
<1>5. Store!Accept(e)
    BY <1>1, <1>2, <1>3, <1>4 DEF Store!Accept, AttrOf
<1>6. QED
    BY <1>5 DEF Store!StoreNext

-----------------------------------------------------------------------------
(* Where p's command is tells what it has established of the file, and      *)
(* which of the file and its backup is the stored configuration.            *)
CheckedSoFar(p) ==
    LET e == cmd[p] IN
    /\ pc[p] # "idle" => e \in Edits /\ ~RemovesSelf(e)
    /\ pc[p] \in {"admins", "write"} =>
          /\ snap[p] = AttrOf(e, config.c)
          /\ e.op = "add" => e.user \notin config.c.users
    /\ pc[p] = "write" /\ DropsAdmin(e) =>
          /\ Admins(config.c) \ {e.user} # {}
          /\ config.c.twice = {}

BeforeSwap(p) ==
    /\ pc[p] \in {"idle", "evaluate", "admins", "write", "backup"} => bak = NoFile
    /\ pc[p] \in {"backup", "swap"} => Replaces(cmd[p], config, tmp[p])
    /\ pc[p] = "backup" => cmd[p].op # "setting"
    /\ pc[p] = "swap" => bak = IF cmd[p].op = "setting" THEN NoFile ELSE config

AfterSwap(p) ==
    /\ pc[p] \in {"validate", "keep", "revert"} => bak \in File /\ cmd[p].op # "setting"
    /\ pc[p] \in {"validate", "keep"} => Replaces(cmd[p], bak, config)
    /\ pc[p] = "keep" => Evaluates(config.c)

(* No file is stamped later than now.                                       *)
NotAhead ==
    /\ config.t <= now
    /\ bak # NoFile => bak.t <= now
    /\ \A p \in Proc : pc[p] \in {"backup", "swap"} => tmp[p].t <= now

Established(p) == CheckedSoFar(p) /\ BeforeSwap(p) /\ AfterSwap(p)

SerialInv == TypeInv /\ NotAhead /\ \A p \in Proc : Established(p)

Serial ==
    /\ \A p, q \in Proc : p = q
    /\ HandEdits = {}
    /\ Faults = {}

LEMMA NotAheadNext == TypeInv /\ NotAhead /\ [Next]_vars => NotAhead'
<1> SUFFICES ASSUME TypeInv, NotAhead, [Next]_vars PROVE NotAhead'
    OBVIOUS
<1> USE DEF TypeInv, TypeOK, Written, NotAhead
<1>0. WriteTime \in Nat /\ now <= WriteTime
    BY WriteTimeType DEF WriteTime
<1>1. config.t \in Nat /\ \A p \in Proc : pc[p] \in {"backup", "swap"} => tmp[p].t \in Nat
    BY DEF File
<1>2. bak # NoFile => bak.t \in Nat
    BY DEF File
<1>3. ASSUME NEW p \in Proc, CallerReads(p) PROVE NotAhead'
    BY <1>3 DEF CallerReads
<1>4. ASSUME NEW p \in Proc, NEW e \in Edits, NEW g \in Guards, Begin(p, e, g)
      PROVE  NotAhead'
    BY <1>4 DEF Begin, Start
<1>5. ASSUME NEW p \in Proc, NEW e \in Edits, RefuseStale(p, e) \/ RefuseSelf(p, e)
      PROVE  NotAhead'
    BY <1>5 DEF RefuseStale, RefuseSelf
<1>6. ASSUME NEW p \in Proc, Evaluate(p) \/ CheckAdmins(p) PROVE NotAhead'
    BY <1>6 DEF Evaluate, CheckAdmins, Exit
<1>7. ASSUME NEW p \in Proc, WriteTmp(p) PROVE NotAhead'
    <2>1. CASE Finds(cmd[p], config.c)
        <3>1. now' = WriteTime /\ tmp'[p].t = WriteTime /\ UNCHANGED <<config, bak>>
            BY <1>7, <2>1 DEF WriteTmp
        <3>2. \A q \in Proc : q # p => tmp'[q] = tmp[q] /\ pc'[q] = pc[q]
            BY <1>7, <2>1 DEF WriteTmp
        <3>3. \A q \in Proc : pc'[q] \in {"backup", "swap"} => tmp'[q].t <= now'
            BY <1>0, <1>1, <3>1, <3>2
        <3>4. QED
            BY <1>0, <1>1, <1>2, <3>1, <3>3
    <2>2. CASE ~Finds(cmd[p], config.c)
        BY <1>7, <2>2 DEF WriteTmp, Exit
    <2>3. QED
        BY <2>1, <2>2
<1>8. ASSUME NEW p \in Proc, Backup(p) PROVE NotAhead'
    BY <1>8 DEF Backup
<1>9. ASSUME NEW p \in Proc, Swap(p) PROVE NotAhead'
    BY <1>9 DEF Swap, Exit
<1>10. ASSUME NEW p \in Proc, Validate(p) PROVE NotAhead'
    BY <1>10 DEF Validate
<1>11. ASSUME NEW p \in Proc, Keep(p) \/ Revert(p) PROVE NotAhead'
    BY <1>11 DEF Keep, Revert, Exit
<1>12. ASSUME NEW p \in Proc, Interrupt(p) PROVE NotAhead'
    BY <1>12 DEF Interrupt, Exit
<1>13. ASSUME NEW e \in HandEdits, HandEdit(e) PROVE NotAhead'
    BY <1>0, <1>1, <1>2, <1>13 DEF HandEdit
<1>14. CASE UNCHANGED vars
    BY <1>14 DEF vars
<1>15. QED
    BY <1>3, <1>4, <1>5, <1>6, <1>7, <1>8, <1>9, <1>10, <1>11, <1>12, <1>13, <1>14
    DEF Next, Step

(* Replacing needs only that the editor read what the checks read.          *)
LEMMA WrittenReplaces ==
    ASSUME NEW p \in Proc, TypeInv, NotAhead, Established(p), WriteTmp(p), Finds(cmd[p], config.c)
    PROVE  Replaces(cmd[p], config, tmp'[p])
<1> USE DEF TypeInv, TypeOK
<1>1. tmp'[p] = [c |-> Apply(cmd[p], config.c, snap[p]), t |-> WriteTime]
    BY DEF WriteTmp
<1>2. WriteTime >= config.t
    BY DEF WriteTime, NotAhead, File
<1>3. snap[p] = AttrOf(cmd[p], config.c)
    BY DEF WriteTmp, Established, CheckedSoFar
<1>4. Granted(cmd[p], config.c)
    BY DEF WriteTmp, Established, CheckedSoFar, Granted, DropsAdmin
<1>5. QED
    BY <1>1, <1>2, <1>3, <1>4 DEF Replaces

LEMMA StepEstablishes ==
    ASSUME NEW p \in Proc, TypeInv, NotAhead, Established(p), Faults = {}, Step(p)
    PROVE  Established(p)'
<1> USE DEF TypeInv, TypeOK, Established
<1>0. config # NoFile /\ cmd[p] \in AllEdits
    BY EditAssumption DEF Busy, Step, Evaluate, CheckAdmins, WriteTmp, Backup, Swap, Validate,
                          Keep, Revert
<1>1. CASE Evaluate(p)
    <2>1. UNCHANGED <<config, bak, tmp, cmd>>
        BY <1>1 DEF Evaluate
    <2>2. pc[p] = "evaluate" /\ pc'[p] \in {"idle", "admins", "write"}
        BY <1>1 DEF Evaluate, Exit
    <2>3. pc'[p] # "idle" =>
            /\ snap'[p] = AttrOf(cmd[p], config.c)
            /\ cmd[p].op = "add" => cmd[p].user \notin config.c.users
            /\ pc'[p] = "write" => ~DropsAdmin(cmd[p])
        BY <1>1 DEF Evaluate, Exit
    <2>4. CheckedSoFar(p)'
        BY <2>1, <2>2, <2>3 DEF CheckedSoFar
    <2>5. BeforeSwap(p)' /\ AfterSwap(p)'
        BY <2>1, <2>2 DEF BeforeSwap, AfterSwap
    <2>6. QED
        BY <2>4, <2>5
<1>2. CASE CheckAdmins(p)
    <2>1. UNCHANGED <<config, bak, tmp, cmd, snap>>
        BY <1>2 DEF CheckAdmins
    <2>2. pc[p] = "admins" /\ pc'[p] \in {"idle", "write"}
        BY <1>2 DEF CheckAdmins, Exit
    <2>3. pc'[p] = "write" => Admins(config.c) \ {cmd[p].user} # {} /\ config.c.twice = {}
        BY <1>2 DEF CheckAdmins, Exit, Evaluates
    <2>4. CheckedSoFar(p)'
        BY <2>1, <2>2, <2>3 DEF CheckedSoFar
    <2>5. BeforeSwap(p)' /\ AfterSwap(p)'
        BY <2>1, <2>2 DEF BeforeSwap, AfterSwap
    <2>6. QED
        BY <2>4, <2>5
<1>3. CASE WriteTmp(p) /\ Finds(cmd[p], config.c)
    <2>1. Replaces(cmd[p], config, tmp'[p])
        BY <1>3, WrittenReplaces
    <2>2. pc[p] = "write" /\ UNCHANGED <<config, bak, cmd, snap>>
        BY <1>3 DEF WriteTmp
    <2>3. pc'[p] = IF cmd[p].op = "setting" THEN "swap" ELSE "backup"
        BY <1>3 DEF WriteTmp
    <2>4. CheckedSoFar(p)'
        BY <2>2, <2>3 DEF CheckedSoFar
    <2>5. BeforeSwap(p)' /\ AfterSwap(p)'
        BY <2>1, <2>2, <2>3 DEF BeforeSwap, AfterSwap
    <2>6. QED
        BY <2>4, <2>5
<1>4. CASE WriteTmp(p) /\ ~Finds(cmd[p], config.c)
    BY <1>4 DEF WriteTmp, Exit, CheckedSoFar, BeforeSwap, AfterSwap
<1>5. CASE Backup(p)
    <2>1. bak' = config /\ pc[p] = "backup" /\ pc'[p] = "swap" /\ UNCHANGED <<config, tmp, cmd>>
        BY <1>5 DEF Backup
    <2>2. QED
        BY <2>1 DEF CheckedSoFar, BeforeSwap, AfterSwap
<1>6. CASE Swap(p) /\ cmd[p].op = "setting"
    BY <1>6 DEF Swap, Exit, CheckedSoFar, BeforeSwap, AfterSwap
<1>7. CASE Swap(p) /\ cmd[p].op # "setting"
    <2>1. config' = tmp[p] /\ bak = config /\ UNCHANGED <<bak, cmd>>
        BY <1>7 DEF Swap, BeforeSwap
    <2>2. pc[p] = "swap" /\ pc'[p] = "validate"
        BY <1>7 DEF Swap
    <2>3. Replaces(cmd[p], bak, config')
        BY <2>1, <2>2 DEF BeforeSwap
    <2>4. QED
        BY <1>7, <2>1, <2>2, <2>3 DEF CheckedSoFar, BeforeSwap, AfterSwap
<1>8. CASE Validate(p)
    BY <1>8 DEF Validate, CheckedSoFar, BeforeSwap, AfterSwap
<1>9. CASE Keep(p)
    BY <1>9 DEF Keep, Exit, CheckedSoFar, BeforeSwap, AfterSwap
<1>10. CASE Revert(p)
    BY <1>10 DEF Revert, Exit, CheckedSoFar, BeforeSwap, AfterSwap
<1>11. QED
    BY <1>1, <1>2, <1>3, <1>4, <1>5, <1>6, <1>7, <1>8, <1>9, <1>10 DEF Step

LEMMA BeginEstablishes ==
    ASSUME NEW p \in Proc, TypeInv, Established(p), NEW e \in Edits, NEW g \in Guards, Begin(p, e, g)
    PROVE  Established(p)'
<1> USE DEF TypeInv, TypeOK, Established
<1>1. pc[p] = "idle" /\ UNCHANGED <<config, bak, tmp>>
    BY DEF Begin, Start
<1>2. cmd'[p] = e /\ snap'[p] = {} /\ ~RemovesSelf(e)
    BY DEF Begin, Start, RemovesSelf
<1>3. pc'[p] = IF Evaluating(e) THEN "evaluate" ELSE IF DropsAdmin(e) THEN "admins" ELSE "write"
    BY DEF Begin, Start
<1>4. pc'[p] # "evaluate" => e.op # "add" /\ {} = AttrOf(e, config.c)
    BY <1>3 DEF Evaluating, AttrOf
<1>5. CheckedSoFar(p)'
    BY <1>1, <1>2, <1>3, <1>4 DEF CheckedSoFar
<1>6. BeforeSwap(p)' /\ AfterSwap(p)'
    BY <1>1, <1>3 DEF BeforeSwap, AfterSwap
<1>7. QED
    BY <1>5, <1>6

(* The steps of an idle process that only answers its caller.               *)
LEMMA AnswerEstablishes ==
    ASSUME NEW p \in Proc, TypeInv, Established(p),
           \/ CallerReads(p)
           \/ \E e \in Edits : RefuseStale(p, e) \/ RefuseSelf(p, e)
           \/ UNCHANGED vars
    PROVE  Established(p)'
<1>1. UNCHANGED <<config, bak, tmp, pc, snap>>
    BY DEF CallerReads, RefuseStale, RefuseSelf, vars
<1>2. pc[p] = "idle" \/ UNCHANGED cmd
    BY DEF CallerReads, RefuseStale, RefuseSelf, vars
<1>3. QED
    BY <1>1, <1>2 DEF Established, CheckedSoFar, BeforeSwap, AfterSwap

-----------------------------------------------------------------------------
(* A step of the only process is all that happens.                          *)
OwnStep(p) ==
    \/ CallerReads(p)
    \/ \E e \in Edits : RefuseStale(p, e) \/ RefuseSelf(p, e)
    \/ \E e \in Edits, g \in Guards : Begin(p, e, g)
    \/ Step(p)
    \/ UNCHANGED vars

LEMMA OnlyOwnSteps ==
    ASSUME Serial, [Next]_vars, NEW p \in Proc
    PROVE  OwnStep(p)
<1>1. \A q \in Proc : q = p /\ ~Interrupt(q)
    BY DEF Serial, Interrupt
<1>2. ~\E e \in HandEdits : HandEdit(e)
    BY DEF Serial
<1>3. CASE UNCHANGED vars
    BY <1>3 DEF OwnStep
<1>4. CASE Next
    BY <1>1, <1>2, <1>4 DEF Next, OwnStep
<1>5. QED
    BY <1>3, <1>4

LEMMA SerialInit == Init => SerialInv
<1> SUFFICES ASSUME Init PROVE SerialInv
    OBVIOUS
<1>1. TypeInv
    BY TypeInit
<1>2. NotAhead
    BY DEF Init, NotAhead
<1>3. \A p \in Proc : Established(p)
    BY DEF Init, Established, CheckedSoFar, BeforeSwap, AfterSwap
<1>4. QED
    BY <1>1, <1>2, <1>3 DEF SerialInv

LEMMA SerialNext ==
    ASSUME Serial, SerialInv, [Next]_vars
    PROVE  SerialInv'
<1>1. TypeInv' /\ NotAhead'
    BY TypeNext, NotAheadNext DEF SerialInv
<1>2. ASSUME NEW p \in Proc PROVE Established(p)'
    <2>1. TypeInv /\ NotAhead /\ Established(p) /\ Faults = {}
        BY DEF SerialInv, Serial
    <2>2. OwnStep(p)
        BY OnlyOwnSteps
    <2>3. CASE Step(p)
        BY <2>1, <2>3, StepEstablishes
    <2>4. CASE \E e \in Edits, g \in Guards : Begin(p, e, g)
        BY <2>1, <2>4, BeginEstablishes
    <2>5. CASE ~Step(p) /\ ~\E e \in Edits, g \in Guards : Begin(p, e, g)
        BY <2>1, <2>2, <2>5, AnswerEstablishes DEF OwnStep
    <2>6. QED
        BY <2>3, <2>4, <2>5
<1>3. QED
    BY <1>1, <1>2 DEF SerialInv

(* Which file is the stored configuration, when there is one process.       *)
LEMMA StoredIs ==
    ASSUME Serial, NEW p \in Proc
    PROVE  /\ Stored = IF pc[p] \in {"validate", "keep", "revert"} THEN bak ELSE config
           /\ Stored' = IF pc'[p] \in {"validate", "keep", "revert"} THEN bak' ELSE config'
<1>1. \A q \in Proc : q = p
    BY DEF Serial
<1>2. Pending <=> pc[p] \in {"validate", "keep", "revert"}
    BY <1>1 DEF Pending
<1>3. Pending' <=> pc'[p] \in {"validate", "keep", "revert"}
    BY <1>1 DEF Pending
<1>4. QED
    BY <1>2, <1>3 DEF Stored

LEMMA StepStores ==
    ASSUME Serial, SerialInv, SerialInv', NEW p \in Proc, Step(p)
    PROVE  Store!StoreNext \/ UNCHANGED Stored
<1> USE DEF SerialInv, TypeInv, TypeOK
<1>1. Established(p) /\ Established(p)' /\ config \in File /\ config' \in File
    OBVIOUS
<1>2. Faults = {}
    BY DEF Serial
<1>3. CASE Evaluate(p) \/ CheckAdmins(p) \/ WriteTmp(p)
    <2>1. UNCHANGED <<config, bak>> /\ pc[p] \notin {"validate", "keep", "revert"}
        BY <1>3 DEF Evaluate, CheckAdmins, WriteTmp
    <2>2. pc'[p] \notin {"validate", "keep", "revert"}
        BY <1>3 DEF Evaluate, CheckAdmins, WriteTmp, Exit
    <2>3. QED
        BY <2>1, <2>2, StoredIs
<1>4. CASE Backup(p)
    BY <1>4, StoredIs DEF Backup
<1>5. CASE Swap(p) /\ cmd[p].op = "setting"
    <2>1. Replaces(cmd[p], config, config') /\ cmd[p] \in Edits
        BY <1>1, <1>5 DEF Swap, Established, CheckedSoFar, BeforeSwap
    <2>2. Stored = config /\ Stored' = config'
        BY <1>5, StoredIs DEF Swap, Exit
    <2>3. QED
        BY <1>1, <1>5, <2>1, <2>2, Commits
<1>6. CASE Swap(p) /\ cmd[p].op # "setting"
    <2>1. Stored = config /\ Stored' = bak' /\ bak' = bak
        BY <1>6, StoredIs DEF Swap
    <2>2. bak = config
        BY <1>1, <1>6 DEF Swap, Established, BeforeSwap
    <2>3. QED
        BY <2>1, <2>2
<1>7. CASE Validate(p)
    BY <1>7, StoredIs DEF Validate
<1>8. CASE Keep(p)
    <2>1. /\ Replaces(cmd[p], bak, config)
          /\ cmd[p] \in Edits
          /\ bak \in File
          /\ Evaluates(config.c)
        BY <1>1, <1>8 DEF Keep, Established, CheckedSoFar, AfterSwap
    <2>2. Stored = bak /\ Stored' = config /\ config' = config
        BY <1>8, StoredIs DEF Keep, Exit
    <2>3. QED
        BY <1>1, <2>1, <2>2, Commits
<1>9. CASE Revert(p)
    <2>1. bak # NoFile
        BY <1>1, <1>9, EditAssumption DEF Revert, Established, AfterSwap
    <2>2. Stored = bak /\ Stored' = config' /\ config' = bak
        BY <1>9, <2>1, StoredIs DEF Revert, Exit
    <2>3. QED
        BY <2>2
<1>10. QED
    BY <1>3, <1>4, <1>5, <1>6, <1>7, <1>8, <1>9 DEF Step

LEMMA SerialStores ==
    ASSUME Serial, SerialInv, SerialInv', [Next]_vars
    PROVE  [Store!StoreNext]_Stored
<1>1. CASE Proc = {}
    <2>1. UNCHANGED vars
        BY <1>1 DEF Next, Serial
    <2>2. QED
        BY <2>1 DEF vars, Stored, Pending
<1>2. ASSUME NEW p \in Proc PROVE [Store!StoreNext]_Stored
    <2>1. OwnStep(p)
        BY OnlyOwnSteps
    <2>2. CASE Step(p)
        BY <2>2, StepStores
    <2>3. CASE ~Step(p)
        <3>1. UNCHANGED <<config, bak>>
            BY <2>1, <2>3 DEF OwnStep, CallerReads, RefuseStale, RefuseSelf, Begin, Start, vars
        <3>2. \/ UNCHANGED pc
              \/ pc[p] = "idle" /\ pc'[p] \in {"evaluate", "admins", "write"}
            BY <2>1, <2>3 DEF OwnStep, CallerReads, RefuseStale, RefuseSelf, Begin, Start, vars,
                              SerialInv, TypeInv, TypeOK
        <3>3. QED
            BY <3>1, <3>2, StoredIs
    <2>4. QED
        BY <2>2, <2>3
<1>3. QED
    BY <1>1, <1>2

(* With one command at a time, no text editor and no fault, every behaviour *)
(* of the commands is one of ConfigStore: apply_edit's backup, rename,      *)
(* evaluation and revert amount to replacing the stored configuration once, *)
(* by an allowed edit of it, or to leaving it as it was, its time included. *)
THEOREM SerialImplementsStore ==
    ASSUME Serial
    PROVE  Spec => StoreSpec
<1>1. Spec => []SerialInv
    <2>1. SerialInv /\ [Next]_vars => SerialInv'
        BY SerialNext
    <2>2. QED
        BY <2>1, SerialInit, PTL DEF Spec
<1>2. Init => Store!StoreInit
    BY DEF Init, Store!StoreInit, Stored, Pending
<1>3. SerialInv /\ SerialInv' /\ [Next]_vars => [Store!StoreNext]_Stored
    BY SerialStores
<1>4. QED
    BY <1>1, <1>2, <1>3, PTL DEF Spec, StoreSpec, Store!StoreSpec

-----------------------------------------------------------------------------
(* An edit that replaced the file says afterwards what it was to say.       *)
LEMMA ApplyHolds ==
    ASSUME NEW e \in AllEdits, NEW c \in Content, Granted(e, c)
    PROVE  Holds(e, Apply(e, c, AttrOf(e, c)))
<1> USE DEF Content
<1> DEFINE d == Apply(e, c, AttrOf(e, c))
<1>1. CASE e \in AppsSet
    BY <1>1 DEF Apply, Holds, AppsSet, AppLine
<1>2. CASE e \in BlockSet
    BY <1>2 DEF Apply, Holds, BlockSet, BlockLine
<1>3. CASE e \in UserMerge
    <2>1. e.op = "merge" /\ e.user \in User /\ e.attr \in Attr /\ e.on \in BOOLEAN /\ e.user \in c.users
        BY <1>3 DEF UserMerge, MergedAttr, Granted, Finds
    <2>2. d = WithAttr(c, e.user, e.attr, Merged(e, AttrOf(e, c)))
        BY <2>1 DEF Apply
    <2>3. d.users = c.users /\ d.attrs[e.user][e.attr] = Merged(e, AttrOf(e, c))
        BY <2>1, <2>2 DEF WithAttr
    <2>4. e.on <=> e.item \in Merged(e, AttrOf(e, c))
        BY <2>1 DEF Merged
    <2>5. QED
        BY <2>1, <2>3, <2>4 DEF Holds
<1>4. CASE e \in UserReplace
    <2>1. e.op = "replace" /\ e.user \in User /\ e.attr \in Attr /\ e.user \in c.users
        BY <1>4 DEF UserReplace, ReplacedAttr, Granted, Finds
    <2>2. d = WithAttr(c, e.user, e.attr, {e.item})
        BY <2>1 DEF Apply
    <2>3. d.users = c.users /\ d.attrs[e.user][e.attr] = {e.item}
        BY <2>1, <2>2 DEF WithAttr
    <2>4. QED
        BY <2>1, <2>3 DEF Holds
<1>5. CASE e \in UserAdd
    BY <1>5 DEF Apply, Holds, UserAdd, WithUser
<1>6. CASE e \in UserRemove
    BY <1>6 DEF Apply, Holds, UserRemove, WithoutUser, Granted
<1>7. CASE e \in SettingEdit
    BY <1>7 DEF Apply, Holds, SettingEdit, FlatLine
<1>8. QED
    BY <1>1, <1>2, <1>3, <1>4, <1>5, <1>6, <1>7 DEF AllEdits

LEMMA SerialOk ==
    ASSUME Serial, SerialInv, OkIsTrue, [Next]_vars
    PROVE  OkIsTrue'
<1> USE DEF SerialInv, TypeInv, TypeOK, OkIsTrue
<1> SUFFICES ASSUME NEW p \in Proc, pc'[p] = "idle", result'[p] = "ok"
             PROVE  /\ Holds(cmd'[p], config'.c)
                    /\ cmd'[p].op # "setting" => Evaluates(config'.c)
    OBVIOUS
<1>1. OwnStep(p) /\ Established(p) /\ Faults = {}
    BY OnlyOwnSteps DEF Serial
<1>2. CASE Swap(p)
    <2>1. Replaces(cmd[p], config, config') /\ cmd[p].op = "setting" /\ UNCHANGED cmd
        BY <1>1, <1>2 DEF Swap, Exit, Established, BeforeSwap
    <2>2. cmd[p] \in AllEdits /\ config.c \in Content
        BY <1>2 DEF Swap, Busy, File
    <2>3. QED
        BY <2>1, <2>2, ApplyHolds DEF Replaces
<1>3. CASE Keep(p)
    <2>1. Replaces(cmd[p], bak, config) /\ Evaluates(config.c) /\ bak \in File
        BY <1>1, <1>3 DEF Keep, Established, AfterSwap
    <2>2. cmd[p] \in AllEdits /\ bak.c \in Content /\ UNCHANGED <<cmd, config>>
        BY <1>3, <2>1 DEF Keep, Busy, File
    <2>3. QED
        BY <2>1, <2>2, ApplyHolds DEF Replaces
<1>4. CASE Evaluate(p) \/ CheckAdmins(p) \/ WriteTmp(p) \/ Backup(p) \/ Validate(p) \/ Revert(p)
    <2>1. result'[p] # "ok" \/ pc'[p] # "idle"
        BY <1>4 DEF Evaluate, CheckAdmins, WriteTmp, Backup, Validate, Revert, Exit
    <2>2. QED
        BY <2>1
<1>5. CASE ~Step(p)
    <2>1. pc[p] = "idle" /\ result[p] = "ok" /\ UNCHANGED <<config, cmd>>
        BY <1>1, <1>5 DEF OwnStep, CallerReads, RefuseStale, RefuseSelf, Begin, Start, vars
    <2>2. QED
        BY <2>1
<1>6. QED
    BY <1>2, <1>3, <1>4, <1>5 DEF Step

(* One command at a time, apply_edit's return value is to be believed: a    *)
(* command that printed ok has its edit in the file, and a file that        *)
(* evaluates unless it was a settings command.                              *)
THEOREM SerialOkIsTrue ==
    ASSUME Serial
    PROVE  Spec => []OkIsTrue
<1>1. Spec => []SerialInv
    <2>1. SerialInv /\ [Next]_vars => SerialInv'
        BY SerialNext
    <2>2. QED
        BY <2>1, SerialInit, PTL DEF Spec
<1>2. Init => OkIsTrue
    BY DEF Init, OkIsTrue
<1>3. SerialInv /\ OkIsTrue /\ [Next]_vars => OkIsTrue'
    BY SerialOk
<1>4. QED
    BY <1>1, <1>2, <1>3, PTL DEF Spec
=============================================================================

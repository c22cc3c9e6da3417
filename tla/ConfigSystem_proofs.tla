------------------------- MODULE ConfigSystem_proofs -------------------------
(***************************************************************************)
(* Theorems about the configuration file together with its readers and its *)
(* rebuilds: when the comparison of two times tells the truth, and when an *)
(* answer filed under a stamp of times is the answer of now.               *)
(***************************************************************************)
EXTENDS ConfigSystem, ConfigEdit_proofs

allvars == <<vars, cvars, rvars>>

(* Readers leave every file of the repository alone.                        *)
LEMMA ReadKeeps == ASSUME NEW r \in Reader, Read(r) PROVE UNCHANGED vars
BY DEF Read, TakeStamp, Hit, Miss, Compute, Open, Fill, Publish, Prune, Kill, Finish, Goto

(* A switch moves the clock and nothing else that the commands look at.     *)
Ticks ==
    /\ now' = WriteTime
    /\ UNCHANGED <<config, bak, tmp, pc, cmd, snap, result, seen, guarded>>

(* A boot ends the commands too, without another step of theirs.            *)
Halts ==
    /\ now' = WriteTime
    /\ pc' = [p \in Proc |-> "idle"]
    /\ tmp' = [p \in Proc |-> NoFile]
    /\ result' = [p \in Proc |-> IF pc[p] = "idle" THEN result[p] ELSE "interrupted"]
    /\ UNCHANGED <<config, bak, cmd, snap, seen, guarded>>

(* What the rest of the system is to the editing commands.                  *)
LEMMA SystemStep ==
    ASSUME [SystemNext]_allvars
    PROVE  \/ Next /\ UNCHANGED cvars
           \/ (Ticks \/ Halts) /\ UNCHANGED cvars
           \/ UNCHANGED vars /\ UNCHANGED cvars
           \/ UNCHANGED vars /\ \E r \in Reader : Read(r)
BY ReadKeeps DEF SystemNext, RebuildNext, StartRebuild, Activate, AbandonRebuild, Reboot,
                 Link, EditStep, Ticks, Halts, allvars

LEMMA TickType == TypeInv /\ (Ticks \/ Halts) => TypeInv'
BY WriteTimeType DEF TypeInv, TypeOK, Busy, Written, Ticks, Halts, Steps, Results

LEMMA SystemType == SystemSpec => []TypeInv
<1>1. SystemInit => TypeInv
    BY TypeInit DEF SystemInit, CacheInit
<1>2. ASSUME TypeInv, [SystemNext]_allvars PROVE TypeInv'
    <2>1. UNCHANGED vars => TypeInv'
        BY <1>2, TypeNext
    <2>2. QED
        BY <1>2, <2>1, SystemStep, TypeNext, TickType
<1>3. QED
    BY <1>1, <1>2, PTL DEF SystemSpec, allvars

-----------------------------------------------------------------------------
(* Pending rebuilds.  Whatever is a file now was one when the link was made *)
(* or has been written since: commands write at the end of the clock, and   *)
(* copies, renames and reverts keep the times they find.                    *)
PendingInv ==
    /\ gen.t \in Nat /\ gen.t <= now
    /\ \A f \in Files : f \in had \/ f.t >= gen.t

(* The commands bring in no file but copies of what there was and what they *)
(* write now.                                                               *)
WritesLater ==
    /\ now <= now'
    /\ \A f \in Files' : f \in Files \/ f.t >= now

LEMMA NextWrites == ASSUME TypeInv, Next PROVE WritesLater
<1> USE DEF TypeInv, TypeOK, WritesLater, Files
<1>0. WriteTime \in Nat /\ now <= WriteTime
    BY WriteTimeType DEF WriteTime
<1>a. ASSUME UNCHANGED <<config, bak, tmp, now>> PROVE WritesLater
    BY <1>a
<1>1. ASSUME NEW p \in Proc, CallerReads(p) PROVE WritesLater
    BY <1>1 DEF CallerReads
<1>2. ASSUME NEW p \in Proc, NEW e \in Edits, NEW g \in Guards, Begin(p, e, g)
      PROVE  WritesLater
    BY <1>2 DEF Begin, Start
<1>3. ASSUME NEW p \in Proc, NEW e \in Edits, RefuseStale(p, e) \/ RefuseSelf(p, e)
      PROVE  WritesLater
    BY <1>3, <1>a DEF RefuseStale, RefuseSelf
<1>4. ASSUME NEW p \in Proc, Evaluate(p) \/ CheckAdmins(p) \/ Validate(p) PROVE WritesLater
    BY <1>4 DEF Evaluate, CheckAdmins, Validate, Exit
<1>5. ASSUME NEW p \in Proc, WriteTmp(p) PROVE WritesLater
    <2>1. CASE Finds(cmd[p], config.c)
        <3>1. now' = WriteTime /\ tmp'[p].t = WriteTime /\ UNCHANGED <<config, bak>>
            BY <1>5, <2>1 DEF WriteTmp
        <3>2. \A q \in Proc : q # p => tmp'[q] = tmp[q]
            BY <1>5, <2>1 DEF WriteTmp
        <3>3. QED
            BY <1>0, <3>1, <3>2
    <2>2. CASE ~Finds(cmd[p], config.c)
        BY <1>5, <2>2 DEF WriteTmp, Exit
    <2>3. QED
        BY <2>1, <2>2
<1>6. ASSUME NEW p \in Proc, Backup(p) PROVE WritesLater
    BY <1>6 DEF Backup
<1>7. ASSUME NEW p \in Proc, Swap(p) PROVE WritesLater
    <2>1. config' = tmp[p] /\ UNCHANGED <<bak, now>>
        BY <1>7 DEF Swap
    <2>2. \A q \in Proc : tmp'[q] \in {tmp[q], NoFile}
        BY <1>7 DEF Swap
    <2>3. QED
        BY <2>1, <2>2
<1>8. ASSUME NEW p \in Proc, Keep(p) \/ Revert(p) PROVE WritesLater
    BY <1>8 DEF Keep, Revert, Exit
<1>9. ASSUME NEW p \in Proc, Interrupt(p) PROVE WritesLater
    BY <1>9 DEF Interrupt, Exit
<1>10. ASSUME NEW e \in HandEdits, HandEdit(e) PROVE WritesLater
    BY <1>0, <1>10 DEF HandEdit
<1>11. QED
    BY <1>1, <1>2, <1>3, <1>4, <1>5, <1>6, <1>7, <1>8, <1>9, <1>10 DEF Next, Step

LEMMA PendingNext ==
    ASSUME TypeInv, PendingInv, [SystemNext]_allvars
    PROVE  PendingInv'
<1>0. now \in Nat /\ WriteTime \in Nat /\ now <= WriteTime
    BY WriteTimeType DEF WriteTime, TypeInv, TypeOK
<1>a. \A f \in Files : f.t \in Nat
    BY DEF TypeInv, TypeOK, Files, File
<1>1. CASE EditStep
    <2>1. WritesLater /\ now' \in Nat /\ \A f \in Files' : f.t \in Nat
        BY <1>1, NextWrites, TypeNext DEF EditStep, TypeInv, TypeOK, Files, File
    <2>2. UNCHANGED <<gen, had>>
        BY <1>1 DEF EditStep, rvars
    <2>3. QED
        BY <1>0, <2>1, <2>2 DEF PendingInv, WritesLater
<1>2. ASSUME NEW c, Link(c), Files' \subseteq Files PROVE PendingInv'
    <2>1. gen'.t = WriteTime /\ now' = WriteTime /\ had' = Files
        BY <1>2 DEF Link
    <2>2. QED
        BY <1>0, <1>2, <2>1 DEF PendingInv
<1>3. CASE (\E c \in builds : Activate(c)) \/ Reboot
    <2>1. Files' \subseteq Files
        BY <1>3 DEF Activate, Reboot, Files
    <2>2. \E c : Link(c)
        BY <1>3 DEF Activate, Reboot
    <2>3. QED
        BY <1>2, <2>1, <2>2
<1>4. CASE UNCHANGED <<vars, gen, had>>
    BY <1>4 DEF PendingInv, Files, vars
<1>5. QED
    BY <1>1, <1>3, <1>4, ReadKeeps
    DEF SystemNext, RebuildNext, StartRebuild, AbandonRebuild, rvars, allvars

(* stat -c %Y keeps the order of two times.                                 *)
LEMMA SecondsOrder ==
    ASSUME NEW s \in Nat, NEW t \in Nat, s <= t
    PROVE  Seconds(s) \in Nat /\ Seconds(t) \in Nat /\ Seconds(s) <= Seconds(t)
<1>1. TicksPerSecond \in Nat \ {0}
    BY EditAssumption
<1>2. QED
    BY <1>1, SMTT(30) DEF Seconds

(* cmd_repo's comparison of the file's time with that of the running        *)
(* system's link, for any commands, edits, rebuilds and boots that overlap, *)
(* stop and fail: it hides a difference only of a file that was there when  *)
(* the link was made or was written in that second.                         *)
THEOREM PendingAlwaysTold == SystemSpec => []PendingIsTold
<1>1. SystemInit => PendingInv
    BY DEF SystemInit, CacheInit, RebuildInit, Init, PendingInv, Files
<1>2. TypeInv /\ PendingInv /\ [SystemNext]_allvars => PendingInv'
    BY PendingNext
<1>3. TypeInv /\ PendingInv => PendingIsTold
    <2> SUFFICES ASSUME TypeInv, PendingInv, config \notin had
                 PROVE  RebuildPending \/ Seconds(config.t) = Seconds(gen.t)
        BY DEF PendingIsTold
    <2>1. config \in Files /\ config.t \in Nat /\ gen.t \in Nat
        BY EditAssumption DEF TypeInv, TypeOK, PendingInv, Files, File
    <2>2. gen.t <= config.t
        BY <2>1 DEF PendingInv
    <2>3. QED
        BY <2>1, <2>2, SecondsOrder DEF RebuildPending
<1>4. QED
    BY <1>1, <1>2, <1>3, SystemType, PTL DEF SystemSpec, allvars

-----------------------------------------------------------------------------
(* Stale answers.  With one command at a time the versions that can still   *)
(* be the file are the file itself and, until apply_edit has judged an edit *)
(* that does not evaluate, its backup.                                      *)
OneWriter ==
    /\ \A p, q \in Proc : p = q
    /\ HandEdits = {}
    /\ "copy" \notin Faults

Returning == \E p \in Proc : pc[p] \in {"validate", "revert"} /\ ~Evaluates(config.c)
Returns(f) == f = config \/ (f = bak /\ f # NoFile /\ Returning)

WriterInv ==
    /\ config.t <= now /\ (bak # NoFile => bak.t <= now)
    /\ \A p \in Proc : pc[p] \in {"backup", "swap"} =>
          config.t < tmp[p].t /\ tmp[p].t <= now
    /\ \A p \in Proc : pc[p] = "swap" /\ cmd[p].op # "setting" => bak = config
    /\ \A p \in Proc : pc[p] = "revert" => ~Evaluates(config.c)
    /\ \A p \in Proc : pc[p] = "keep" => Evaluates(config.c)

(* A step of the commands gives no version a chance but what had one, and   *)
(* the edit a command is about to rename.                                   *)
NoRevival ==
    \A f : Returns(f)' => Returns(f) \/ \E p \in Proc : pc[p] = "swap" /\ f = tmp[p]

FreshEdits ==
    \A p \in Proc : pc'[p] \in {"backup", "swap"} =>
        \/ pc[p] \in {"backup", "swap"} /\ tmp'[p] = tmp[p]
        \/ now < tmp'[p].t

WriterStep == WriterInv' /\ now <= now' /\ NoRevival /\ FreshEdits

(* Of one process it is enough to say what happens to it.                   *)
Swapping(p) == pc[p] \in {"backup", "swap"}
WriterOf(p) ==
    /\ config.t <= now /\ (bak # NoFile => bak.t <= now)
    /\ Swapping(p) => config.t < tmp[p].t /\ tmp[p].t <= now
    /\ pc[p] = "swap" /\ cmd[p].op # "setting" => bak = config
    /\ pc[p] = "revert" => ~Evaluates(config.c)
    /\ pc[p] = "keep" => Evaluates(config.c)

MayReturn(p) == pc[p] \in {"validate", "revert"} /\ ~Evaluates(config.c)

LEMMA StepOf ==
    ASSUME \A p, q \in Proc : p = q, NEW p \in Proc,
           WriterOf(p)', now <= now',
           \/ config' = config
           \/ config' = bak /\ bak # NoFile /\ MayReturn(p)
           \/ config' = tmp[p] /\ pc[p] = "swap",
           MayReturn(p)' => bak' = config \/ (bak' = bak /\ MayReturn(p)),
           Swapping(p)' => (Swapping(p) /\ tmp'[p] = tmp[p]) \/ now < tmp'[p].t
    PROVE  WriterStep
<1>1. \A q \in Proc : q = p
    OBVIOUS
<1>2. Returning <=> MayReturn(p)
    BY <1>1 DEF Returning, MayReturn
<1>3. Returning' <=> MayReturn(p)'
    BY <1>1 DEF Returning, MayReturn
<1>4. WriterInv'
    BY <1>1 DEF WriterInv, WriterOf, Swapping
<1>5. FreshEdits
    BY <1>1 DEF FreshEdits, Swapping
<1>6. ASSUME NEW f, Returns(f)' PROVE Returns(f) \/ \E q \in Proc : pc[q] = "swap" /\ f = tmp[q]
    <2>1. CASE f = config'
        <3>1. CASE config' = config
            BY <2>1, <3>1 DEF Returns
        <3>2. CASE config' = bak /\ bak # NoFile /\ MayReturn(p)
            BY <2>1, <3>2, <1>2 DEF Returns
        <3>3. CASE config' = tmp[p] /\ pc[p] = "swap"
            BY <2>1, <3>3
        <3>4. QED
            BY <3>1, <3>2, <3>3
    <2>2. CASE f = bak' /\ f # NoFile /\ Returning'
        BY <2>2, <1>2, <1>3 DEF Returns
    <2>3. QED
        BY <1>6, <2>1, <2>2 DEF Returns
<1>7. NoRevival
    BY <1>6 DEF NoRevival
<1>8. QED
    BY <1>4, <1>5, <1>7 DEF WriterStep

LEMMA WriterNext ==
    ASSUME MaxTime # 0, OneWriter, TypeInv, WriterInv, Next
    PROVE  WriterStep
<1> USE DEF TypeInv, TypeOK, WriterOf, MayReturn, Swapping
<1>0. WriteTime = now + 1 /\ config.t \in Nat
    BY DEF WriteTime, File
<1>a. \A p, q \in Proc : p = q
    BY DEF OneWriter
<1>b. \A p \in Proc : WriterOf(p)
    BY DEF WriterInv
<1>1. ASSUME NEW p \in Proc, CallerReads(p) PROVE WriterStep
    BY <1>1, <1>a, <1>b, StepOf DEF CallerReads
<1>2. ASSUME NEW p \in Proc, NEW e \in Edits, NEW g \in Guards, Begin(p, e, g)
      PROVE  WriterStep
    BY <1>2, <1>a, <1>b, StepOf DEF Begin, Start
<1>3. ASSUME NEW p \in Proc, NEW e \in Edits, RefuseStale(p, e) \/ RefuseSelf(p, e)
      PROVE  WriterStep
    <2>1. pc[p] = "idle" /\ UNCHANGED <<config, bak, tmp, pc, now>>
        BY <1>3 DEF RefuseStale, RefuseSelf
    <2>2. QED
        BY <2>1, <1>a, <1>b, StepOf
<1>4. ASSUME NEW p \in Proc, Evaluate(p) \/ CheckAdmins(p) PROVE WriterStep
    BY <1>4, <1>a, <1>b, StepOf DEF Evaluate, CheckAdmins, Exit
<1>5. ASSUME NEW p \in Proc, WriteTmp(p) PROVE WriterStep
    <2>1. CASE Finds(cmd[p], config.c)
        <3>1. now' = now + 1 /\ tmp'[p].t = now + 1 /\ UNCHANGED <<config, bak, cmd>>
            BY <1>0, <1>5, <2>1 DEF WriteTmp
        <3>2. pc[p] = "write" /\ pc'[p] = IF cmd[p].op = "setting" THEN "swap" ELSE "backup"
            BY <1>5, <2>1 DEF WriteTmp
        <3>3. bak # NoFile => bak.t \in Nat
            BY DEF File
        <3>4. WriterOf(p)'
            BY <1>0, <1>b, <3>1, <3>2, <3>3
        <3>5. QED
            BY <1>a, <3>1, <3>2, <3>4, StepOf
    <2>2. CASE ~Finds(cmd[p], config.c)
        BY <1>5, <2>2, <1>a, <1>b, StepOf DEF WriteTmp, Exit
    <2>3. QED
        BY <2>1, <2>2
<1>6. ASSUME NEW p \in Proc, Backup(p) PROVE WriterStep
    <2>1. bak' = config /\ pc[p] = "backup" /\ pc'[p] = "swap" /\ UNCHANGED <<config, tmp, cmd, now>>
        BY <1>6 DEF Backup, OneWriter
    <2>2. QED
        BY <1>a, <1>b, <2>1, StepOf
<1>7. ASSUME NEW p \in Proc, Swap(p) PROVE WriterStep
    <2>1. /\ pc[p] = "swap" /\ pc'[p] \in {"idle", "validate"}
          /\ config' = tmp[p]
          /\ UNCHANGED <<bak, cmd, now>>
        BY <1>7 DEF Swap, Exit
    <2>2. pc'[p] = "validate" => bak = config
        BY <1>b, <1>7 DEF Swap, Exit
    <2>3. WriterOf(p)'
        BY <1>b, <2>1, <2>2
    <2>4. QED
        BY <1>a, <2>1, <2>2, <2>3, StepOf
<1>8. ASSUME NEW p \in Proc, Validate(p) PROVE WriterStep
    BY <1>8, <1>a, <1>b, StepOf DEF Validate
<1>9. ASSUME NEW p \in Proc, Keep(p) PROVE WriterStep
    BY <1>9, <1>a, <1>b, StepOf DEF Keep, Exit
<1>10. ASSUME NEW p \in Proc, Revert(p) PROVE WriterStep
    <2>1. pc[p] = "revert" /\ pc'[p] = "idle" /\ UNCHANGED <<tmp, cmd, now>>
        BY <1>10 DEF Revert, Exit
    <2>2. bak' = NoFile /\ config' = IF bak = NoFile THEN config ELSE bak
        BY <1>10 DEF Revert
    <2>3. MayReturn(p)
        BY <1>b, <2>1
    <2>4. WriterOf(p)'
        BY <1>b, <2>1, <2>2
    <2>5. QED
        BY <1>a, <2>1, <2>2, <2>3, <2>4, StepOf
<1>11. ASSUME NEW p \in Proc, Interrupt(p) PROVE WriterStep
    BY <1>11, <1>a, <1>b, StepOf DEF Interrupt, Exit
<1>12. QED
    BY <1>1, <1>2, <1>3, <1>4, <1>5, <1>6, <1>7, <1>8, <1>9, <1>10, <1>11
    DEF Next, Step, OneWriter

-----------------------------------------------------------------------------
(* The cache's files: what a stamp and an answer are.                       *)
Stamps == [file : SUBSET Nat, bak : SUBSET Nat, tmps : SUBSET (Proc \X Nat)]

FiledType ==
    /\ entries \cup partial \subseteq [stamp : Stamps, out : Answers]
    /\ rpc \in [Reader -> ReadSteps]
    /\ stamp \in [Reader -> Stamps \cup {NoAnswer}]
    /\ out \in [Reader -> Content \cup {NoAnswer}]
    /\ reads \in 0..MaxReads
    /\ \A r \in Reader : rpc[r] # "idle" => stamp[r] \in Stamps
    /\ \A r \in Reader : rpc[r] \in {"open", "fill"} => out[r] \in Content

LEMMA RepoStampType == TypeInv => RepoStamp \in Stamps
<1> SUFFICES ASSUME TypeInv PROVE RepoStamp \in Stamps
    OBVIOUS
<1> USE DEF TypeInv, TypeOK
<1>1. config.t \in Nat /\ TimeOf(bak) \in SUBSET Nat
    BY DEF TimeOf, File
<1>2. TmpTimes \in SUBSET (Proc \X Nat)
    BY DEF TmpTimes, File
<1>3. QED
    BY <1>1, <1>2 DEF RepoStamp, Stamps

LEMMA ReadType ==
    ASSUME TypeInv, FiledType, NEW r \in Reader, Read(r)
    PROVE  FiledType'
<1> USE DEF FiledType
<1>0. MaxReads \in Nat
    BY CacheAssumption
<1>1. CASE TakeStamp(r)
    <2>1. RepoStamp \in Stamps
        BY RepoStampType
    <2>2. reads' \in 0..MaxReads
        BY <1>0, <1>1 DEF TakeStamp
    <2>3. QED
        BY <1>1, <2>1, <2>2 DEF TakeStamp, Goto, ReadSteps
<1>2. CASE (Hit(r) \/ Miss(r) \/ Kill(r)) /\ UNCHANGED reads
    BY <1>2 DEF Hit, Miss, Kill, Finish, Goto, ReadSteps
<1>3. CASE Compute(r) /\ UNCHANGED reads
    <2>1. config.c \in Content
        BY DEF TypeInv, TypeOK, File
    <2>2. QED
        BY <1>3, <2>1 DEF Compute, Finish, Goto, ReadSteps
<1>4. CASE Open(r) /\ UNCHANGED reads
    BY <1>4 DEF Open, Write, At, Goto, ReadSteps, Answers
<1>5. CASE Fill(r) /\ UNCHANGED reads
    <2>1. stamp[r] \in Stamps /\ out[r] \in Answers
        BY <1>5 DEF Fill, Answers
    <2>2. entries' \cup partial' \subseteq [stamp : Stamps, out : Answers]
        BY <1>5, <2>1 DEF Fill, Write, At
    <2>3. QED
        BY <1>5, <2>2 DEF Fill, Goto, ReadSteps
<1>6. CASE Publish(r) /\ UNCHANGED reads
    <2>1. entries' \cup partial' \subseteq [stamp : Stamps, out : Answers]
        BY <1>6 DEF Publish, Write, At, Stamps
    <2>2. QED
        BY <1>6, <2>1 DEF Publish, Finish, Goto, ReadSteps
<1>7. CASE Prune(r) /\ UNCHANGED reads
    BY <1>7 DEF Prune, At, Finish, Goto, ReadSteps
<1>8. QED
    BY <1>1, <1>2, <1>3, <1>4, <1>5, <1>6, <1>7 DEF Read

LEMMA SystemFiledType == SystemSpec => []FiledType
<1>1. SystemInit => FiledType
    BY CacheAssumption DEF SystemInit, CacheInit, FiledType, ReadSteps
<1>2. TypeInv /\ FiledType /\ [SystemNext]_allvars => FiledType'
    <2> SUFFICES ASSUME TypeInv, FiledType, [SystemNext]_allvars PROVE FiledType'
        OBVIOUS
    <2>1. CASE UNCHANGED cvars
        BY <2>1 DEF FiledType, cvars
    <2>2. QED
        BY <2>1, SystemStep, ReadType
<1>3. QED
    BY <1>1, <1>2, SystemType, PTL DEF SystemSpec, allvars

(* The running system and the copy a rebuild has made of the file.          *)
BuiltType == gen \in File /\ builds \subseteq Content /\ had \subseteq File

LEMMA SystemBuiltType == SystemSpec => []BuiltType
<1>1. SystemInit => BuiltType
    <2> SUFFICES ASSUME SystemInit PROVE BuiltType
        OBVIOUS
    <2>1. TypeInv
        BY TypeInit DEF SystemInit, CacheInit
    <2>2. QED
        BY <2>1 DEF TypeInv, TypeOK, SystemInit, RebuildInit, BuiltType
<1>2. TypeInv /\ BuiltType /\ [SystemNext]_allvars => BuiltType'
    <2> SUFFICES ASSUME TypeInv, BuiltType, [SystemNext]_allvars PROVE BuiltType'
        OBVIOUS
    <2> USE DEF BuiltType
    <2>1. config.c \in Content /\ WriteTime \in Nat
        BY WriteTimeType DEF TypeInv, TypeOK, File
    <2>2. CASE UNCHANGED rvars
        BY <2>2 DEF rvars
    <2>3. CASE StartRebuild \/ \E c \in builds : AbandonRebuild(c)
        BY <2>1, <2>3 DEF StartRebuild, AbandonRebuild
    <2>4. CASE Reboot \/ \E c \in builds : Activate(c)
        <3>1. Files \subseteq File /\ gen.c \in Content
            BY DEF TypeInv, TypeOK, Files, File
        <3>2. QED
            BY <2>1, <2>4, <3>1 DEF Activate, Reboot, Link, File
    <2>5. CASE EditStep
        BY <2>2, <2>5 DEF EditStep
    <2>6. QED
        BY <2>2, <2>3, <2>4, <2>5 DEF SystemNext, RebuildNext, allvars
<1>3. QED
    BY <1>1, <1>2, SystemType, PTL DEF SystemSpec, allvars

(* The cache's files, its readers and the running system keep their types   *)
(* beside any commands.                                                     *)
THEOREM SystemTypeCorrect == SystemSpec => []SystemTypeOK
<1>1. TypeInv /\ FiledType /\ BuiltType => SystemTypeOK
    BY DEF TypeInv, FiledType, BuiltType, SystemTypeOK, CacheTypeOK, RebuildTypeOK
<1>2. QED
    BY <1>1, SystemType, SystemFiledType, SystemBuiltType, PTL

-----------------------------------------------------------------------------
(* What a stamp of times is worth: no file is stamped like it again, and    *)
(* the answer filed under it is right for every version that can return.    *)
Past(s) ==
    \A t \in s.file :
        /\ t <= now
        /\ \A p \in Proc : pc[p] \in {"backup", "swap"} => t < tmp[p].t

Agrees(s, o) == \A f : Returns(f) /\ s.file = {f.t} => o = f.c

FiledInv ==
    /\ \A e \in entries \cup partial :
          Past(e.stamp) /\ (e.out # Torn => Agrees(e.stamp, e.out))
    /\ \A r \in Reader : rpc[r] # "idle" => Past(stamp[r])
    /\ \A r \in Reader : rpc[r] \in {"open", "fill"} => Agrees(stamp[r], out[r])

(* The commands leave filed answers right.                                  *)
LEMMA WriterKeeps ==
    ASSUME TypeInv, TypeInv', WriterInv, WriterStep, NEW s, s.file \subseteq Nat, Past(s)
    PROVE  /\ Past(s)'
           /\ \A o : Agrees(s, o) => Agrees(s, o)'
<1> USE DEF TypeInv, TypeOK, Past
<1>1. \A t \in s.file : t \in Nat /\ t <= now
    OBVIOUS
<1>2. Past(s)'
    <2>1. ASSUME NEW t \in s.file, NEW p \in Proc, pc'[p] \in {"backup", "swap"}
          PROVE  t < tmp'[p].t
        <3>1. tmp'[p].t \in Nat
            BY <2>1 DEF Written, File
        <3>2. QED
            BY <1>1, <2>1, <3>1 DEF WriterStep, FreshEdits
    <2>2. \A t \in s.file : t <= now'
        BY <1>1 DEF WriterStep
    <2>3. QED
        BY <2>1, <2>2
<1>3. ASSUME NEW o, Agrees(s, o), NEW f, Returns(f)', s.file = {f.t}
      PROVE  o = f.c
    <2>1. \A p \in Proc : pc[p] = "swap" => f # tmp[p]
        <3> SUFFICES ASSUME NEW p \in Proc, pc[p] = "swap", f = tmp[p] PROVE FALSE
            OBVIOUS
        <3>1. f.t \in s.file /\ f.t \in Nat
            BY <1>3
        <3>2. f.t < f.t
            BY <3>1
        <3>3. QED
            BY <3>1, <3>2
    <2>2. Returns(f)
        BY <1>3, <2>1 DEF WriterStep, NoRevival
    <2>3. QED
        BY <1>3, <2>2 DEF Agrees
<1>4. QED
    BY <1>2, <1>3 DEF Agrees

(* Readers file right answers: a theme, users or defaults command answers   *)
(* only from a file that evaluates, so nothing is about to be reverted.     *)
LEMMA ReadFiles ==
    ASSUME ~ReadsText, OneWriter, TypeInv, WriterInv, FiledType, FiledInv,
           NEW r \in Reader, Read(r)
    PROVE  FiledInv'
<1> USE DEF FiledType
<1>0. UNCHANGED vars
    BY ReadKeeps
<1>1. \A s : Past(s)' <=> Past(s)
    BY <1>0 DEF Past, vars
<1>2. \A s, o : Agrees(s, o)' <=> Agrees(s, o)
    BY <1>0 DEF Agrees, Returns, Returning, vars
<1> DEFINE Right(e) == Past(e.stamp) /\ (e.out # Torn => Agrees(e.stamp, e.out))
<1>3. ASSUME \A e \in entries' \cup partial' : Right(e),
             \A q \in Reader : rpc'[q] # "idle" => Past(stamp'[q]),
             \A q \in Reader : rpc'[q] \in {"open", "fill"} => Agrees(stamp'[q], out'[q])
      PROVE  FiledInv'
    <2>1. \A e \in entries' \cup partial' :
              Past(e.stamp)' /\ (e.out # Torn => Agrees(e.stamp, e.out)')
        BY <1>1, <1>2, <1>3
    <2>2. \A q \in Reader : rpc'[q] # "idle" => Past(stamp[q])'
        BY <1>0, <1>3 DEF Past, vars
    <2>3. \A q \in Reader : rpc'[q] \in {"open", "fill"} => Agrees(stamp[q], out[q])'
        BY <1>0, <1>3 DEF Agrees, Returns, Returning, vars
    <2>4. QED
        BY <2>1, <2>2, <2>3 DEF FiledInv
<1>4. CASE TakeStamp(r)
    <2>1. Past(RepoStamp)
        BY DEF Past, RepoStamp, WriterInv
    <2>2. QED
        BY <1>3, <1>4, <2>1 DEF TakeStamp, Goto, FiledInv
<1>5. CASE (Hit(r) \/ Miss(r) \/ Kill(r)) /\ UNCHANGED reads
    BY <1>3, <1>5 DEF Hit, Miss, Kill, Finish, Goto, FiledInv
<1>6. CASE Compute(r) /\ UNCHANGED reads
    <2>1. CASE Evaluates(config.c)
        <3>1. \A f : Returns(f) => f = config
            BY <2>1 DEF Returns, Returning
        <3>2. Agrees(stamp[r], config.c)
            BY <3>1 DEF Agrees
        <3>3. out' = [out EXCEPT ![r] = config.c] /\ Goto(r, "open")
            BY <1>6, <2>1 DEF Compute
        <3>4. UNCHANGED <<entries, partial, stamp>>
            BY <1>6, <2>1 DEF Compute
        <3>5. QED
            BY <1>3, <1>6, <3>2, <3>3, <3>4 DEF Compute, Goto, FiledInv
    <2>2. CASE ~Evaluates(config.c)
        BY <1>3, <1>6, <2>2 DEF Compute, Finish, FiledInv
    <2>3. QED
        BY <2>1, <2>2
<1>7. CASE Open(r) /\ UNCHANGED reads
    BY <1>3, <1>7 DEF Open, Write, At, Goto, FiledInv
<1>8. CASE Fill(r) /\ UNCHANGED reads
    <2>1. Past(stamp[r]) /\ Agrees(stamp[r], out[r])
        BY <1>8 DEF Fill, FiledInv
    <2>2. ASSUME NEW e \in entries' \cup partial' PROVE Right(e)
        <3>1. CASE e \in entries \cup partial
            BY <3>1 DEF FiledInv
        <3>2. CASE e \notin entries \cup partial
            <4>1. e.stamp = stamp[r] /\ e.out = out[r]
                BY <1>8, <2>2, <3>2 DEF Fill, Write, At
            <4>2. QED
                BY <2>1, <4>1
        <3>3. QED
            BY <3>1, <3>2
    <2>3. QED
        BY <1>3, <1>8, <2>2 DEF Fill, Goto, FiledInv
<1>9. CASE Publish(r) /\ UNCHANGED reads
    <2>1. ASSUME NEW e \in entries' \cup partial' PROVE Right(e)
        <3>1. e \in entries \cup partial
              \/ \E d \in partial : d.stamp = stamp[r] /\ e.stamp = stamp[r] /\ e.out = d.out
            BY <1>9, <2>1 DEF Publish, Write, At
        <3>2. QED
            BY <3>1 DEF FiledInv
    <2>2. QED
        BY <1>3, <1>9, <2>1 DEF Publish, Finish, Goto, FiledInv
<1>10. CASE Prune(r) /\ UNCHANGED reads
    BY <1>3, <1>10 DEF Prune, At, Finish, Goto, FiledInv
<1>11. QED
    BY <1>4, <1>5, <1>6, <1>7, <1>8, <1>9, <1>10 DEF Read

LEMMA CommandFiles ==
    ASSUME TypeInv, TypeInv', WriterInv, WriterStep, FiledType, FiledInv, UNCHANGED cvars
    PROVE  FiledInv'
<1>1. \A s : s.file \subseteq Nat /\ Past(s) =>
          Past(s)' /\ \A o : Agrees(s, o) => Agrees(s, o)'
    BY WriterKeeps
<1>2. UNCHANGED <<entries, partial, rpc, stamp, out>>
    BY DEF cvars
<1>3. ASSUME NEW e \in entries' \cup partial'
      PROVE  Past(e.stamp)' /\ (e.out # Torn => Agrees(e.stamp, e.out)')
    <2>1. e.stamp.file \subseteq Nat
        BY <1>2, <1>3 DEF FiledType, Stamps
    <2>2. QED
        BY <1>1, <1>2, <1>3, <2>1 DEF FiledInv
<1>4. ASSUME NEW r \in Reader, rpc'[r] # "idle"
      PROVE  /\ Past(stamp[r])'
             /\ rpc'[r] \in {"open", "fill"} => Agrees(stamp[r], out[r])'
    <2> DEFINE s == stamp[r]  o == out[r]
    <2>1. PICK t, a : t = s /\ a = o
        OBVIOUS
    <2>2. t.file \subseteq Nat /\ Past(t)
        BY <1>2, <1>4, <2>1 DEF FiledType, Stamps, FiledInv
    <2>3. Past(t)' /\ (Agrees(t, a) => Agrees(t, a)')
        BY <1>1, <2>2
    <2>4. t = stamp'[r] /\ a = out'[r]
        BY <1>2, <2>1
    <2>5. Past(stamp[r])'
        BY <2>3, <2>4 DEF Past
    <2>6. ASSUME rpc[r] \in {"open", "fill"} PROVE Agrees(stamp[r], out[r])'
        <3>1. Agrees(t, a)
            BY <2>1, <2>6 DEF FiledInv
        <3>2. QED
            BY <2>3, <2>4, <3>1 DEF Agrees
    <2>7. QED
        BY <1>2, <2>5, <2>6
<1>5. QED
    BY <1>3, <1>4, <1>2 DEF FiledInv, FiledType, ReadSteps

(* The same steps, rebuilds and boots included, seen as steps of the writer.*)
LEMMA OthersWrite ==
    ASSUME TypeInv, WriterInv, Ticks \/ Halts \/ UNCHANGED vars
    PROVE  WriterStep
<1> USE DEF TypeInv, TypeOK
<1>1. /\ UNCHANGED <<config, bak, cmd>> /\ now' \in Nat /\ now <= now'
      /\ \/ UNCHANGED <<tmp, pc>>
         \/ \A p \in Proc : pc'[p] = "idle"
    BY WriteTimeType DEF Ticks, Halts, vars, WriteTime
<1>2. /\ config.t \in Nat
      /\ bak # NoFile => bak.t \in Nat
      /\ \A p \in Proc : pc[p] \in {"backup", "swap"} => tmp[p].t \in Nat
    BY DEF File, Written
<1>3. WriterInv'
    BY <1>1, <1>2 DEF WriterInv
<1>4. NoRevival /\ FreshEdits
    BY <1>1 DEF NoRevival, FreshEdits, Returns, Returning
<1>5. QED
    BY <1>1, <1>3, <1>4 DEF WriterStep

(* Taking the stamp before the answer is enough, whatever the readers, as   *)
(* long as one command at a time edits the file and commands evaluate what  *)
(* they answer: an entry filed while an edit was on its way in or out is    *)
(* never the answer for the version that stays.                             *)
THEOREM SerialNeverStale ==
    ASSUME MaxTime # 0, OneWriter, ~ReadsText
    PROVE  SystemSpec => []NeverStale
<1>1. SystemInit => WriterInv /\ FiledInv
    BY DEF SystemInit, CacheInit, Init, WriterInv, FiledInv
<1>2. TypeInv /\ TypeInv' /\ FiledType /\ WriterInv /\ FiledInv /\ [SystemNext]_allvars
        => WriterInv' /\ FiledInv'
    <2> SUFFICES ASSUME TypeInv, TypeInv', FiledType, WriterInv, FiledInv, [SystemNext]_allvars
                 PROVE  WriterInv' /\ FiledInv'
        OBVIOUS
    <2>1. CASE Next /\ UNCHANGED cvars
        BY <2>1, WriterNext, CommandFiles DEF WriterStep
    <2>2. CASE (Ticks \/ Halts \/ UNCHANGED vars) /\ UNCHANGED cvars
        BY <2>2, OthersWrite, CommandFiles DEF WriterStep
    <2>3. CASE UNCHANGED vars /\ \E r \in Reader : Read(r)
        BY <2>3, OthersWrite, ReadFiles DEF WriterStep
    <2>4. QED
        BY <2>1, <2>2, <2>3, SystemStep
<1>3. TypeInv /\ FiledType /\ FiledInv => NeverStale
    <2> SUFFICES ASSUME TypeInv, FiledType, FiledInv, NEW e \in At(entries, RepoStamp), e.out # Torn
                 PROVE  e.out = config.c
        BY DEF NeverStale
    <2>1. Agrees(e.stamp, e.out) /\ e.stamp.file = {config.t}
        BY DEF At, FiledInv, RepoStamp
    <2>2. QED
        BY <2>1 DEF Agrees, Returns
<1>4. SystemSpec => [](WriterInv /\ FiledInv)
    BY <1>1, <1>2, SystemType, SystemFiledType, PTL DEF SystemSpec, allvars
<1>5. QED
    BY <1>3, <1>4, SystemType, SystemFiledType, PTL

-----------------------------------------------------------------------------
(* Half answers.  The file a lone reader renames is the one it has filled:  *)
(* what a killed reader left under that stamp was cut and written anew.     *)
FilledInv ==
    /\ NeverTorn
    /\ \A r \in Reader : rpc[r] = "fill" => At(partial, stamp[r]) # {}
    /\ \A r \in Reader : rpc[r] = "publish" =>
          \A e \in At(partial, stamp[r]) : e.out # Torn

LEMMA FilledNext ==
    ASSUME \A q, r \in Reader : q = r, FiledType, FilledInv, NEW r \in Reader, Read(r)
    PROVE  FilledInv'
<1> USE DEF FilledInv, FiledType, NeverTorn
<1>0. \A q \in Reader : q = r
    OBVIOUS
<1>1. CASE TakeStamp(r)
    BY <1>0, <1>1 DEF TakeStamp, Goto
<1>2. CASE (Hit(r) \/ Miss(r) \/ Kill(r)) /\ UNCHANGED reads
    BY <1>0, <1>2 DEF Hit, Miss, Kill, Finish, Goto
<1>3. CASE Compute(r) /\ UNCHANGED reads
    BY <1>0, <1>3 DEF Compute, Finish, Goto
<1>4. CASE Open(r) /\ UNCHANGED reads
    <2>1. partial' = Write(partial, stamp[r], Torn) /\ rpc'[r] = "fill"
        BY <1>4 DEF Open, Goto
    <2>2. UNCHANGED <<entries, stamp>>
        BY <1>4 DEF Open
    <2>3. [stamp |-> stamp[r], out |-> Torn] \in At(partial', stamp[r])
        BY <2>1 DEF Write, At
    <2>4. QED
        BY <1>0, <2>1, <2>2, <2>3
<1>5. CASE Fill(r) /\ UNCHANGED reads
    <2>1. At(partial, stamp[r]) # {} /\ rpc'[r] = "publish"
        BY <1>5 DEF Fill, Goto
    <2>2. partial' = Write(partial, stamp[r], out[r]) /\ UNCHANGED <<entries, stamp>>
        BY <1>5, <2>1 DEF Fill
    <2>3. out[r] # Torn
        BY <1>5, CacheAssumption DEF Fill
    <2>4. \A e \in At(partial', stamp[r]) : e.out # Torn
        BY <2>2, <2>3 DEF Write, At
    <2>5. QED
        BY <1>0, <2>1, <2>2, <2>4
<1>6. CASE Publish(r) /\ UNCHANGED reads
    <2>1. \A e \in At(partial, stamp[r]) : e.out # Torn
        BY <1>6 DEF Publish
    <2>2. \A e \in entries' : e.out # Torn
        BY <1>6, <2>1 DEF Publish, Write, At
    <2>3. rpc'[r] \in {"prune", "idle"}
        BY <1>6 DEF Publish, Finish, Goto
    <2>4. QED
        BY <1>0, <2>2, <2>3
<1>7. CASE Prune(r) /\ UNCHANGED reads
    BY <1>0, <1>7 DEF Prune, At, Finish, Goto
<1>8. QED
    BY <1>1, <1>2, <1>3, <1>4, <1>5, <1>6, <1>7 DEF Read

(* with_cache's mv is enough for one reader at a time: whatever readers     *)
(* were killed before it, it never finds half an answer.                    *)
THEOREM LoneReaderNeverTorn ==
    ASSUME \A q, r \in Reader : q = r
    PROVE  SystemSpec => []NeverTorn
<1>1. SystemInit => FilledInv
    BY DEF SystemInit, CacheInit, FilledInv, NeverTorn
<1>2. FiledType /\ FilledInv /\ [SystemNext]_allvars => FilledInv'
    <2> SUFFICES ASSUME FiledType, FilledInv, [SystemNext]_allvars PROVE FilledInv'
        OBVIOUS
    <2>1. CASE UNCHANGED cvars
        BY <2>1 DEF FilledInv, NeverTorn, At, cvars
    <2>2. QED
        BY <2>1, SystemStep, FilledNext
<1>3. FilledInv => NeverTorn
    BY DEF FilledInv
<1>4. QED
    BY <1>1, <1>2, <1>3, SystemFiledType, PTL DEF SystemSpec, allvars
=============================================================================

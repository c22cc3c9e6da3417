---------------------------- MODULE ConfigCache ----------------------------
(***************************************************************************)
(* The read cache of vayume-config (repo_stamp and with_cache) beside the  *)
(* editing commands of ConfigEdit: an answer is filed under a stamp of the *)
(* names and times of every file below modules/, the backup and the        *)
(* temporary files of running edits included.                              *)
(***************************************************************************)
EXTENDS ConfigEdit

CONSTANTS
    Reader,     \* processes running the same listing command
    ReadsText,  \* apps list and development list read the file's text (TRUE);
                \* theme get, users list and defaults get evaluate it
    Torn,       \* an answer that is not all there yet
    NoAnswer,
    MaxReads    \* bound on the listing commands of a behaviour

ASSUME CacheAssumption ==
    /\ ReadsText \in BOOLEAN
    /\ MaxReads \in Nat
    /\ Torn \notin Content
    /\ NoAnswer \notin Content

VARIABLES
    entries,  \* the $name.<stamp>.json files
    partial,  \* the $name.<stamp>.json.tmp files
    rpc,      \* where the reader's command is
    stamp,    \* the stamp it took first
    out,      \* the answer it computed
    reads     \* listing commands begun, up to MaxReads

cvars == <<entries, partial, rpc, stamp, out, reads>>

Answers == Content \cup {Torn}
ReadSteps == {"idle", "lookup", "compute", "open", "fill", "publish", "prune"}

CacheTypeOK ==
    /\ TypeOK
    /\ \A e \in entries \cup partial : e.out \in Answers
    /\ rpc \in [Reader -> ReadSteps]
    /\ reads \in 0..MaxReads
    /\ out \in [Reader -> Content \cup {NoAnswer}]

CacheInit ==
    /\ Init
    /\ entries = {}
    /\ partial = {}
    /\ rpc = [r \in Reader |-> "idle"]
    /\ stamp = [r \in Reader |-> NoAnswer]
    /\ out = [r \in Reader |-> NoAnswer]
    /\ reads = 0

-----------------------------------------------------------------------------
TimeOf(f) == IF f = NoFile THEN {} ELSE {f.t}
TmpTimes == {<<p, tmp[p].t>> : p \in {q \in Proc : tmp[q] # NoFile}}

(* Mutant: a stamp of names and sizes only.                                 *)
NamesOnly == [file |-> {}, bak |-> bak = NoFile, tmps |-> {p \in Proc : tmp[p] = NoFile}]

(* repo_stamp; two versions of one file differ in size at least as often as *)
(* in time, so the size is left out.                                        *)
RepoStamp == [file |-> {config.t}, bak |-> TimeOf(bak), tmps |-> TmpTimes]

At(files, s) == {e \in files : e.stamp = s}
Write(files, s, o) == (files \ At(files, s)) \cup {[stamp |-> s, out |-> o]}
Finish(r) ==
    /\ rpc' = [rpc EXCEPT ![r] = "idle"]
    /\ stamp' = [stamp EXCEPT ![r] = NoAnswer]
    /\ out' = [out EXCEPT ![r] = NoAnswer]
Goto(r, step) == rpc' = [rpc EXCEPT ![r] = step]

TakeStamp(r) ==
    /\ rpc[r] = "idle"
    /\ reads < MaxReads
    /\ reads' = reads + 1
    /\ stamp' = [stamp EXCEPT ![r] = RepoStamp]
    /\ Goto(r, "lookup")
    /\ UNCHANGED <<vars, entries, partial, out>>

(* [ -f "$file" ] and cat "$file".                                          *)
Hit(r) ==
    /\ rpc[r] = "lookup"
    /\ At(entries, stamp[r]) # {}
    /\ Finish(r)
    /\ UNCHANGED <<vars, entries, partial>>

Miss(r) ==
    /\ rpc[r] = "lookup"
    /\ At(entries, stamp[r]) = {}
    /\ Goto(r, "compute")
    /\ UNCHANGED <<vars, entries, partial, stamp, out>>

(* Mutant: a failed command's empty output is filed too.                    *)
ComputeAnyway(r) ==
    /\ rpc[r] = "compute"
    /\ out' = [out EXCEPT ![r] = IF Evaluates(config.c) THEN config.c ELSE NoAnswer]
    /\ Goto(r, "open")
    /\ UNCHANGED <<vars, entries, partial, stamp>>

(* out=$("$@") || return 1                                                  *)
Compute(r) ==
    /\ rpc[r] = "compute"
    /\ \/ /\ ReadsText \/ Evaluates(config.c)
          /\ out' = [out EXCEPT ![r] = config.c]
          /\ Goto(r, "open")
          /\ UNCHANGED stamp
       \/ /\ ~ReadsText /\ ~Evaluates(config.c)
          /\ Finish(r)
    /\ UNCHANGED <<vars, entries, partial>>

(* Mutant: the shell opens $file itself.                                    *)
OpenInPlace(r) ==
    /\ rpc[r] = "open"
    /\ entries' = Write(entries, stamp[r], Torn)
    /\ Goto(r, "fill")
    /\ UNCHANGED <<vars, partial, stamp, out>>

(* The shell opens $file.tmp, cutting it to nothing, before printf writes.  *)
Open(r) ==
    /\ rpc[r] = "open"
    /\ partial' = Write(partial, stamp[r], Torn)
    /\ Goto(r, "fill")
    /\ UNCHANGED <<vars, entries, stamp, out>>

(* printf writes into the file it opened, wherever that has been moved to.  *)
Fill(r) ==
    /\ rpc[r] = "fill"
    /\ IF At(partial, stamp[r]) # {}
       THEN /\ partial' = Write(partial, stamp[r], out[r])
            /\ UNCHANGED entries
       ELSE /\ entries' = {[e EXCEPT !.out = IF e.stamp = stamp[r] THEN out[r] ELSE @]
                             : e \in entries}
            /\ UNCHANGED partial
    /\ Goto(r, "publish")
    /\ UNCHANGED <<vars, stamp, out>>

(* mv "$file.tmp" "$file"; without the source the command ends there.       *)
Publish(r) ==
    /\ rpc[r] = "publish"
    /\ \/ \E e \in At(partial, stamp[r]) :
             /\ entries' = Write(entries, stamp[r], e.out)
             /\ partial' = partial \ {e}
             /\ Goto(r, "prune")
             /\ UNCHANGED <<stamp, out>>
       \/ /\ At(partial, stamp[r]) = {}
          /\ Finish(r)
          /\ UNCHANGED <<entries, partial>>
    /\ UNCHANGED vars

(* find ... ! -name "$(basename "$file")" -delete                           *)
Prune(r) ==
    /\ rpc[r] = "prune"
    /\ entries' = At(entries, stamp[r])
    /\ Finish(r)
    /\ UNCHANGED <<vars, partial>>

(* The panel that asked is closed.                                          *)
Kill(r) ==
    /\ rpc[r] # "idle"
    /\ Finish(r)
    /\ UNCHANGED <<vars, entries, partial>>

Read(r) ==
    \/ TakeStamp(r)
    \/ /\ \/ Hit(r) \/ Miss(r) \/ Compute(r) \/ Open(r)
          \/ Fill(r) \/ Publish(r) \/ Prune(r) \/ Kill(r)
       /\ UNCHANGED reads

CacheNext == (Next /\ UNCHANGED cvars) \/ \E r \in Reader : Read(r)

CacheSpec == CacheInit /\ [][CacheNext]_<<vars, cvars>>

-----------------------------------------------------------------------------
(* What the cache would answer now is what the file says now, or a text     *)
(* that another reader is still writing: it can serve a stale answer only   *)
(* if a file changes without its time changing (repo_stamp, and the revert  *)
(* of apply_edit, which brings an old time back).                           *)
NeverStale == \A e \in At(entries, RepoStamp) : e.out \in {config.c, Torn}

(* One reader at a time never finds half an answer, whatever was killed     *)
(* before it (with_cache: only mv makes an entry).                          *)
NeverTorn == \A e \in entries : e.out # Torn
=============================================================================

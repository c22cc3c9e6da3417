------------------------------ MODULE ZenFiles ------------------------------
(***************************************************************************)
(* The files in the Zen profile that matugen, the user and the shell write *)
(* and that the theme scripts poll: matugen-vars.json ("palette"),         *)
(* matugen-userstyles.css ("global"), matugen-userstyles-github.css        *)
(* ("github") and custom_web_theme_state ("web").                          *)
(*                                                                         *)
(* A write truncates the file and completes it later, each with a new      *)
(* modification time.  A completed text is named by the time it was        *)
(* completed at, so the texts of one file are ordered; only the text of    *)
(* "web" is looked into.  `left` is the number of outside events of each   *)
(* kind that may still come: it bounds every run.                          *)
(***************************************************************************)
EXTENDS Naturals

CONSTANTS
    Half        \* the text of a file whose writer has not finished

VARIABLES
    file,       \* file[f]: whether it is there, its text and its time
    left

StyleFile == {"global", "github"}
Watched == StyleFile \union {"palette", "web"}

EventKind == Watched \union {"disable", "lack", "late", "open", "close", "load", "mutate",
                              "user", "toggle", "restart"}

\* The two texts of "web".
On == 1
Off == 0

File == [there: BOOLEAN, text: Nat \union {Half}, time: Nat]

FilesTypeOK ==
    /\ file \in [Watched -> File]
    /\ left \in [EventKind -> Nat]

Missing == [there |-> FALSE, text |-> 0, time |-> 0]

(***************************************************************************)
(* Some of the files are there before the browser starts.                  *)
(***************************************************************************)
Finished == [there |-> TRUE, text |-> 1, time |-> 1]

FilesInit(written) == file = [f \in Watched |-> IF f \in written THEN Finished ELSE Missing]

Spend(kinds) ==
    /\ \A k \in kinds : left[k] > 0
    /\ left' = [k \in EventKind |-> IF k \in kinds THEN left[k] - 1 ELSE left[k]]

Begun(f) == [there |-> TRUE, text |-> Half, time |-> file[f].time + 1]

Texts(f, time) == IF f = "web" THEN {On, Off} ELSE {time}

Written(f, time) ==
    {[there |-> TRUE, text |-> text, time |-> time] : text \in Texts(f, time)}

StartWrite(f) ==
    /\ file[f].text # Half
    /\ Spend({f})
    /\ file' = [file EXCEPT ![f] = Begun(f)]

EndWrite(f) ==
    /\ file[f].text = Half
    /\ \E done \in Written(f, file[f].time + 1) : file' = [file EXCEPT ![f] = done]
    /\ UNCHANGED left

(***************************************************************************)
(* readWebThemeState, loadUserstylesFor and init ask for a file's time     *)
(* after they have read its text: a writer may end, or begin, or begin and *)
(* end in between.                                                         *)
(***************************************************************************)
Later(f) ==
    IF file[f].text = Half THEN Written(f, file[f].time + 1)
    ELSE {Begun(f)} \union Written(f, file[f].time + 2)

Overtakes(read, events) ==
    \/ Spend(events) /\ UNCHANGED file
    \/ /\ Spend(events \union {"late"})
       /\ \E f \in read : \E later \in Later(f) : file' = [file EXCEPT ![f] = later]

(***************************************************************************)
(* Deleted, or renamed to something.css.disabled.                          *)
(***************************************************************************)
Disable(f) ==
    /\ f \in {"github", "web"}
    /\ file[f].there
    /\ file[f].text # Half
    /\ Spend({"disable"})
    /\ file' = [file EXCEPT ![f].there = FALSE, ![f].text = 0]

(* Mutant: the part of a half-written palette that can be read is used.     *)
ReadHalf == IF file["palette"].there THEN file["palette"].text ELSE 0

(***************************************************************************)
(* readJson: 0 stands for null, for a file that is missing or does not     *)
(* parse.  Every written palette has a colour for every key.               *)
(***************************************************************************)
ReadJson ==
    LET json == file["palette"]
    IN  IF json.there /\ json.text # Half THEN json.text ELSE 0

(***************************************************************************)
(* What the state file says: only the text "false" turns the per-site      *)
(* styles off, so a missing or truncated file reads as on.                 *)
(***************************************************************************)
WebOn == ~ (file["web"].there /\ file["web"].text = Off)

WebTime == IF file["web"].there THEN file["web"].time ELSE 0
=============================================================================

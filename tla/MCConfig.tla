----------------------------- MODULE MCConfig -----------------------------
(***************************************************************************)
(* Values shared by the runs of ConfigEdit: a file with two users, one     *)
(* declared app and one the flake does not know, one setting.              *)
(***************************************************************************)
EXTENDS ConfigRefinesStore, TLC

CONSTANTS me, friend, guest, known, unknown, p1, p2

TwoUsers == {me, friend}
Procs == {p1, p2}

(* A file whose users are us, of which admins are in wheel.                 *)
FileWith(us, admins) ==
    [users    |-> us,
     twice    |-> {},
     attrs    |-> [u \in User |-> [a \in Attr |->
                     IF a = "extraGroups" /\ u \in admins THEN {"wheel"} ELSE {}]],
     apps     |-> [a \in App |-> "absent"],
     fields   |-> [f \in Field |-> CHOOSE v \in Value : TRUE],
     settings |-> {}]

Toggle(a, on) == [op |-> "apps", app |-> a, on |-> on]
Wheel(u, on) == [op |-> "merge", user |-> u, attr |-> "extraGroups",
                 item |-> "wheel", on |-> on]
Group(u, g) == [op |-> "merge", user |-> u, attr |-> "extraGroups",
                item |-> g, on |-> TRUE]
Name(u, v) == [op |-> "replace", user |-> u, attr |-> "fullName", item |-> v]
Theme(f, v) == [op |-> "block", field |-> f, value |-> v]
Add(u) == [op |-> "add", user |-> u]
Remove(u) == [op |-> "remove", user |-> u]
Set(k, on) == [op |-> "setting", key |-> k, on |-> on]

-----------------------------------------------------------------------------
OneAdmin == {FileWith({me, friend}, {me})}
TwoAdmins == {FileWith({me, friend}, {me, friend})}
SomeFiles == OneAdmin \cup TwoAdmins

(* One command at a time: every kind of edit, the ones that fail included.  *)
SerialEdits ==
    {Toggle(known, TRUE), Toggle(known, FALSE), Toggle(unknown, TRUE),
     Theme("fontSize", 1), Theme("font", 2),
     Wheel(me, FALSE), Wheel(friend, FALSE), Wheel(friend, TRUE),
     Group(friend, "video"), Name(friend, "video"), Name(guest, "video"),
     Add(guest), Add(friend), Remove(me), Remove(friend), Remove(guest),
     Set("live", TRUE), Set("live", FALSE), Set("dropped", TRUE), Set("dropped", FALSE)}

(* Overlapping commands: users come and go, a bad application makes the file *)
(* fail to validate and go back to whatever backup there is by then.        *)
UserEdits == {Toggle(unknown, TRUE), Add(guest), Add(me),
              Remove(guest), Remove(friend), Remove(me)}
ToggleBack == {Toggle(unknown, FALSE)}
BadAndGood == {Toggle(known, TRUE), Toggle(unknown, TRUE)}
BothAdmins == {Wheel(me, FALSE), Wheel(friend, FALSE)}

SomeFields == {"fontSize", "font"}
FontOnly == {"font"}
SomeAttrs == {"extraGroups", "fullName"}
SomeItems == {"wheel", "video"}
SomeSettings == {"live", "dropped"}
LiveOnly == {"live"}
Symmetric == Permutations(Proc)
=============================================================================

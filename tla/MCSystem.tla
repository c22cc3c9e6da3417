------------------------------ MODULE MCSystem ------------------------------
(***************************************************************************)
(* Values for the run of ConfigSystem: a file with one user, an app the    *)
(* flake knows and one it does not.                                        *)
(***************************************************************************)
EXTENDS ConfigSystem

CONSTANTS me, known, unknown, p1, r1

InWheel == [a \in Attr |-> IF a = "extraGroups" THEN {"wheel"} ELSE {}]

PlainFile ==
    [users    |-> {me},
     twice    |-> {},
     attrs    |-> [u \in User |-> InWheel],
     apps     |-> [a \in App |-> "absent"],
     fields   |-> [f \in Field |-> 1],
     settings |-> {}]

OneFile == {PlainFile}
Toggle(a, on) == [op |-> "apps", app |-> a, on |-> on]
GoodAndBad == {Toggle(known, TRUE), Toggle(unknown, TRUE)}

GroupsOnly == {"extraGroups"}
WheelOnly == {"wheel"}
SizeOnly == {"fontSize"}
LiveOnly == {"live"}
=============================================================================

------------------------------ MODULE MCPanel ------------------------------
(***************************************************************************)
(* Controls and users for the runs of SettingsPanel.                       *)
(***************************************************************************)
EXTENDS SettingsPanel

Control == [font |-> "theme", fontSize |-> "theme", wheel |-> "users",
            krita |-> "users", guest |-> "members", browser |-> "defaults",
            idle |-> "settings", opacity |-> "settings"]

Controls == DOMAIN Control
Packages == {"krita"}

Patient == [keys |-> {"font", "fontSize", "wheel", "krita", "guest", "browser"},
            waits |-> TRUE, fails |-> FALSE]
Hasty(keys) == [keys |-> keys, waits |-> FALSE, fails |-> TRUE]

PatientOrSettings == {Patient, Hasty({"idle", "opacity"})}
TwoFields == {[Hasty({"font", "fontSize"}) EXCEPT !.fails = FALSE]}
=============================================================================

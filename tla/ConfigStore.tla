---------------------------- MODULE ConfigStore ----------------------------
(***************************************************************************)
(* What docs/core-vayume-config.md promises of vayume-config, without the  *)
(* files it is made of: one stored configuration that each command either  *)
(* replaces by its own edit of it, or leaves exactly as it was, its        *)
(* modification time included.                                             *)
(***************************************************************************)
EXTENDS ConfigFile

CONSTANTS Edits, InitialContents

VARIABLE stored

(* What a stored configuration must still offer after an edit of that kind: *)
(* validated edits evaluate, a removal leaves an admin other than its user, *)
(* and never takes the account that asked for it.                           *)
Allowed(e, c, new) ==
    /\ e.op # "setting" => Evaluates(new)
    /\ e.op = "add" => e.user \notin c.users
    /\ DropsAdmin(e) => Admins(c) \ {e.user} # {}
    /\ e.op = "remove" => e.user # Self
    /\ e.op \in {"merge", "replace", "remove"} => e.user \in c.users

StoreInit == \E c \in InitialContents : stored = [c |-> c, t |-> 0]

Accept(e) ==
    LET old == IF e.op = "merge" THEN stored.c.attrs[e.user][e.attr] ELSE {}
        new == Apply(e, stored.c, old)
    IN  /\ Allowed(e, stored.c, new)
        /\ stored'.t >= stored.t
        /\ stored' = [c |-> new, t |-> stored'.t]

StoreNext == \E e \in Edits : Accept(e)

StoreSpec == StoreInit /\ [][StoreNext]_stored
=============================================================================

----------------------------- MODULE ConfigFile -----------------------------
(***************************************************************************)
(* What a version of _config.nix says, as far as vayume-config tells two   *)
(* versions apart, and what each editing command does to it: the awk       *)
(* editors of modules/vayume/Config.nix, the flat-line editor              *)
(* _setting.awk, and the question nix answers when it evaluates the file.  *)
(***************************************************************************)
EXTENDS Integers, FiniteSets

CONSTANTS
    User,         \* account names a command may mention
    Self,         \* the account vayume-config runs as (id -un)
    Attr,         \* fields of a vayume.users.<user> block
    Item,         \* members of such a field (groups, package paths, keys, names)
    DefaultGroup, \* extraGroups of a user whose block does not set them
    App,          \* names that pass validate_app_name
    KnownApp,     \* the ones the flake declares a vayume.apps option for
    Field,        \* fields of the vayume.theme and vayume.defaultApps blocks
    EvalField,    \* the ones whose new value is checked with a nix eval
    Value,        \* values of such a field
    Setting,      \* options listed in the settings snapshot of the running system
    KnownSetting  \* the ones the checked-out flake still declares

ASSUME ConfigAssumption ==
    /\ Self \in User
    /\ "extraGroups" \in Attr
    /\ "wheel" \in Item
    /\ DefaultGroup \subseteq Item
    /\ "wheel" \notin DefaultGroup
    /\ KnownApp \subseteq App
    /\ EvalField \subseteq Field

-----------------------------------------------------------------------------
(* A version of the file.  users are the blocks inside vayume.users, twice  *)
(* the users that have two blocks, apps the lines of vayume.apps, fields    *)
(* the theme and defaultApps values, settings the flat vayume.<path> lines. *)
Content == [users    : SUBSET User,
            twice    : SUBSET User,
            attrs    : [User -> [Attr -> SUBSET Item]],
            apps     : [App -> {"absent", "off", "on"}],
            fields   : [Field -> Value],
            settings : SUBSET Setting]

(* nix evaluates the file: no attribute is defined twice and every option   *)
(* it sets is one the flake declares.                                       *)
Evaluates(c) ==
    /\ c.twice = {}
    /\ \A a \in App \ KnownApp : c.apps[a] = "absent"
    /\ c.settings \subseteq KnownSetting

Admins(c) == {u \in c.users : "wheel" \in c.attrs[u]["extraGroups"]}

-----------------------------------------------------------------------------
(* The commands that edit the file.                                         *)
(* set-group, set-secret and set-package change one member of a field,      *)
(* set-name and set-password replace a whole one.                           *)
MergedAttr   == Attr \cap {"extraGroups", "secrets", "packages"}
ReplacedAttr == Attr \cap {"fullName", "hashedPassword"}

AppsSet      == [op : {"apps"}, app : App, on : BOOLEAN]
BlockSet     == [op : {"block"}, field : Field, value : Value]
UserMerge    == [op : {"merge"}, user : User, attr : MergedAttr, item : Item, on : BOOLEAN]
UserReplace  == [op : {"replace"}, user : User, attr : ReplacedAttr, item : Item]
UserAdd      == [op : {"add"}, user : User]
UserRemove   == [op : {"remove"}, user : User]
SettingEdit  == [op : {"setting"}, key : Setting, on : BOOLEAN]

AllEdits == AppsSet \cup BlockSet \cup UserMerge \cup UserReplace
                \cup UserAdd \cup UserRemove \cup SettingEdit

(* The commands that evaluate what they are about to change before they     *)
(* write (remove only asks for the admins, see DropsAdmin).                 *)
Evaluating(e) ==
    \/ e.op \in {"merge", "add"}
    \/ e.op = "block" /\ e.field \in EvalField

(* The commands refuse_last_admin guards.                                   *)
DropsAdmin(e) ==
    \/ e.op = "remove"
    \/ e.op = "merge" /\ e.attr = "extraGroups" /\ e.item = "wheel" /\ ~e.on

(* The awk editor finds the block it has to change.                         *)
Finds(e, c) == e.op \in {"merge", "replace", "remove"} => e.user \in c.users

NoAttrs == [a \in Attr |-> {}]
NewUserAttrs == [a \in Attr |-> IF a = "extraGroups" THEN DefaultGroup ELSE {}]

(* appsAwk rewrites the app's line or inserts one before the block closes.  *)
AppLine(c, a, on) == [c EXCEPT !.apps[a] = IF on THEN "on" ELSE "off"]

(* blockAwk does the same for a field, in a block it adds when there is none.*)
BlockLine(c, f, v) == [c EXCEPT !.fields[f] = v]

(* _setting.awk: every flat line of that path goes, a set puts back one.    *)
FlatLine(c, k, on) == [c EXCEPT !.settings = IF on THEN @ \cup {k} ELSE @ \ {k}]

(* usersAwk: one field of one user's block becomes a whole new value.       *)
WithAttr(c, u, a, items) ==
    [c EXCEPT !.attrs[u][a] = items]

(* usersAddAwk inserts a block without looking for an older one.            *)
WithUser(c, u) ==
    IF u \in c.users
    THEN [c EXCEPT !.twice = @ \cup {u}]
    ELSE [c EXCEPT !.users = @ \cup {u}, !.attrs[u] = NewUserAttrs]

(* usersRemoveAwk drops the first block of that name.                       *)
WithoutUser(c, u) ==
    IF u \in c.twice
    THEN [c EXCEPT !.twice = @ \ {u}, !.attrs[u] = NewUserAttrs]
    ELSE [c EXCEPT !.users = @ \ {u}, !.attrs[u] = NoAttrs]

(* A merging command writes the field it evaluated earlier (snap) with one  *)
(* item more or less.                                                       *)
Merged(e, snap) == IF e.on THEN snap \cup {e.item} ELSE snap \ {e.item}

(* The new text a command computes from the file it reads.                  *)
Apply(e, c, snap) ==
    CASE e.op = "apps"    -> AppLine(c, e.app, e.on)
      [] e.op = "block"   -> BlockLine(c, e.field, e.value)
      [] e.op = "merge"   -> WithAttr(c, e.user, e.attr, Merged(e, snap))
      [] e.op = "replace" -> WithAttr(c, e.user, e.attr, {e.item})
      [] e.op = "add"     -> WithUser(c, e.user)
      [] e.op = "remove"  -> WithoutUser(c, e.user)
      [] e.op = "setting" -> FlatLine(c, e.key, e.on)

(* What a command that printed ok has said about the file.                  *)
Holds(e, c) ==
    CASE e.op = "apps"    -> c.apps[e.app] = IF e.on THEN "on" ELSE "off"
      [] e.op = "block"   -> c.fields[e.field] = e.value
      [] e.op = "merge"   -> e.user \in c.users /\ (e.on <=> e.item \in c.attrs[e.user][e.attr])
      [] e.op = "replace" -> e.user \in c.users /\ c.attrs[e.user][e.attr] = {e.item}
      [] e.op = "add"     -> e.user \in c.users
      [] e.op = "remove"  -> e.user \notin c.users
      [] e.op = "setting" -> (e.key \in c.settings) <=> e.on
=============================================================================
